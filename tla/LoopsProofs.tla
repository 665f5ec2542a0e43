----------------------------- MODULE LoopsProofs -----------------------------
(***************************************************************************)
(* Facts about Loops, for every length.  Of every summand: a total of      *)
(* integers is an integer, is monotone in its summands, and is linear.     *)
(* Of a filter: what it picks, and that it keeps the order.  Of sorting:   *)
(* that it permutes, and puts the keys in order.  And of the community     *)
(* modules' totals over functions: what changes and bounds them.  Products *)
(* keep inequalities.                                                      *)
(* They rest on induction on a set of numbers, itself drawn from the       *)
(* well-foundedness of < on Nat.                                           *)
(***************************************************************************)
EXTENDS Loops, Functions, FiniteSetTheorems, TLAPS, WellFoundedInduction

\* Products keep an inequality.
LEMMA TimesMonotone ==
    ASSUME NEW a \in Int, NEW b \in Int, NEW c \in Nat, a <= b
    PROVE  c * a <= c * b
<1>1. c * (b - a) >= 0
  <2>1. ASSUME NEW d \in Nat, NEW e \in Nat PROVE d * e >= 0
    OBVIOUS
  <2> QED  BY <2>1
<1>2. c * (b - a) = c * b - c * a
  OBVIOUS
<1> QED  BY <1>1, <1>2

\* A positive factor can be taken away.
LEMMA TimesCancel ==
    ASSUME NEW a \in Int, NEW b \in Int, NEW c \in Nat \ {0}, c * a <= c * b
    PROVE  a <= b
<1> SUFFICES ASSUME b + 1 <= a PROVE FALSE
  OBVIOUS
<1>1. c * (b + 1) <= c * a
  BY TimesMonotone
<1>2. c * (b + 1) = c * b + c
  OBVIOUS
<1> QED  BY <1>1, <1>2

\* A set of numbers that is not empty has a least one.
LEMMA LeastNumber ==
    ASSUME NEW T \in SUBSET Nat, T # {}
    PROVE  \E n \in T : \A m \in T : n <= m
<1> DEFINE R == OpToRel(<, Nat)
<1>1. \E n \in T : \A m \in T : ~ (<<m, n>> \in R)
  <2>1. IsWellFoundedOn(R, Nat)
    BY NatLessThanWellFounded
  <2> HIDE DEF R
  <2> QED  BY <2>1, WFMin
<1>2. ASSUME NEW m \in Nat, NEW n \in Nat, m < n PROVE <<m, n>> \in R
  BY <1>2 DEF OpToRel
<1>3. PICK n \in T : \A m \in T : ~ (<<m, n>> \in R)
  BY <1>1
<1>4. \A m \in T : ~ (m < n)
  BY <1>2, <1>3
<1> HIDE DEF R
<1> QED  BY <1>3, <1>4

\* Induction: a set of numbers that holds 0, and every successor of a member,
\* holds them all.
LEMMA NumberInduction ==
    ASSUME NEW T \in SUBSET Nat, 0 \in T, \A n \in T : n + 1 \in T
    PROVE  T = Nat
<1> SUFFICES ASSUME Nat \ T # {} PROVE FALSE
  OBVIOUS
<1>1. PICK n \in Nat \ T : \A m \in Nat \ T : n <= m
  BY LeastNumber
<1>2. n # 0 /\ n - 1 \in Nat /\ n - 1 < n
  BY <1>1
<1>3. n - 1 \in T
  BY <1>1, <1>2
<1>4. (n - 1) + 1 \in T
  BY <1>3
<1> QED  BY <1>1, <1>4
-----------------------------------------------------------------------------
\* The equation that defines the partial sums.
Summed(g, f, n) ==
    g = [k \in 0 .. n |-> IF k = 0 THEN 0 ELSE g[k - 1] + f[k]]

\* The equation has a solution, which the recursive definition then is.
LEMMA SumsExist ==
    ASSUME NEW N \in Nat, NEW f \in [1 .. N -> Int]
    PROVE  \E g \in [0 .. N -> Int] : Summed(g, f, N)
<1> DEFINE T == {k \in Nat : k <= N => \E g \in [0 .. k -> Int] : Summed(g, f, k)}
<1>1. 0 \in T
  <2> DEFINE g == [k \in 0 .. 0 |-> 0]
  <2>1. g \in [0 .. 0 -> Int] /\ Summed(g, f, 0)
    BY DEF Summed
  <2> QED  BY <2>1
<1>2. ASSUME NEW k \in T PROVE k + 1 \in T
  <2> SUFFICES ASSUME k + 1 <= N
               PROVE  \E g \in [0 .. k + 1 -> Int] : Summed(g, f, k + 1)
    OBVIOUS
  <2>1. PICK g \in [0 .. k -> Int] : Summed(g, f, k)
    OBVIOUS
  <2> DEFINE h == [j \in 0 .. k + 1 |-> IF j = k + 1 THEN g[k] + f[k + 1] ELSE g[j]]
  <2>2. f[k + 1] \in Int /\ g[k] \in Int
    OBVIOUS
  <2>3. h \in [0 .. k + 1 -> Int]
    BY <2>2
  <2>4. \A j \in 0 .. k + 1 : h[j] = IF j = 0 THEN 0 ELSE h[j - 1] + f[j]
    <3>1. \A j \in 0 .. k : g[j] = IF j = 0 THEN 0 ELSE g[j - 1] + f[j]
      BY <2>1 DEF Summed
    <3>2. /\ h[k + 1] = g[k] + f[k + 1] /\ h[0] = g[0]
          /\ \A j \in 1 .. k + 1 : h[j - 1] = g[j - 1]
          /\ \A j \in 1 .. k : h[j] = g[j]
      OBVIOUS
    <3>3. \A j \in 0 .. k + 1 : j = k + 1 \/ j = 0 \/ j \in 1 .. k
      OBVIOUS
    <3>4. 0 \in 0 .. k /\ k + 1 # 0 /\ (k + 1) - 1 = k
          /\ \A j \in 1 .. k : j # 0 /\ j \in 0 .. k
      OBVIOUS
    <3>5. h[k + 1] = IF k + 1 = 0 THEN 0 ELSE h[(k + 1) - 1] + f[k + 1]
      <4>1. h[k] = g[k]
        OBVIOUS
      <4> HIDE DEF h, T
      <4> QED  BY <3>2, <3>4, <4>1
    <3>6. k \in Nat
      OBVIOUS
    <3> HIDE DEF h, T
    <3>7. \A j \in 1 .. k : h[j] = h[j - 1] + f[j]
      <4>1. TAKE j \in 1 .. k
      <4>2. j # 0 /\ j \in 0 .. k /\ j \in 1 .. k + 1
        BY <3>6
      <4>3. g[j] = g[j - 1] + f[j]
        BY <3>1, <4>2
      <4> QED  BY <3>2, <4>2, <4>3
    <3>8. h[0] = 0
      BY <3>1, <3>2, <3>4
    <3> QED  BY <3>3, <3>4, <3>5, <3>7, <3>8
  <2>5. Summed(h, f, k + 1)
    BY <2>4 DEF Summed
  <2> QED  BY <2>3, <2>5
<1>3. T = Nat
  <2>1. T \in SUBSET Nat
    OBVIOUS
  <2> HIDE DEF T
  <2> QED  BY <1>1, <1>2, <2>1, NumberInduction
<1>4. N \in T
  BY <1>3
<1> QED  BY <1>4

\* What the partial sums are.
LEMMA PartialSumsDef ==
    ASSUME NEW N \in Nat, NEW f \in [1 .. N -> Int]
    PROVE  /\ PartialSums(f, N) \in [0 .. N -> Int]
           /\ PartialSums(f, N)[0] = 0
           /\ \A k \in 1 .. N : PartialSums(f, N)[k] = PartialSums(f, N)[k - 1] + f[k]
<1> DEFINE ps == PartialSums(f, N)
<1>1. \E g : Summed(g, f, N)
  BY SumsExist
<1>2. Summed(ps, f, N)
  BY <1>1 DEF PartialSums, Summed
<1> HIDE DEF ps
<1>3. /\ ps = [k \in 0 .. N |-> IF k = 0 THEN 0 ELSE ps[k - 1] + f[k]]
      /\ DOMAIN ps = 0 .. N
  BY <1>2, Zenon DEF Summed
<1>4. ps[0] = 0 /\ \A k \in 1 .. N : ps[k] = ps[k - 1] + f[k]
  BY <1>3
<1> DEFINE T == {k \in Nat : k <= N => ps[k] \in Int}
<1>5. T = Nat
  <2>1. 0 \in T
    BY <1>4
  <2>2. ASSUME NEW k \in T PROVE k + 1 \in T
    <3> SUFFICES ASSUME k + 1 <= N PROVE ps[k + 1] \in Int
      OBVIOUS
    <3>1. ps[k + 1] = ps[(k + 1) - 1] + f[k + 1] /\ f[k + 1] \in Int
      BY <1>4
    <3>2. ps[k] \in Int /\ (k + 1) - 1 = k
      OBVIOUS
    <3> QED  BY <3>1, <3>2
  <2>3. T \in SUBSET Nat
    OBVIOUS
  <2> HIDE DEF T
  <2> QED  BY <2>1, <2>2, <2>3, NumberInduction
<1>6. \A k \in 0 .. N : ps[k] \in Int
  BY <1>5
<1>7. ps \in [0 .. N -> Int]
  BY <1>3, <1>6
<1> QED  BY <1>4, <1>7 DEF ps

\* A total of integers is an integer.
LEMMA SumIsInt ==
    ASSUME NEW N \in Nat, NEW f \in [1 .. N -> Int]
    PROVE  SumTo(f, N) \in Int
BY PartialSumsDef DEF SumTo
-----------------------------------------------------------------------------
\* A total grows with its summands.
LEMMA SumMonotone ==
    ASSUME NEW N \in Nat, NEW f \in [1 .. N -> Int], NEW g \in [1 .. N -> Int],
           \A i \in 1 .. N : f[i] <= g[i]
    PROVE  SumTo(f, N) <= SumTo(g, N)
<1> DEFINE pf == PartialSums(f, N)
           pg == PartialSums(g, N)
           T == {k \in Nat : k <= N => pf[k] <= pg[k]}
<1>1. /\ pf \in [0 .. N -> Int] /\ pf[0] = 0
      /\ \A k \in 1 .. N : pf[k] = pf[k - 1] + f[k]
  BY PartialSumsDef
<1>2. /\ pg \in [0 .. N -> Int] /\ pg[0] = 0
      /\ \A k \in 1 .. N : pg[k] = pg[k - 1] + g[k]
  BY PartialSumsDef
<1> HIDE DEF pf, pg
<1>3. 0 \in T
  BY <1>1, <1>2
<1>4. ASSUME NEW k \in T PROVE k + 1 \in T
  <2> SUFFICES ASSUME k + 1 <= N PROVE pf[k + 1] <= pg[k + 1]
    OBVIOUS
  <2>1. k + 1 \in 1 .. N /\ k \in 0 .. N /\ (k + 1) - 1 = k
    OBVIOUS
  <2>2. pf[k + 1] = pf[k] + f[k + 1] /\ pg[k + 1] = pg[k] + g[k + 1]
    BY <1>1, <1>2, <2>1
  <2>3. pf[k] \in Int /\ pg[k] \in Int /\ f[k + 1] \in Int /\ g[k + 1] \in Int
    BY <1>1, <1>2, <2>1
  <2> QED  BY <2>1, <2>2, <2>3
<1>5. T = Nat
  <2>1. T \in SUBSET Nat
    OBVIOUS
  <2> HIDE DEF T
  <2> QED  BY <1>3, <1>4, <2>1, NumberInduction
<1>6. N \in T
  BY <1>5
<1> QED  BY <1>6 DEF SumTo, pf, pg

\* The total of a sum of two functions is the sum of their totals.
LEMMA SumAdd ==
    ASSUME NEW N \in Nat, NEW f \in [1 .. N -> Int], NEW g \in [1 .. N -> Int],
           NEW h \in [1 .. N -> Int], \A i \in 1 .. N : h[i] = f[i] + g[i]
    PROVE  SumTo(h, N) = SumTo(f, N) + SumTo(g, N)
<1> DEFINE pf == PartialSums(f, N)
           pg == PartialSums(g, N)
           ph == PartialSums(h, N)
           T == {k \in Nat : k <= N => ph[k] = pf[k] + pg[k]}
<1>1. /\ pf \in [0 .. N -> Int] /\ pf[0] = 0
      /\ \A k \in 1 .. N : pf[k] = pf[k - 1] + f[k]
  BY PartialSumsDef
<1>2. /\ pg \in [0 .. N -> Int] /\ pg[0] = 0
      /\ \A k \in 1 .. N : pg[k] = pg[k - 1] + g[k]
  BY PartialSumsDef
<1>3. /\ ph \in [0 .. N -> Int] /\ ph[0] = 0
      /\ \A k \in 1 .. N : ph[k] = ph[k - 1] + h[k]
  BY PartialSumsDef
<1> HIDE DEF pf, pg, ph
<1>4. 0 \in T
  BY <1>1, <1>2, <1>3
<1>5. ASSUME NEW k \in T PROVE k + 1 \in T
  <2> SUFFICES ASSUME k + 1 <= N PROVE ph[k + 1] = pf[k + 1] + pg[k + 1]
    OBVIOUS
  <2>1. k + 1 \in 1 .. N /\ k \in 0 .. N /\ (k + 1) - 1 = k
    OBVIOUS
  <2>2. /\ pf[k + 1] = pf[k] + f[k + 1] /\ pg[k + 1] = pg[k] + g[k + 1]
        /\ ph[k + 1] = ph[k] + h[k + 1]
    BY <1>1, <1>2, <1>3, <2>1
  <2>3. pf[k] \in Int /\ pg[k] \in Int /\ f[k + 1] \in Int /\ g[k + 1] \in Int
    BY <1>1, <1>2, <2>1
  <2>4. ph[k] = pf[k] + pg[k] /\ h[k + 1] = f[k + 1] + g[k + 1]
    BY <2>1
  <2> QED  BY <2>2, <2>3, <2>4
<1>6. T = Nat
  <2>1. T \in SUBSET Nat
    OBVIOUS
  <2> HIDE DEF T
  <2> QED  BY <1>4, <1>5, <2>1, NumberInduction
<1>7. N \in T
  BY <1>6
<1> QED  BY <1>7 DEF SumTo, pf, pg, ph

\* The total of a multiple is the multiple of the total.
LEMMA SumScale ==
    ASSUME NEW N \in Nat, NEW f \in [1 .. N -> Int], NEW h \in [1 .. N -> Int],
           NEW a \in Int, \A i \in 1 .. N : h[i] = a * f[i]
    PROVE  SumTo(h, N) = a * SumTo(f, N)
<1> DEFINE pf == PartialSums(f, N)
           ph == PartialSums(h, N)
           T == {k \in Nat : k <= N => ph[k] = a * pf[k]}
<1>1. /\ pf \in [0 .. N -> Int] /\ pf[0] = 0
      /\ \A k \in 1 .. N : pf[k] = pf[k - 1] + f[k]
  BY PartialSumsDef
<1>2. /\ ph \in [0 .. N -> Int] /\ ph[0] = 0
      /\ \A k \in 1 .. N : ph[k] = ph[k - 1] + h[k]
  BY PartialSumsDef
<1> HIDE DEF pf, ph
<1>3. 0 \in T
  BY <1>1, <1>2
<1>4. ASSUME NEW k \in T PROVE k + 1 \in T
  <2> SUFFICES ASSUME k + 1 <= N PROVE ph[k + 1] = a * pf[k + 1]
    OBVIOUS
  <2>1. k + 1 \in 1 .. N /\ k \in 0 .. N /\ (k + 1) - 1 = k
    OBVIOUS
  <2>2. pf[k + 1] = pf[k] + f[k + 1] /\ ph[k + 1] = ph[k] + h[k + 1]
    BY <1>1, <1>2, <2>1
  <2>3. pf[k] \in Int /\ f[k + 1] \in Int
    BY <1>1, <2>1
  <2>4. ph[k] = a * pf[k] /\ h[k + 1] = a * f[k + 1]
    BY <2>1
  <2>5. a * pf[k] + a * f[k + 1] = a * (pf[k] + f[k + 1])
    BY <2>3
  <2> HIDE DEF T
  <2> QED  BY <2>2, <2>4, <2>5, Zenon
<1>5. T = Nat
  <2>1. T \in SUBSET Nat
    OBVIOUS
  <2> HIDE DEF T
  <2> QED  BY <1>3, <1>4, <2>1, NumberInduction
<1>6. N \in T
  BY <1>5
<1> QED  BY <1>6 DEF SumTo, pf, ph

\* A total of natural numbers is one.
LEMMA SumIsNat ==
    ASSUME NEW N \in Nat, NEW f \in [1 .. N -> Nat]
    PROVE  SumTo(f, N) \in Nat
<1> DEFINE z == [i \in 1 .. N |-> 0]
<1>1. z \in [1 .. N -> Int] /\ f \in [1 .. N -> Int]
  OBVIOUS
<1>2. \A i \in 1 .. N : z[i] = z[i] + z[i] /\ z[i] <= f[i]
  OBVIOUS
<1> HIDE DEF z
<1>3. SumTo(z, N) = SumTo(z, N) + SumTo(z, N)
  BY <1>1, <1>2, SumAdd
<1>4. SumTo(z, N) \in Int /\ SumTo(f, N) \in Int
  BY <1>1, SumIsInt
<1>5. SumTo(z, N) <= SumTo(f, N)
  BY <1>1, <1>2, SumMonotone
<1> QED  BY <1>3, <1>4, <1>5
\* A total of natural numbers is at least any one of them.
LEMMA SumPoint ==
    ASSUME NEW N \in Nat, NEW f \in [1 .. N -> Nat], NEW i \in 1 .. N
    PROVE  f[i] <= SumTo(f, N)
<1> DEFINE p == PartialSums(f, N)
           T == {k \in Nat : k <= N => p[k] \in Nat /\ (i <= k => f[i] <= p[k])}
<1>1. /\ p \in [0 .. N -> Int] /\ p[0] = 0
      /\ \A k \in 1 .. N : p[k] = p[k - 1] + f[k]
  <2>1. f \in [1 .. N -> Int]
    OBVIOUS
  <2> QED  BY <2>1, PartialSumsDef
<1> HIDE DEF p
<1>2. 0 \in T
  BY <1>1
<1>3. ASSUME NEW k \in T PROVE k + 1 \in T
  <2> SUFFICES ASSUME k + 1 <= N
               PROVE  p[k + 1] \in Nat /\ (i <= k + 1 => f[i] <= p[k + 1])
    OBVIOUS
  <2>1. k + 1 \in 1 .. N /\ (k + 1) - 1 = k
    OBVIOUS
  <2>2. p[k + 1] = p[k] + f[k + 1] /\ f[k + 1] \in Nat /\ f[i] \in Nat
    BY <1>1, <2>1
  <2>3. p[k] \in Nat /\ (i <= k => f[i] <= p[k])
    OBVIOUS
  <2> HIDE DEF T
  <2> QED
    <3>1. CASE i = k + 1
      BY <2>2, <2>3, <3>1
    <3>2. CASE i # k + 1
      <4>1. k \in Nat
        BY DEF T
      <4>2. i <= k + 1 => i <= k
        BY <3>2, <4>1
      <4> QED  BY <2>2, <2>3, <4>2
    <3> QED  BY <3>1, <3>2
<1>4. T = Nat
  <2>1. T \in SUBSET Nat
    OBVIOUS
  <2> HIDE DEF T
  <2> QED  BY <1>2, <1>3, <2>1, NumberInduction
<1>5. N \in T
  BY <1>4
<1> QED  BY <1>5 DEF SumTo, p

\* A total of differences is the difference of the ends.
LEMMA SumTelescopes ==
    ASSUME NEW N \in Nat, NEW f \in [1 .. N -> Int], NEW g \in [0 .. N -> Int],
           \A k \in 1 .. N : f[k] = g[k] - g[k - 1]
    PROVE  SumTo(f, N) = g[N] - g[0]
<1> DEFINE p == PartialSums(f, N)
           T == {k \in Nat : k <= N => p[k] = g[k] - g[0]}
<1>1. /\ p \in [0 .. N -> Int] /\ p[0] = 0
      /\ \A k \in 1 .. N : p[k] = p[k - 1] + f[k]
  BY PartialSumsDef
<1> HIDE DEF p
<1>2. 0 \in T
  BY <1>1
<1>3. ASSUME NEW k \in T PROVE k + 1 \in T
  <2> SUFFICES ASSUME k + 1 <= N PROVE p[k + 1] = g[k + 1] - g[0]
    OBVIOUS
  <2>1. k + 1 \in 1 .. N /\ k \in 0 .. N /\ (k + 1) - 1 = k
    OBVIOUS
  <2>2. p[k + 1] = p[k] + f[k + 1] /\ f[k + 1] = g[k + 1] - g[k]
    BY <1>1, <2>1
  <2>3. p[k] = g[k] - g[0]
    BY <2>1
  <2>4. g[k] \in Int /\ g[k + 1] \in Int /\ g[0] \in Int
    BY <2>1
  <2> QED  BY <2>2, <2>3, <2>4
<1>4. T = Nat
  <2>1. T \in SUBSET Nat
    OBVIOUS
  <2> HIDE DEF T
  <2> QED  BY <1>2, <1>3, <2>1, NumberInduction
<1>5. N \in T
  BY <1>4
<1> QED  BY <1>5 DEF SumTo, p

\* A total up to any of its summands is one of the partial sums.
LEMMA SumPrefix ==
    ASSUME NEW N \in Nat, NEW f \in [1 .. N -> Int], NEW n \in 0 .. N,
           NEW g \in [1 .. n -> Int], \A k \in 1 .. n : g[k] = f[k]
    PROVE  SumTo(g, n) = PartialSums(f, N)[n]
<1> DEFINE p == PartialSums(f, N)
           q == [k \in 0 .. n |-> p[k]]
<1>1. /\ p \in [0 .. N -> Int] /\ p[0] = 0
      /\ \A k \in 1 .. N : p[k] = p[k - 1] + f[k]
  BY PartialSumsDef
<1> HIDE DEF p
<1>2. q \in [0 .. n -> Int] /\ q[0] = 0 /\ q[n] = p[n]
  BY <1>1
<1>3. \A k \in 1 .. n : g[k] = q[k] - q[k - 1]
  <2> TAKE k \in 1 .. n
  <2>1. k \in 1 .. N /\ k \in 0 .. n /\ k - 1 \in 0 .. n /\ k - 1 \in 0 .. N
    OBVIOUS
  <2>2. p[k] = p[k - 1] + f[k] /\ g[k] = f[k] /\ p[k - 1] \in Int /\ f[k] \in Int
    BY <1>1, <2>1
  <2> QED  BY <2>1, <2>2
<1> HIDE DEF q
<1>4. SumTo(g, n) = q[n] - q[0]
  <2>1. n \in Nat
    OBVIOUS
  <2> QED  BY <1>2, <1>3, <2>1, SumTelescopes
<1> QED  BY <1>1, <1>2, <1>4 DEF p

\* A total with one more summand.
LEMMA SumExtend ==
    ASSUME NEW N \in Nat, NEW f \in [1 .. N + 1 -> Int], NEW g \in [1 .. N -> Int],
           \A k \in 1 .. N : g[k] = f[k]
    PROVE  SumTo(f, N + 1) = SumTo(g, N) + f[N + 1]
<1> DEFINE p == PartialSums(f, N + 1)
<1>1. /\ N + 1 \in Nat /\ N \in 0 .. N + 1 /\ N + 1 \in 1 .. N + 1 /\ (N + 1) - 1 = N
  OBVIOUS
<1>2. p[N + 1] = p[N] + f[N + 1]
  <2>1. \A k \in 1 .. N + 1 : p[k] = p[k - 1] + f[k]
    BY <1>1, PartialSumsDef
  <2> HIDE DEF p
  <2> QED  BY <1>1, <2>1
<1>3. SumTo(g, N) = p[N]
  BY <1>1, SumPrefix
<1> QED  BY <1>2, <1>3 DEF SumTo
-----------------------------------------------------------------------------
\* The equation that defines the partial picks, up to n.
Picked(g, seq, S, n) ==
    g = [k \in 0 .. n |-> IF k = 0 THEN <<>>
                          ELSE IF seq[k] \in S THEN Append(g[k - 1], seq[k])
                          ELSE g[k - 1]]

\* One more step of the loop.
PickOne(p, x, S) == IF x \in S THEN Append(p, x) ELSE p

\* The equation has a solution, which the recursive definition then is.
LEMMA PicksExist ==
    ASSUME NEW N \in Nat, NEW seq, NEW S
    PROVE  \E g : Picked(g, seq, S, N)
<1> DEFINE T == {k \in Nat : \E g : Picked(g, seq, S, k)}
<1>1. 0 \in T
  <2> DEFINE g == [k \in 0 .. 0 |-> <<>>]
  <2>1. Picked(g, seq, S, 0)
    BY DEF Picked
  <2> QED  BY <2>1
<1>2. ASSUME NEW k \in T PROVE k + 1 \in T
  <2>1. PICK g : Picked(g, seq, S, k)
    OBVIOUS
  <2> DEFINE h == [j \in 0 .. k + 1 |->
                      IF j = k + 1 THEN PickOne(g[k], seq[k + 1], S) ELSE g[j]]
  <2>2. /\ h[k + 1] = PickOne(g[k], seq[k + 1], S)
        /\ \A j \in 0 .. k : h[j] = g[j]
        /\ DOMAIN h = 0 .. k + 1
    OBVIOUS
  <2>3. \A j \in 0 .. k : g[j] = IF j = 0 THEN <<>> ELSE PickOne(g[j - 1], seq[j], S)
    BY <2>1 DEF Picked, PickOne
  <2>4. ASSUME NEW j \in 0 .. k + 1
        PROVE  h[j] = IF j = 0 THEN <<>> ELSE PickOne(h[j - 1], seq[j], S)
    <3> HIDE DEF h
    <3>1. CASE j = k + 1
      <4>1. j - 1 = k /\ k \in 0 .. k /\ j # 0
        BY <3>1
      <4> QED  BY <3>1, <4>1, <2>2
    <3>2. CASE j \in 0 .. k
      <4>1. j = 0 \/ j - 1 \in 0 .. k
        BY <3>2
      <4> QED  BY <3>2, <4>1, <2>2, <2>3
    <3> QED  BY <3>1, <3>2
  <2>5. h = [j \in 0 .. k + 1 |-> h[j]]
    OBVIOUS
  <2> HIDE DEF h
  <2>6. Picked(h, seq, S, k + 1)
    BY <2>4, <2>5 DEF Picked, PickOne
  <2> QED  BY <2>6
<1>3. T = Nat
  <2>1. T \in SUBSET Nat
    OBVIOUS
  <2> HIDE DEF T
  <2> QED  BY <1>1, <1>2, <2>1, NumberInduction
<1>4. N \in T
  BY <1>3
<1> QED  BY <1>4

\* p is what of the first n of seq is in S: at says where its elements stand.
PickedAt(p, at, seq, S, n) ==
    /\ p \in Seq(S)
    /\ at \in [1 .. Len(p) -> 1 .. n]
    /\ \A i \in 1 .. Len(p) : p[i] = seq[at[i]]
    /\ \A i, j \in 1 .. Len(p) : i < j => at[i] < at[j]
    /\ \A m \in 1 .. n : seq[m] \in S => \E i \in 1 .. Len(p) : at[i] = m

\* One more element keeps this.
LEMMA PickOneAt ==
    ASSUME NEW seq, NEW S, NEW n \in Nat, NEW p, NEW at, PickedAt(p, at, seq, S, n)
    PROVE  \E new : PickedAt(PickOne(p, seq[n + 1], S), new, seq, S, n + 1)
<1> DEFINE x == seq[n + 1]
           L == Len(p)
           q == PickOne(p, x, S)
<1>1. p \in Seq(S) /\ L \in Nat
  BY DEF PickedAt
<1>2. CASE x \in S
  <2> DEFINE new == [i \in 1 .. L + 1 |-> IF i = L + 1 THEN n + 1 ELSE at[i]]
  <2>1. /\ q = Append(p, x) /\ q \in Seq(S) /\ Len(q) = L + 1
        /\ q[L + 1] = x /\ \A i \in 1 .. L : q[i] = p[i]
    BY <1>1, <1>2 DEF PickOne
  <2>2. /\ new \in [1 .. L + 1 -> 1 .. n + 1]
        /\ new[L + 1] = n + 1 /\ \A i \in 1 .. L : new[i] = at[i] /\ at[i] \in 1 .. n
    <3>1. \A i \in 1 .. L : at[i] \in 1 .. n
      BY DEF PickedAt
    <3>2. /\ L + 1 \in 1 .. L + 1
          /\ \A i \in 1 .. L : i \in 1 .. L + 1 /\ i # L + 1
          /\ \A i \in 1 .. L + 1 : i # L + 1 => i \in 1 .. L
      BY <1>1
    <3> QED  BY <3>1, <3>2
  <2> HIDE DEF new, q
  <2>3. \A i \in 1 .. L + 1 : i = L + 1 \/ i \in 1 .. L
    BY <1>1
  <2>4. \A i \in 1 .. L + 1 : q[i] = seq[new[i]]
    BY <2>1, <2>2, <2>3 DEF PickedAt
  <2>5. \A i, j \in 1 .. L + 1 : i < j => new[i] < new[j]
    BY <1>1, <2>2, <2>3 DEF PickedAt
  <2>6. ASSUME NEW m \in 1 .. n + 1, seq[m] \in S
        PROVE  \E i \in 1 .. L + 1 : new[i] = m
    <3>1. CASE m = n + 1
      BY <3>1, <1>1, <2>2
    <3>2. CASE m \in 1 .. n
      <4>1. PICK i \in 1 .. L : at[i] = m
        BY <2>6, <3>2 DEF PickedAt
      <4> QED  BY <4>1, <1>1, <2>2
    <3> QED  BY <3>1, <3>2
  <2>7. PickedAt(q, new, seq, S, n + 1)
    BY <2>1, <2>2, <2>4, <2>5, <2>6 DEF PickedAt
  <2> QED  BY <2>7 DEF q
<1>3. CASE x \notin S
  <2>1. q = p
    BY <1>3 DEF PickOne
  <2>2. at \in [1 .. L -> 1 .. n + 1]
    BY DEF PickedAt
  <2>3. \A m \in 1 .. n + 1 : m = n + 1 \/ m \in 1 .. n
    OBVIOUS
  <2>4. PickedAt(q, at, seq, S, n + 1)
    BY <1>3, <2>1, <2>2, <2>3 DEF PickedAt
  <2> QED  BY <2>4
<1> QED  BY <1>2, <1>3

\* The picks are the elements of seq that are in S, each once and in order.
LEMMA PicksDef ==
    ASSUME NEW seq, Len(seq) \in Nat, NEW S
    PROVE  \E at : PickedAt(Picks(seq, S), at, seq, S, Len(seq))
<1> DEFINE N == Len(seq)
           g == PartialPicks(seq, S)
<1>1. \E f : Picked(f, seq, S, N)
  BY PicksExist
<1>2. Picked(g, seq, S, N)
  BY <1>1 DEF PartialPicks, Picked
<1> HIDE DEF g
<1>3. /\ g[0] = <<>>
      /\ \A n \in 1 .. N : g[n] = PickOne(g[n - 1], seq[n], S)
  <2>1. g = [k \in 0 .. N |-> IF k = 0 THEN <<>> ELSE PickOne(g[k - 1], seq[k], S)]
    BY <1>2, Zenon DEF Picked, PickOne
  <2>2. 0 \in 0 .. N /\ \A n \in 1 .. N : n \in 0 .. N /\ n # 0
    OBVIOUS
  <2> QED  BY <2>1, <2>2
<1> DEFINE T == {n \in Nat : n <= N => \E at : PickedAt(g[n], at, seq, S, n)}
<1>4. 0 \in T
  <2>1. PickedAt(<<>>, <<>>, seq, S, 0)
    BY DEF PickedAt
  <2> QED  BY <1>3, <2>1
<1>5. ASSUME NEW n \in T PROVE n + 1 \in T
  <2> SUFFICES ASSUME n + 1 <= N
               PROVE  \E at : PickedAt(g[n + 1], at, seq, S, n + 1)
    OBVIOUS
  <2>1. PICK at : PickedAt(g[n], at, seq, S, n)
    OBVIOUS
  <2>2. g[n + 1] = PickOne(g[n], seq[n + 1], S)
    <3>1. n + 1 \in 1 .. N /\ (n + 1) - 1 = n
      OBVIOUS
    <3> QED  BY <1>3, <3>1
  <2> QED  BY <2>1, <2>2, PickOneAt
<1>6. T = Nat
  <2>1. T \in SUBSET Nat
    OBVIOUS
  <2> HIDE DEF T
  <2> QED  BY <1>4, <1>5, <2>1, NumberInduction
<1>7. N \in T
  BY <1>6
<1> QED  BY <1>7 DEF Picks, g
-----------------------------------------------------------------------------
\* The positions that are sorted no later than position i.
UpTo(key, i) ==
    {j \in DOMAIN key : key[j] < key[i] \/ (key[j] = key[i] /\ j <= i)}

\* What is sorted later has the more before it.
LEMMA PlacesGrow ==
    ASSUME NEW N \in Nat, NEW key \in [1 .. N -> Int], NEW i \in 1 .. N, NEW j \in 1 .. N,
           key[i] < key[j] \/ (key[i] = key[j] /\ i < j)
    PROVE  Places(key)[i] < Places(key)[j]
<1>1. /\ Places(key)[i] = Cardinality(UpTo(key, i))
      /\ Places(key)[j] = Cardinality(UpTo(key, j))
  BY DEF Places, UpTo
<1>2. UpTo(key, i) \subseteq UpTo(key, j) /\ j \in UpTo(key, j) /\ j \notin UpTo(key, i)
  BY DEF UpTo
<1>3. IsFiniteSet(UpTo(key, j))
  <2>1. UpTo(key, j) \in SUBSET (1 .. N) /\ IsFiniteSet(1 .. N)
    BY FS_Interval DEF UpTo
  <2> QED  BY <2>1, FS_Subset
<1>4. Cardinality(UpTo(key, i)) <= Cardinality(UpTo(key, j))
      /\ Cardinality(UpTo(key, i)) # Cardinality(UpTo(key, j))
  BY <1>2, <1>3, FS_Subset
<1>5. Cardinality(UpTo(key, i)) \in Nat /\ Cardinality(UpTo(key, j)) \in Nat
  BY <1>2, <1>3, FS_Subset, FS_CardinalityType
<1> QED  BY <1>1, <1>4, <1>5

\* Every place is taken, once.
LEMMA PlacesPermute ==
    ASSUME NEW N \in Nat, NEW key \in [1 .. N -> Int]
    PROVE  /\ Places(key) \in [1 .. N -> 1 .. N]
           /\ \A k \in 1 .. N : \E i \in 1 .. N : Places(key)[i] = k
<1>1. IsFiniteSet(1 .. N) /\ Cardinality(1 .. N) = N
  BY FS_Interval
<1>2. ASSUME NEW i \in 1 .. N PROVE Places(key)[i] \in 1 .. N
  <2>1. Places(key)[i] = Cardinality(UpTo(key, i))
    BY DEF Places, UpTo
  <2>2. UpTo(key, i) \in SUBSET (1 .. N) /\ i \in UpTo(key, i)
    BY DEF UpTo
  <2>3. /\ IsFiniteSet(UpTo(key, i)) /\ Cardinality(UpTo(key, i)) \in Nat
        /\ Cardinality(UpTo(key, i)) <= N
    BY <1>1, <2>2, FS_Subset, FS_CardinalityType
  <2>4. Cardinality(UpTo(key, i)) # 0
    BY <2>2, <2>3, FS_EmptySet
  <2> QED  BY <2>1, <2>3, <2>4
<1>3. Places(key) \in [1 .. N -> 1 .. N]
  BY <1>2 DEF Places
<1>4. \A i, j \in 1 .. N : Places(key)[i] = Places(key)[j] => i = j
  <2> SUFFICES ASSUME NEW i \in 1 .. N, NEW j \in 1 .. N, i # j
               PROVE  Places(key)[i] # Places(key)[j]
    OBVIOUS
  <2>1. \/ key[i] < key[j] \/ (key[i] = key[j] /\ i < j)
        \/ key[j] < key[i] \/ (key[j] = key[i] /\ j < i)
    OBVIOUS
  <2>2. Places(key)[i] < Places(key)[j] \/ Places(key)[j] < Places(key)[i]
    BY <2>1, PlacesGrow
  <2> QED  BY <1>2, <2>2
<1>5. Places(key) \in Injection(1 .. N, 1 .. N)
  BY <1>3, <1>4 DEF Injection, IsInjective
<1>6. Places(key) \in Surjection(1 .. N, 1 .. N)
  BY <1>1, <1>5, FS_Injection
<1> QED  BY <1>3, <1>6 DEF Surjection

\* q holds the N elements of seq, in the order p, with their keys ascending.
SortedAs(q, p, seq, key, N) ==
    /\ p \in [1 .. N -> 1 .. N]
    /\ q = [k \in 1 .. N |-> seq[p[k]]]
    /\ \A i \in 1 .. N : \E k \in 1 .. N : p[k] = i
    /\ \A k, l \in 1 .. N : k <= l => key[p[k]] <= key[p[l]]

\* Sorting permutes, and puts the keys in ascending order.
LEMMA SortedDef ==
    ASSUME NEW N \in Nat, NEW seq, DOMAIN seq = 1 .. N, NEW key \in [1 .. N -> Int]
    PROVE  \E p : SortedAs(SortedBy(seq, key), p, seq, key, N)
<1> DEFINE place == Places(key)
           p == [k \in 1 .. N |-> CHOOSE i \in 1 .. N : place[i] = k]
<1>1. /\ place \in [1 .. N -> 1 .. N]
      /\ \A k \in 1 .. N : \E i \in 1 .. N : place[i] = k
  BY PlacesPermute
<1>2. \A k \in 1 .. N : p[k] \in 1 .. N /\ place[p[k]] = k
  BY <1>1
<1>3. p \in [1 .. N -> 1 .. N]
  BY <1>2
<1>4. SortedBy(seq, key) = [k \in 1 .. N |-> seq[p[k]]]
  BY DEF SortedBy
<1>5. \A k, l \in 1 .. N : k <= l => key[p[k]] <= key[p[l]]
  <2> SUFFICES ASSUME NEW k \in 1 .. N, NEW l \in 1 .. N, key[p[l]] < key[p[k]]
               PROVE  l < k
    <3>1. \A k \in 1 .. N : key[p[k]] \in Int
      BY <1>2
    <3> HIDE DEF p
    <3> QED  BY <3>1
  <2>1. place[p[l]] < place[p[k]]
    BY <1>2, PlacesGrow
  <2> QED  BY <1>2, <2>1
<1>6. \A i \in 1 .. N : \E k \in 1 .. N : p[k] = i
  <2> SUFFICES ASSUME NEW i \in 1 .. N PROVE p[place[i]] = i /\ place[i] \in 1 .. N
    OBVIOUS
  <2>1. place[i] \in 1 .. N
    BY <1>1
  <2>2. place[p[place[i]]] = place[i] /\ p[place[i]] \in 1 .. N
    BY <1>2, <2>1
  <2> DEFINE j == p[place[i]]
  <2> HIDE DEF p
  <2>3. j = i \/ place[j] < place[i] \/ place[i] < place[j]
    <3>1. \/ j = i \/ key[i] < key[j] \/ (key[i] = key[j] /\ i < j)
          \/ key[j] < key[i] \/ (key[j] = key[i] /\ j < i)
      BY <2>2
    <3> QED  BY <2>2, <3>1, PlacesGrow
  <2> QED  BY <1>1, <2>1, <2>2, <2>3
<1>7. SortedAs(SortedBy(seq, key), p, seq, key, N)
  <2> HIDE DEF p
  <2> QED  BY <1>3, <1>4, <1>5, <1>6 DEF SortedAs
<1> QED  BY <1>7

\* A set of numbers up to n that is not empty has a greatest one.
LEMMA GreatestNumber ==
    ASSUME NEW n \in Nat, NEW T \in SUBSET (0 .. n), T # {}
    PROVE  \E m \in T : \A k \in T : k <= m
<1> DEFINE U == {u \in Nat : \A k \in T : k <= u}
<1>1. n \in U
  OBVIOUS
<1>2. PICK m \in U : \A u \in U : m <= u
  <2>1. U \in SUBSET Nat /\ U # {}
    BY <1>1
  <2> HIDE DEF U
  <2> QED  BY <2>1, LeastNumber
<1>3. m \in T
  <2> SUFFICES ASSUME m \notin T PROVE FALSE
    OBVIOUS
  <2>1. m \in Nat /\ \A k \in T : k <= m /\ k # m /\ k \in Nat
    BY <1>2
  <2>2. m - 1 \in U
    <3>1. PICK k \in T : TRUE
      OBVIOUS
    <3>2. m - 1 \in Nat
      BY <2>1, <3>1
    <3> QED  BY <2>1, <3>2
  <2> QED  BY <1>2, <2>2
<1> QED  BY <1>2, <1>3

\* A set of numbers from 1 on that has no gap is an interval.
LEMMA NoGaps ==
    ASSUME NEW n \in Nat, NEW T \in SUBSET (1 .. n),
           \A m \in T : \A k \in 1 .. m : k \in T
    PROVE  Cardinality(T) \in 0 .. n /\ T = 1 .. Cardinality(T)
<1>1. CASE T = {}
  BY <1>1, FS_EmptySet
<1>2. CASE T # {}
  <2>1. PICK m \in T : \A k \in T : k <= m
    <3>1. T \in SUBSET (0 .. n)
      OBVIOUS
    <3> QED  BY <1>2, <3>1, GreatestNumber
  <2>2. T = 1 .. m
    <3>1. T \subseteq 1 .. m
      BY <2>1
    <3>2. 1 .. m \subseteq T
      BY <2>1
    <3> QED  BY <3>1, <3>2
  <2>3. Cardinality(T) = m
    BY <2>1, <2>2, FS_Interval
  <2> QED  BY <2>2, <2>3
<1> QED  BY <1>1, <1>2
-----------------------------------------------------------------------------
\* Induction on a finite set: what holds of no element, and of a set whenever
\* it holds of all that is left when one element is taken out, holds of it all.
LEMMA SetInduction ==
    ASSUME NEW S, IsFiniteSet(S), NEW P \in SUBSET (SUBSET S), {} \in P,
           \A T \in SUBSET S : T # {} /\ (\A x \in T : T \ {x} \in P) => T \in P
    PROVE  P = SUBSET S
<1> DEFINE N == {n \in Nat : \A T \in SUBSET S : Cardinality(T) = n => T \in P}
<1>1. \A T \in SUBSET S :
         /\ IsFiniteSet(T) /\ Cardinality(T) \in Nat
         /\ Cardinality(T) = 0 <=> T = {}
         /\ \A x \in T : Cardinality(T \ {x}) = Cardinality(T) - 1
  <2> TAKE T \in SUBSET S
  <2>1. IsFiniteSet(T)
    BY FS_Subset
  <2> QED  BY <2>1, FS_CardinalityType, FS_EmptySet, FS_RemoveElement
<1>2. 0 \in N
  BY <1>1
<1>3. ASSUME NEW n \in N PROVE n + 1 \in N
  <2> SUFFICES ASSUME NEW T \in SUBSET S, Cardinality(T) = n + 1 PROVE T \in P
    OBVIOUS
  <2>1. T # {}
    BY <1>1
  <2>2. \A x \in T : T \ {x} \in SUBSET S /\ Cardinality(T \ {x}) = n
    BY <1>1
  <2> QED  BY <2>1, <2>2
<1>4. N = Nat
  <2>1. N \in SUBSET Nat
    OBVIOUS
  <2> HIDE DEF N
  <2> QED  BY <1>2, <1>3, <2>1, NumberInduction
<1>5. ASSUME NEW T \in SUBSET S PROVE T \in P
  <2>1. Cardinality(T) \in N
    BY <1>1, <1>4
  <2> QED  BY <2>1
<1> QED  BY <1>5

\* The element that a loop over a set takes next.
Taken(T) == CHOOSE x \in T : TRUE

\* The equation that defines the sums over the subsets of S.
SetSummed(g, f, S) ==
    g = [T \in SUBSET S |->
            IF T = {} THEN 0 ELSE f[Taken(T)] + g[T \ {Taken(T)}]]

\* For every subset of the domain of f, the sum of what f has there.
SetSums(f) == CHOOSE g : SetSummed(g, f, DOMAIN f)

\* The community modules' total is one of them.
LEMMA TotalIsSetSum ==
    ASSUME NEW f
    PROVE  SumFunction(f) = SetSums(f)[DOMAIN f]
BY DEF SumFunction, SumFunctionOnSet, FoldFunctionOnSet, MapThenFoldSet, SetSums,
       SetSummed, Taken

LEMMA SetSumsExist ==
    ASSUME NEW S, IsFiniteSet(S), NEW f \in [S -> Int]
    PROVE  \E g \in [SUBSET S -> Int] : SetSummed(g, f, S)
<1> DEFINE UpToSize(n) == {T \in SUBSET S : Cardinality(T) <= n}
           Right(g, n) ==
               \A T \in UpToSize(n) :
                   g[T] = IF T = {} THEN 0 ELSE f[Taken(T)] + g[T \ {Taken(T)}]
           N == {n \in Nat : \E g \in [UpToSize(n) -> Int] : Right(g, n)}
<1>1. \A T \in SUBSET S : IsFiniteSet(T) /\ Cardinality(T) \in Nat
  BY FS_Subset, FS_CardinalityType
<1>2. \A T \in SUBSET S : Cardinality(T) = 0 <=> T = {}
  BY <1>1, FS_EmptySet
<1>3. \A T \in SUBSET S : T # {} =>
         /\ Taken(T) \in T
         /\ T \ {Taken(T)} \in SUBSET S
         /\ Cardinality(T \ {Taken(T)}) = Cardinality(T) - 1
  BY <1>1, FS_RemoveElement DEF Taken
<1>4. 0 \in N
  <2> DEFINE g == [T \in UpToSize(0) |-> 0]
  <2>1. \A T \in UpToSize(0) : T = {}
    BY <1>1, <1>2
  <2>2. g \in [UpToSize(0) -> Int] /\ Right(g, 0)
    BY <2>1
  <2> QED  BY <2>2
<1>5. ASSUME NEW n \in N PROVE n + 1 \in N
  <2>1. PICK g \in [UpToSize(n) -> Int] : Right(g, n)
    OBVIOUS
  <2> DEFINE h == [T \in UpToSize(n + 1) |->
                      IF T = {} THEN 0 ELSE f[Taken(T)] + g[T \ {Taken(T)}]]
  <2>2. \A T \in UpToSize(n + 1) : T # {} => T \ {Taken(T)} \in UpToSize(n)
    BY <1>1, <1>3
  <2>3. h \in [UpToSize(n + 1) -> Int]
    <3>1. \A T \in UpToSize(n + 1) : T # {} =>
             f[Taken(T)] \in Int /\ g[T \ {Taken(T)}] \in Int
      BY <1>3, <2>2
    <3> QED  BY <3>1
  <2>4. \A T \in UpToSize(n) : T \in UpToSize(n + 1) /\ h[T] = g[T]
    <3>1. \A T \in UpToSize(n) : T \in UpToSize(n + 1)
      BY <1>1
    <3>2. \A T \in UpToSize(n) :
             g[T] = IF T = {} THEN 0 ELSE f[Taken(T)] + g[T \ {Taken(T)}]
      BY <2>1
    <3> QED  BY <3>1, <3>2
  <2>5. Right(h, n + 1)
    <3> SUFFICES ASSUME NEW T \in UpToSize(n + 1)
                 PROVE  h[T] = IF T = {} THEN 0 ELSE f[Taken(T)] + h[T \ {Taken(T)}]
      OBVIOUS
    <3>1. CASE T = {}
      BY <3>1
    <3>2. CASE T # {}
      <4>1. h[T] = f[Taken(T)] + g[T \ {Taken(T)}]
        BY <3>2
      <4>2. h[T \ {Taken(T)}] = g[T \ {Taken(T)}]
        BY <2>2, <2>4, <3>2
      <4> HIDE DEF h
      <4> QED  BY <3>2, <4>1, <4>2
    <3> QED  BY <3>1, <3>2
  <2> HIDE DEF h
  <2>6. n + 1 \in Nat
    OBVIOUS
  <2> QED  BY <2>3, <2>5, <2>6
<1>6. Cardinality(S) \in N
  <2>1. N \in SUBSET Nat
    OBVIOUS
  <2>2. N = Nat
    <3> HIDE DEF N
    <3> QED  BY <1>4, <1>5, <2>1, NumberInduction
  <2> QED  BY <1>1, <2>2
<1>7. UpToSize(Cardinality(S)) = SUBSET S
  <2>1. \A T \in SUBSET S : Cardinality(T) <= Cardinality(S)
    BY FS_Subset
  <2> QED  BY <2>1
<1>8. PICK g \in [SUBSET S -> Int] : \A T \in SUBSET S :
         g[T] = IF T = {} THEN 0 ELSE f[Taken(T)] + g[T \ {Taken(T)}]
  BY <1>6, <1>7
<1>9. SetSummed(g, f, S)
  BY <1>8 DEF SetSummed
<1> QED  BY <1>9

\* F sums f, whatever order the loop takes.
SumsOf(F, f, S) ==
    /\ F \in [SUBSET S -> Int]
    /\ F[{}] = 0
    /\ \A T \in SUBSET S : \A x \in S \ T : F[T \cup {x}] = F[T] + f[x]

LEMMA SetSumsDef ==
    ASSUME NEW S, IsFiniteSet(S), NEW f \in [S -> Int]
    PROVE  SumsOf(SetSums(f), f, S)
<1> DEFINE g == SetSums(f)
<1>1. SetSummed(g, f, S)
  BY SetSumsExist DEF SetSums
<1>2. /\ g = [T \in SUBSET S |-> g[T]]
      /\ \A T \in SUBSET S :
            g[T] = IF T = {} THEN 0 ELSE f[Taken(T)] + g[T \ {Taken(T)}]
      /\ g[{}] = 0
  <2> HIDE DEF g
  <2>1. /\ g = [T \in SUBSET S |-> g[T]]
        /\ \A T \in SUBSET S :
              g[T] = IF T = {} THEN 0 ELSE f[Taken(T)] + g[T \ {Taken(T)}]
    BY <1>1 DEF SetSummed
  <2>2. {} \in SUBSET S
    OBVIOUS
  <2>3. g[{}] = IF {} = {} THEN 0 ELSE f[Taken({})] + g[{} \ {Taken({})}]
    BY <2>1, <2>2
  <2> QED  BY <2>1, <2>3
<1> HIDE DEF g
<1>3. \A T \in SUBSET S : T # {} => Taken(T) \in T /\ T \ {Taken(T)} \in SUBSET S
  BY DEF Taken
<1>4. \A T \in SUBSET S : g[T] \in Int
  <2> DEFINE P == {T \in SUBSET S : g[T] \in Int}
  <2>1. {} \in P
    BY <1>2
  <2>2. ASSUME NEW T \in SUBSET S, T # {}, \A x \in T : T \ {x} \in P
        PROVE  T \in P
    <3>1. Taken(T) \in T /\ g[T] = f[Taken(T)] + g[T \ {Taken(T)}]
      BY <1>2, <1>3, <2>2
    <3>2. f[Taken(T)] \in Int /\ g[T \ {Taken(T)}] \in Int
      BY <2>2, <3>1
    <3> QED  BY <3>1, <3>2
  <2>3. P \in SUBSET (SUBSET S)
    OBVIOUS
  <2> HIDE DEF P
  <2>4. P = SUBSET S
    BY <2>1, <2>2, <2>3, SetInduction
  <2> QED  BY <2>4 DEF P
<1>5. \A T \in SUBSET S : \A x \in T : g[T] = g[T \ {x}] + f[x]
  <2> DEFINE P == {T \in SUBSET S : \A x \in T : g[T] = g[T \ {x}] + f[x]}
  <2>1. {} \in P
    OBVIOUS
  <2>2. ASSUME NEW T \in SUBSET S, T # {}, \A x \in T : T \ {x} \in P
        PROVE  T \in P
    <3> SUFFICES ASSUME NEW x \in T PROVE g[T] = g[T \ {x}] + f[x]
      OBVIOUS
    <3> DEFINE c == Taken(T)
               U == (T \ {x}) \ {c}
    <3>1. c \in T /\ g[T] = f[c] + g[T \ {c}]
      BY <1>2, <1>3, <2>2
    <3>2. CASE x = c
      <4>1. f[c] \in Int /\ g[T \ {c}] \in Int
        BY <1>3, <1>4, <3>1
      <4> QED  BY <3>1, <3>2, <4>1
    <3>3. CASE x # c
      <4>1. T \ {c} \in P /\ T \ {x} \in P
        BY <2>2, <3>1
      <4>2. g[T \ {c}] = g[(T \ {c}) \ {x}] + f[x] /\ (T \ {c}) \ {x} = U
        BY <3>1, <3>3, <4>1
      <4>3. g[T \ {x}] = g[U] + f[c]
        BY <3>1, <3>3, <4>1
      <4>4. f[c] \in Int /\ f[x] \in Int /\ g[U] \in Int
        BY <1>4, <3>1
      <4>5. f[c] + (g[U] + f[x]) = (g[U] + f[c]) + f[x]
        <5> HIDE DEF c, U
        <5> QED  BY <4>4
      <4> HIDE DEF c, U
      <4> QED  BY <3>1, <4>2, <4>3, <4>5
    <3> QED  BY <3>2, <3>3
  <2>3. P \in SUBSET (SUBSET S)
    OBVIOUS
  <2> HIDE DEF P
  <2>4. P = SUBSET S
    BY <2>1, <2>2, <2>3, SetInduction
  <2> QED  BY <2>4 DEF P
<1>6. ASSUME NEW T \in SUBSET S, NEW x \in S \ T
      PROVE  g[T \cup {x}] = g[T] + f[x]
  <2>1. T \cup {x} \in SUBSET S /\ x \in T \cup {x} /\ (T \cup {x}) \ {x} = T
    OBVIOUS
  <2> QED  BY <1>5, <2>1
<1> QED  BY <1>2, <1>4, <1>6 DEF g, SumsOf

\* A total over nothing, and over one thing.
LEMMA SumOfFew ==
    ASSUME NEW S, IsFiniteSet(S), NEW f \in [S -> Int]
    PROVE  /\ SumFunction(f) \in Int
           /\ S = {} => SumFunction(f) = 0
           /\ \A x : S = {x} => SumFunction(f) = f[x]
<1> DEFINE F == SetSums(f)
<1>1. SumsOf(F, f, S)
  BY SetSumsDef
<1>2. SumFunction(f) = F[S]
  BY TotalIsSetSum
<1> HIDE DEF F
<1>3. SumFunction(f) \in Int /\ (S = {} => SumFunction(f) = 0)
  BY <1>1, <1>2 DEF SumsOf
<1>4. ASSUME NEW x, S = {x} PROVE SumFunction(f) = f[x]
  <2>1. {} \in SUBSET S /\ x \in S \ {} /\ {} \cup {x} = S /\ f[x] \in Int
    BY <1>4
  <2>2. F[{} \cup {x}] = F[{}] + f[x] /\ F[{}] = 0
    BY <1>1, <2>1 DEF SumsOf
  <2>3. F[S] = 0 + f[x]
    BY <2>1, <2>2
  <2> QED  BY <1>2, <2>1, <2>3
<1> QED  BY <1>3, <1>4

\* A total when one of its summands changes.
LEMMA SumChange ==
    ASSUME NEW S, IsFiniteSet(S), NEW f \in [S -> Int], NEW g \in [S -> Int],
           NEW x \in S, \A y \in S \ {x} : g[y] = f[y]
    PROVE  SumFunction(g) = SumFunction(f) + (g[x] - f[x])
<1> DEFINE F == SetSums(f)
           G == SetSums(g)
<1>1. SumsOf(F, f, S)
  BY SetSumsDef
<1>2. SumsOf(G, g, S)
  BY SetSumsDef
<1> HIDE DEF F, G
<1> DEFINE P == {T \in SUBSET S :
                    G[T] = IF x \in T THEN F[T] + (g[x] - f[x]) ELSE F[T]}
<1>3. {} \in P
  BY <1>1, <1>2 DEF SumsOf
<1>4. ASSUME NEW T \in SUBSET S, T # {}, \A y \in T : T \ {y} \in P
      PROVE  T \in P
  <2>1. PICK y \in T : x \in T => y = x
    BY <1>4
  <2> DEFINE U == T \ {y}
  <2>2. /\ U \in P /\ U \in SUBSET S /\ y \in S \ U /\ U \cup {y} = T
        /\ x \notin U /\ (x \in T <=> y = x)
    BY <1>4, <2>1
  <2> HIDE DEF U
  <2>3. F[T] = F[U] + f[y] /\ G[T] = G[U] + g[y]
    BY <1>1, <1>2, <2>2 DEF SumsOf
  <2>4. G[U] = F[U]
    BY <2>2
  <2>5. F[U] \in Int /\ f[y] \in Int /\ g[y] \in Int /\ f[x] \in Int /\ g[x] \in Int
    BY <1>1, <2>2 DEF SumsOf
  <2>6. CASE y = x
    <3>1. F[U] + g[x] = (F[U] + f[x]) + (g[x] - f[x])
      BY <2>5
    <3> QED  BY <2>2, <2>3, <2>4, <2>6, <3>1
  <2>7. CASE y # x
    BY <2>2, <2>3, <2>4, <2>7
  <2> QED  BY <2>6, <2>7
<1>5. P \in SUBSET (SUBSET S)
  OBVIOUS
<1>6. S \in P
  <2> HIDE DEF P
  <2>1. P = SUBSET S
    BY <1>3, <1>4, <1>5, SetInduction
  <2> QED  BY <2>1
<1>7. G[S] = F[S] + (g[x] - f[x])
  BY <1>6
<1> QED  BY <1>7, TotalIsSetSum DEF F, G

\* Where f is nowhere more than g and a margin, and adds nothing elsewhere, its
\* total is not more than that of g and as many margins.
LEMMA SumBound ==
    ASSUME NEW S, IsFiniteSet(S), NEW f \in [S -> Int],
           NEW D \in SUBSET S, NEW g \in [D -> Int], NEW m \in Int,
           \A x \in D : f[x] <= g[x] + m, \A x \in S \ D : f[x] <= 0
    PROVE  SumFunction(f) <= SumFunction(g) + Cardinality(D) * m
<1> DEFINE F == SetSums(f)
           G == SetSums(g)
<1>1. SumsOf(F, f, S)
  BY SetSumsDef
<1>2. IsFiniteSet(D)
  BY FS_Subset
<1>3. SumsOf(G, g, D)
  BY <1>2, SetSumsDef
<1> HIDE DEF F, G
<1> DEFINE P == {T \in SUBSET S : F[T] <= G[T \cap D] + Cardinality(T \cap D) * m}
<1>4. {} \in P
  <2>1. {} \cap D = {} /\ Cardinality({}) = 0 /\ 0 * m = 0
    BY FS_EmptySet
  <2> QED  BY <1>1, <1>3, <2>1 DEF SumsOf
<1>5. ASSUME NEW T \in SUBSET S, T # {}, \A y \in T : T \ {y} \in P
      PROVE  T \in P
  <2>1. PICK y \in T : TRUE
    BY <1>5
  <2> DEFINE U == T \ {y}
             V == U \cap D
             n == Cardinality(V)
  <2>2. U \in P /\ U \in SUBSET S /\ y \in S \ U /\ U \cup {y} = T
    BY <1>5, <2>1
  <2>3. F[U] <= G[V] + n * m
    BY <2>2
  <2>4. V \in SUBSET D /\ IsFiniteSet(V) /\ n \in Nat
    BY <1>2, FS_Subset, FS_CardinalityType
  <2>5. F[T] = F[U] + f[y] /\ F[U] \in Int /\ f[y] \in Int /\ G[V] \in Int
    <3> HIDE DEF U, V
    <3>1. F[U \cup {y}] = F[U] + f[y]
      BY <1>1, <2>2 DEF SumsOf
    <3> QED  BY <1>1, <1>3, <2>2, <2>4, <3>1 DEF SumsOf
  <2>6. CASE y \in D
    <3>1. T \cap D = V \cup {y} /\ y \in D \ V
      BY <2>2, <2>6
    <3>2. G[T \cap D] = G[V] + g[y] /\ g[y] \in Int /\ f[y] <= g[y] + m
      BY <1>3, <2>4, <2>6, <3>1 DEF SumsOf
    <3>3. Cardinality(T \cap D) = n + 1
      BY <2>4, <3>1, FS_AddElement
    <3> HIDE DEF n, V, U
    <3>4. (n + 1) * m = n * m + m /\ n * m \in Int
      BY <2>4
    <3>5. F[U] + f[y] <= (G[V] + g[y]) + (n * m + m)
      BY <2>3, <2>5, <3>2, <3>4
    <3>6. F[T] <= G[T \cap D] + Cardinality(T \cap D) * m
      BY <2>5, <3>2, <3>3, <3>4, <3>5
    <3> QED  BY <3>6
  <2>7. CASE y \notin D
    <3>1. T \cap D = V /\ f[y] <= 0
      BY <2>2, <2>7
    <3> HIDE DEF n, V, U
    <3>2. n * m \in Int
      BY <2>4
    <3>3. F[T] <= G[V] + n * m
      BY <2>3, <2>5, <3>1, <3>2
    <3>4. Cardinality(T \cap D) = n
      BY <3>1 DEF n
    <3> QED  BY <3>1, <3>3, <3>4
  <2> QED  BY <2>6, <2>7
<1>6. P \in SUBSET (SUBSET S)
  OBVIOUS
<1>7. S \in P
  <2> HIDE DEF P
  <2>1. P = SUBSET S
    BY <1>4, <1>5, <1>6, SetInduction
  <2> QED  BY <2>1
<1>8. F[S] <= G[D] + Cardinality(D) * m
  <2>1. S \cap D = D
    OBVIOUS
  <2> QED  BY <1>7, <2>1
<1> QED  BY <1>8, TotalIsSetSum DEF F, G

\* What the elements of a sequence are is a finite set.
LEMMA RangeIsFinite ==
    ASSUME NEW S, NEW seq \in Seq(S)
    PROVE  IsFiniteSet({seq[i] : i \in DOMAIN seq})
<1> DEFINE T == {seq[i] : i \in 1 .. Len(seq)}
<1>1. Len(seq) \in Nat /\ DOMAIN seq = 1 .. Len(seq)
  OBVIOUS
<1>2. [i \in 1 .. Len(seq) |-> seq[i]] \in Surjection(1 .. Len(seq), T)
  BY DEF Surjection
<1>3. IsFiniteSet(1 .. Len(seq))
  BY <1>1, FS_Interval
<1> HIDE DEF T
<1>4. IsFiniteSet(T)
  BY <1>2, <1>3, FS_Surjection
<1> QED  BY <1>1, <1>4 DEF T

\* A total is linear.
LEMMA SumScaled ==
    ASSUME NEW S, IsFiniteSet(S), NEW f \in [S -> Int], NEW k \in Int
    PROVE  SumFunction([x \in S |-> k * f[x]]) = k * SumFunction(f)
<1> DEFINE g == [x \in S |-> k * f[x]]
           F == SetSums(f)
           G == SetSums(g)
<1>1. g \in [S -> Int] /\ \A x \in S : g[x] = k * f[x]
  OBVIOUS
<1> HIDE DEF g
<1>2. SumsOf(F, f, S)
  BY SetSumsDef
<1>3. SumsOf(G, g, S)
  BY <1>1, SetSumsDef
<1> HIDE DEF F, G
<1> DEFINE P == {T \in SUBSET S : G[T] = k * F[T]}
<1>4. {} \in P
  BY <1>2, <1>3 DEF SumsOf
<1>5. ASSUME NEW T \in SUBSET S, T # {}, \A y \in T : T \ {y} \in P
      PROVE  T \in P
  <2>1. PICK y \in T : TRUE
    BY <1>5
  <2> DEFINE U == T \ {y}
  <2>2. U \in P /\ U \in SUBSET S /\ y \in S \ U /\ U \cup {y} = T
    BY <1>5, <2>1
  <2> HIDE DEF U
  <2>3. F[T] = F[U] + f[y] /\ G[T] = G[U] + g[y] /\ F[U] \in Int /\ f[y] \in Int
    BY <1>2, <1>3, <2>2 DEF SumsOf
  <2>4. k * (F[U] + f[y]) = k * F[U] + k * f[y]
    BY <2>3
  <2> QED  BY <1>1, <2>2, <2>3, <2>4
<1>6. P \in SUBSET (SUBSET S)
  OBVIOUS
<1>7. S \in P
  <2> HIDE DEF P
  <2>1. P = SUBSET S
    BY <1>4, <1>5, <1>6, SetInduction
  <2> QED  BY <2>1
<1>8. G[S] = k * F[S]
  BY <1>7
<1>9. SumFunction(g) = k * SumFunction(f)
  BY <1>1, <1>8, TotalIsSetSum DEF F, G
<1> QED  BY <1>9 DEF g

\* A total whose summands are bounded by different ones of another, none of
\* which is negative, is bounded by that.
LEMMA SumInto ==
    ASSUME NEW S, IsFiniteSet(S), NEW f \in [S -> Int],
           NEW T, IsFiniteSet(T), NEW g \in [T -> Nat],
           NEW h \in [S -> T], \A x, y \in S : h[x] = h[y] => x = y,
           \A x \in S : f[x] <= g[h[x]]
    PROVE  SumFunction(f) <= SumFunction(g)
<1> DEFINE F == SetSums(f)
           G == SetSums(g)
           Image(U) == {h[x] : x \in U}
<1>1. SumsOf(F, f, S)
  BY SetSumsDef
<1>2. SumsOf(G, g, T)
  BY SetSumsDef
<1> HIDE DEF F, G
<1> DEFINE P == {U \in SUBSET S : F[U] <= G[Image(U)]}
<1>3. {} \in P
  <2>1. Image({}) = {} /\ F[{}] = 0 /\ G[{}] = 0
    BY <1>1, <1>2 DEF SumsOf
  <2> QED  BY <2>1
<1>4. ASSUME NEW U \in SUBSET S, U # {}, \A y \in U : U \ {y} \in P
      PROVE  U \in P
  <2>1. PICK y \in U : TRUE
    BY <1>4
  <2> DEFINE V == U \ {y}
             W == Image(V)
  <2>2. /\ V \in P /\ V \in SUBSET S /\ y \in S \ V /\ V \cup {y} = U
        /\ W \in SUBSET T /\ h[y] \in T \ W /\ Image(U) = W \cup {h[y]}
    BY <1>4, <2>1
  <2>3. F[V] <= G[W]
    BY <2>2
  <2> HIDE DEF V, W, Image
  <2>4. F[U] = F[V] + f[y] /\ F[V] \in Int /\ f[y] \in Int
    BY <1>1, <2>2 DEF SumsOf
  <2>5. G[Image(U)] = G[W] + g[h[y]] /\ G[W] \in Int /\ g[h[y]] \in Int
    BY <1>2, <2>2 DEF SumsOf
  <2>6. F[U] <= G[Image(U)]
    <3>1. f[y] <= g[h[y]]
      BY <2>2
    <3> QED  BY <2>3, <2>4, <2>5, <3>1
  <2> QED  BY <2>6
<1>5. F[S] <= G[Image(S)]
  <2>1. P \in SUBSET (SUBSET S)
    OBVIOUS
  <2>2. P = SUBSET S
    <3> HIDE DEF P
    <3> QED  BY <1>3, <1>4, <2>1, SetInduction
  <2>3. S \in P
    BY <2>2
  <2> QED  BY <2>3
<1> DEFINE I == Image(S)
           Q == {U \in SUBSET T : G[U \cap I] <= G[U]}
<1>6. I \in SUBSET T
  OBVIOUS
<1> HIDE DEF I
<1>7. {} \in Q
  <2>1. {} \cap I = {} /\ G[{}] \in Int
    BY <1>2 DEF SumsOf
  <2> QED  BY <2>1
<1>8. ASSUME NEW U \in SUBSET T, U # {}, \A y \in U : U \ {y} \in Q
      PROVE  U \in Q
  <2>1. PICK y \in U : TRUE
    BY <1>8
  <2> DEFINE V == U \ {y}
  <2>2. V \in Q /\ V \in SUBSET T /\ y \in T \ V /\ V \cup {y} = U
    BY <1>8, <2>1
  <2>3. G[V \cap I] <= G[V]
    BY <2>2
  <2>4. /\ V \cap I \in SUBSET T /\ y \in T \ (V \cap I)
        /\ U \cap I \in {V \cap I, (V \cap I) \cup {y}}
    BY <2>2
  <2> HIDE DEF V
  <2>5. /\ G[U] = G[V] + g[y] /\ G[V] \in Int /\ g[y] \in Nat /\ G[V \cap I] \in Int
        /\ G[(V \cap I) \cup {y}] = G[V \cap I] + g[y]
    BY <1>2, <2>2, <2>4 DEF SumsOf
  <2>6. G[U \cap I] <= G[U]
    BY <2>3, <2>4, <2>5
  <2> QED  BY <2>6
<1>9. G[I] <= G[T]
  <2>1. Q \in SUBSET (SUBSET T)
    OBVIOUS
  <2>2. Q = SUBSET T
    <3> HIDE DEF Q
    <3> QED  BY <1>7, <1>8, <2>1, SetInduction
  <2>3. T \in Q /\ T \cap I = I
    BY <1>6, <2>2
  <2> QED  BY <2>3
<1>10. F[S] \in Int /\ G[I] \in Int /\ G[T] \in Int
  BY <1>1, <1>2, <1>6 DEF SumsOf
<1>11. F[S] <= G[T]
  BY <1>5, <1>9, <1>10 DEF I
<1> QED  BY <1>11, TotalIsSetSum DEF F, G
-----------------------------------------------------------------------------
\* f lists the n elements of S, each once.
Enumerates(f, n, S) ==
    /\ n \in Nat /\ f \in [1 .. n -> S]
    /\ \A k, l \in 1 .. n : f[k] = f[l] => k = l
    /\ \A x \in S : \E k \in 1 .. n : f[k] = x

\* A set has one number of elements.
LEMMA EnumeratedOnce ==
    ASSUME NEW S, NEW m, NEW n, NEW f, NEW g, Enumerates(f, m, S), Enumerates(g, n, S)
    PROVE  m = n
<1>1. /\ f \in Bijection(1 .. m, S) /\ g \in Bijection(1 .. n, S)
      /\ m \in Nat /\ n \in Nat
  BY DEF Enumerates, Bijection, Injection, Surjection, IsInjective
<1>2. IsFiniteSet(1 .. m) /\ Cardinality(1 .. m) = m /\ Cardinality(1 .. n) = n
      /\ IsFiniteSet(1 .. n)
  BY <1>1, FS_Interval
<1>3. Cardinality(S) = m /\ Cardinality(S) = n
  BY <1>1, <1>2, FS_Bijection DEF ExistsBijection
<1> QED  BY <1>3

\* Of two ways to list a set by ascending keys neither is ahead of the other:
\* else the elements up to some place would all be listed before it.
LEMMA NeitherAhead ==
    ASSUME NEW S, NEW n, NEW f, NEW g, Enumerates(f, n, S), Enumerates(g, n, S),
           NEW key \in [S -> Int],
           \A k, l \in 1 .. n : k <= l => key[f[k]] <= key[f[l]],
           \A k, l \in 1 .. n : k <= l => key[g[k]] <= key[g[l]],
           NEW k \in 1 .. n
    PROVE  key[f[k]] <= key[g[k]]
<1> SUFFICES ASSUME key[g[k]] < key[f[k]] PROVE FALSE
  BY DEF Enumerates
<1> DEFINE h == [l \in 1 .. k |-> CHOOSE j \in 1 .. n : f[j] = g[l]]
<1>1. n \in Nat /\ k \in Nat /\ k - 1 \in Nat
  BY DEF Enumerates
<1>2. \A l \in 1 .. k : l \in 1 .. n /\ g[l] \in S
  BY <1>1 DEF Enumerates
<1>3. \A l \in 1 .. k : h[l] \in 1 .. n /\ f[h[l]] = g[l]
  BY <1>2 DEF Enumerates
<1>4. \A l \in 1 .. k : h[l] \in 1 .. k - 1
  <2> SUFFICES ASSUME NEW l \in 1 .. k PROVE h[l] < k
    BY <1>1, <1>3
  <2>1. key[g[l]] <= key[g[k]] /\ h[l] \in 1 .. n /\ f[h[l]] = g[l]
    BY <1>1, <1>2, <1>3
  <2>2. key[g[l]] \in Int /\ key[g[k]] \in Int /\ key[f[k]] \in Int
    BY <1>2 DEF Enumerates
  <2> HIDE DEF h
  <2>3. k <= h[l] => key[f[k]] <= key[f[h[l]]]
    BY <2>1
  <2> QED  BY <1>1, <2>1, <2>2, <2>3
<1>5. h \in [1 .. k -> 1 .. k - 1]
  BY <1>4
<1>6. PICK a \in 1 .. k, b \in 1 .. k : a # b /\ h[a] = h[b]
  <2>1. /\ IsFiniteSet(1 .. k) /\ IsFiniteSet(1 .. k - 1)
        /\ Cardinality(1 .. k) = k /\ Cardinality(1 .. k - 1) = k - 1
    <3>1. IsFiniteSet(1 .. k) /\ Cardinality(1 .. k) = k
      BY <1>1, FS_Interval
    <3> DEFINE j == k - 1
    <3>2. j \in Nat
      BY <1>1
    <3> HIDE DEF j
    <3>3. IsFiniteSet(1 .. j) /\ Cardinality(1 .. j) = j
      <4>1. Cardinality(1 .. j) = IF 1 > j THEN 0 ELSE j - 1 + 1
        BY <3>2, FS_Interval
      <4> QED  BY <3>2, <4>1, FS_Interval
    <3> QED  BY <3>1, <3>3 DEF j
  <2> HIDE DEF h
  <2>2. Cardinality(1 .. k - 1) < Cardinality(1 .. k)
    BY <1>1, <2>1
  <2> QED  BY <1>5, <2>1, <2>2, FS_PigeonHole
<1> HIDE DEF h
<1>7. g[a] = g[b]
  BY <1>3, <1>6
<1> QED  BY <1>2, <1>6, <1>7 DEF Enumerates

\* The picks of the numbers from 1 to n are a list of those in the set.
LEMMA NumbersPicked ==
    ASSUME NEW n \in Nat, NEW S \in SUBSET (1 .. n), NEW id, id = [k \in 1 .. n |-> k]
    PROVE  /\ Picks(id, S) \in Seq(S)
           /\ Enumerates(Picks(id, S), Len(Picks(id, S)), S)
<1> DEFINE p == Picks(id, S)
<1>1. Len(id) = n
  OBVIOUS
<1>2. PICK at : PickedAt(p, at, id, S, n)
  BY <1>1, PicksDef
<1> HIDE DEF p
<1>3. /\ p \in Seq(S) /\ Len(p) \in Nat
      /\ \A i \in 1 .. Len(p) : p[i] \in S /\ p[i] = at[i] /\ at[i] \in 1 .. n
  <2>1. p \in Seq(S) /\ Len(p) \in Nat /\ at \in [1 .. Len(p) -> 1 .. n]
    BY <1>2 DEF PickedAt
  <2>2. \A i \in 1 .. Len(p) : p[i] = id[at[i]]
    BY <1>2 DEF PickedAt
  <2>3. \A i \in 1 .. Len(p) : at[i] \in 1 .. n /\ p[i] \in S
    BY <2>1
  <2>4. \A k \in 1 .. n : id[k] = k
    OBVIOUS
  <2> QED  BY <2>1, <2>2, <2>3, <2>4, Zenon
<1>4. p \in [1 .. Len(p) -> S]
  BY <1>3
<1>5. \A i, j \in 1 .. Len(p) : p[i] = p[j] => i = j
  <2> SUFFICES ASSUME NEW i \in 1 .. Len(p), NEW j \in 1 .. Len(p), i < j
               PROVE  p[i] # p[j]
    BY <1>3
  <2>1. at[i] < at[j]
    BY <1>2 DEF PickedAt
  <2> QED  BY <1>3, <2>1
<1>6. \A x \in S : \E i \in 1 .. Len(p) : p[i] = x
  BY <1>2, <1>3 DEF PickedAt
<1> QED  BY <1>3, <1>4, <1>5, <1>6 DEF Enumerates, p
=============================================================================
