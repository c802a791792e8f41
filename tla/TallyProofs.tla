---------------------------- MODULE TallyProofs ----------------------------
(***************************************************************************)
(* What the recursive functions of the models compute, for every input.    *)
(* The provers have no induction over an operator, so induction is stated  *)
(* over a SET of numbers (SetInduction), which they can instantiate; a     *)
(* recursive function is shown to exist as the union of its finite         *)
(* approximations (Walk, Recursion).  On these rest the facts about SumOf, *)
(* KeepAt and FlattenSeq that the components' proofs cite.                 *)
(***************************************************************************)
EXTENDS Tally, SequencesExt, NaturalsInduction, WellFoundedInduction, TLAPS

-----------------------------------------------------------------------------
(* Induction and recursion over the naturals, with sets in place of           *)
(* predicates                                                                  *)

LEMMA LeastExists == ASSUME NEW S \in SUBSET Nat, S # {} PROVE \E x \in S : \A y \in S : x <= y
<1>1. \E x \in S : \A y \in S : ~ (<<y, x>> \in OpToRel(<, Nat)) BY NatLessThanWellFounded, WFMin
<1>2. PICK x \in S : \A y \in S : ~ (<<y, x>> \in OpToRel(<, Nat)) BY <1>1
<1>3. \A y \in S : <<y, x>> \in OpToRel(<, Nat) <=> y < x BY DEF OpToRel
<1>4. \A y \in S : ~ (y < x) BY <1>2, <1>3, Zenon
<1> QED BY <1>4

LEMMA GreatestExists ==
  ASSUME NEW S \in SUBSET Nat, S # {}, NEW b \in Nat, \A x \in S : x <= b
  PROVE  \E x \in S : \A y \in S : y <= x
<1> DEFINE R == {b - x : x \in S}
<1>1. R \in SUBSET Nat /\ R # {}
  <2>1. ASSUME NEW x \in S PROVE b - x \in Nat
    <3>1. x \in Nat /\ x <= b OBVIOUS
    <3> QED BY <3>1
  <2> QED BY <2>1
<1>2. PICK r \in R : \A y \in R : r <= y BY <1>1, LeastExists
<1>3. PICK x \in S : r = b - x OBVIOUS
<1>4. \A y \in S : b - x <= b - y BY <1>2, <1>3
<1>5. ASSUME NEW y \in S PROVE y <= x
  <2>1. x \in Nat /\ y \in Nat /\ b - x <= b - y BY <1>4
  <2> QED BY <2>1
<1> QED BY <1>5

LEMMA ChooseLeast ==
  ASSUME NEW S \in SUBSET Nat, S # {}, NEW m, m = CHOOSE i \in S : \A j \in S : i <= j
  PROVE  m \in S /\ \A j \in S : m <= j
BY LeastExists, Zenon

LEMMA ChooseGreatest ==
  ASSUME NEW S \in SUBSET Nat, S # {}, NEW b \in Nat, \A x \in S : x <= b,
         NEW m, m = CHOOSE i \in S : \A j \in S : j <= i
  PROVE  m \in S /\ \A j \in S : j <= m
BY GreatestExists, Zenon

LEMMA SetInduction ==
  ASSUME NEW S, 0 \in S, \A n \in Nat : n \in S => n + 1 \in S
  PROVE  \A n \in Nat : n \in S
<1> DEFINE R == Nat \ S
<1>1. SUFFICES ASSUME R # {} PROVE FALSE OBVIOUS
<1>2. R \in SUBSET Nat OBVIOUS
<1>3. PICK m \in R : \A y \in R : m <= y BY <1>1, <1>2, LeastExists
<1>4. m \in Nat /\ m # 0 OBVIOUS
<1>5. m - 1 \in Nat /\ ~ (m <= m - 1) /\ (m - 1) + 1 = m BY <1>4
<1>6. m - 1 \in S BY <1>3, <1>5
<1> QED BY <1>5, <1>6

\* A function of n steps of h from a, and one of all of them.
Walk(a, h, V, n, f) ==
  f \in [0..n -> V] /\ f[0] = a /\ \A i \in 0..(n - 1) : f[i + 1] = h[<<i, f[i]>>]

LEMMA WalkAgree ==
  ASSUME NEW V, NEW a \in V, NEW h \in [Nat \X V -> V], NEW n \in Nat, NEW m \in Nat, n <= m,
         NEW f, NEW g, Walk(a, h, V, n, f), Walk(a, h, V, m, g)
  PROVE  \A i \in 0..n : f[i] = g[i]
<1> DEFINE S == {i \in Nat : i <= n => f[i] = g[i]}
<1>1. 0 \in S BY DEF Walk
<1>2. ASSUME NEW i \in Nat, i \in S PROVE i + 1 \in S
  <2>1. CASE i + 1 <= n
    <3>1. i \in 0..(n - 1) /\ i \in 0..(m - 1) /\ f[i] = g[i] BY <1>2, <2>1
    <3>2. f[i + 1] = h[<<i, f[i]>>] /\ g[i + 1] = h[<<i, g[i]>>] BY <3>1 DEF Walk
    <3> QED BY <3>1, <3>2
  <2>2. CASE ~ (i + 1 <= n) BY <2>2
  <2> QED BY <2>1, <2>2
<1> HIDE DEF S
<1>3. \A i \in Nat : i \in S BY <1>1, <1>2, SetInduction
<1> QED BY <1>3 DEF S

LEMMA WalkExists ==
  ASSUME NEW V, NEW a \in V, NEW h \in [Nat \X V -> V]
  PROVE  \A n \in Nat : \E f : Walk(a, h, V, n, f)
<1> DEFINE S == {n \in Nat : \E f : Walk(a, h, V, n, f)}
<1>1. 0 \in S
  <2> DEFINE f == [i \in 0..0 |-> a]
  <2>1. Walk(a, h, V, 0, f) BY DEF Walk
  <2> QED BY <2>1
<1>2. ASSUME NEW n \in Nat, n \in S PROVE n + 1 \in S
  <2>1. PICK f : Walk(a, h, V, n, f) BY <1>2
  <2> DEFINE g == [i \in 0..(n + 1) |-> IF i = n + 1 THEN h[<<n, f[n]>>] ELSE f[i]]
  <2>2. f[n] \in V /\ h[<<n, f[n]>>] \in V BY <2>1 DEF Walk
  <2>3. g \in [0..(n + 1) -> V]
    <3>1. \A i \in 0..(n + 1) : i # n + 1 => i \in 0..n OBVIOUS
    <3> QED BY <2>1, <2>2, <3>1 DEF Walk
  <2>4. g[0] = a BY <2>1 DEF Walk
  <2>5. ASSUME NEW i \in 0..((n + 1) - 1) PROVE g[i + 1] = h[<<i, g[i]>>]
    <3>1. CASE i = n
      <4>1. n \in 0..(n + 1) /\ n + 1 \in 0..(n + 1) /\ n # n + 1 OBVIOUS
      <4>2. g[n + 1] = h[<<n, f[n]>>] /\ g[n] = f[n] BY <4>1
      <4> HIDE DEF g
      <4> QED BY <3>1, <4>2
    <3>2. CASE i # n
      <4>1. i \in 0..(n - 1) /\ i + 1 \in 0..n /\ i + 1 # n + 1 /\ i # n + 1 BY <3>2
      <4> QED BY <2>1, <4>1 DEF Walk
    <3> QED BY <3>1, <3>2
  <2> HIDE DEF g
  <2>6. Walk(a, h, V, n + 1, g) BY <2>3, <2>4, <2>5 DEF Walk
  <2> QED BY <2>6
<1> HIDE DEF S
<1>3. \A n \in Nat : n \in S BY <1>1, <1>2, SetInduction
<1> QED BY <1>3 DEF S

Recurses(a, h, V, F) == F \in [Nat -> V] /\ F[0] = a /\ \A n \in Nat : F[n + 1] = h[<<n, F[n]>>]

LEMMA Recursion ==
  ASSUME NEW V, NEW a \in V, NEW h \in [Nat \X V -> V]
  PROVE  \E F : Recurses(a, h, V, F)
<1> DEFINE W(n) == CHOOSE f : Walk(a, h, V, n, f)
           F == [n \in Nat |-> W(n)[n]]
<1>1. \A n \in Nat : Walk(a, h, V, n, W(n)) BY WalkExists
<1> HIDE DEF W
<1>2. F \in [Nat -> V]
  <2>1. ASSUME NEW n \in Nat PROVE W(n)[n] \in V BY <1>1 DEF Walk
  <2> QED BY <2>1
<1>3. F[0] = a BY <1>1 DEF Walk
<1>4. ASSUME NEW n \in Nat PROVE F[n + 1] = h[<<n, F[n]>>]
  <2>1. Walk(a, h, V, n, W(n)) /\ Walk(a, h, V, n + 1, W(n + 1)) BY <1>1
  <2>2. n \in 0..n /\ n \in 0..((n + 1) - 1) /\ n <= n + 1 /\ n + 1 \in Nat OBVIOUS
  <2>3. W(n)[n] = W(n + 1)[n] BY <2>1, <2>2, WalkAgree
  <2>4. W(n + 1)[n + 1] = h[<<n, W(n + 1)[n]>>] BY <2>1, <2>2 DEF Walk
  <2> QED BY <2>3, <2>4
<1> HIDE DEF F
<1>5. Recurses(a, h, V, F) BY <1>2, <1>3, <1>4 DEF Recurses
<1> QED BY <1>5
-----------------------------------------------------------------------------
(* Sums                                                                        *)

\* f holds the sums of the first numbers of s.
Sums(s, f) == f \in [0..Len(s) -> Int] /\ f[0] = 0 /\ \A n \in 1..Len(s) : f[n] = f[n - 1] + s[n]

LEMMA SumsExist ==
  ASSUME NEW s \in Seq(Int)
  PROVE  \E f : Sums(s, f) /\ f[Len(s)] = SumOf(s)
<1> DEFINE L == Len(s)
           h == [p \in Nat \X Int |-> p[2] + (IF p[1] + 1 \in 1..L THEN s[p[1] + 1] ELSE 0)]
           G == CHOOSE g : g = [n \in 0..L |-> IF n = 0 THEN 0 ELSE g[n - 1] + s[n]]
<1>1. L \in Nat /\ \A i \in 1..L : s[i] \in Int OBVIOUS
<1> HIDE DEF L
<1>2. h \in [Nat \X Int -> Int]
  <2>1. ASSUME NEW p \in Nat \X Int PROVE p[2] + (IF p[1] + 1 \in 1..L THEN s[p[1] + 1] ELSE 0) \in Int
    <3>1. p[2] \in Int OBVIOUS
    <3>2. CASE p[1] + 1 \in 1..L
      <4>1. s[p[1] + 1] \in Int BY <1>1, <3>2
      <4> QED BY <3>1, <3>2, <4>1
    <3>3. CASE p[1] + 1 \notin 1..L BY <3>1, <3>3
    <3> QED BY <3>2, <3>3
  <2> QED BY <2>1
<1>3. \A n \in 0..(L - 1), v \in Int : h[<<n, v>>] = v + s[n + 1]
  <2> SUFFICES ASSUME NEW n \in 0..(L - 1), NEW v \in Int PROVE h[<<n, v>>] = v + s[n + 1] OBVIOUS
  <2>1. <<n, v>> \in Nat \X Int /\ n + 1 \in 1..L BY <1>1
  <2> QED BY <2>1
<1> HIDE DEF h
<1>a. PICK F : Recurses(0, h, Int, F)
  <2>1. 0 \in Int OBVIOUS
  <2> QED BY <1>2, <2>1, Recursion, Zenon
<1>4. F \in [Nat -> Int] /\ F[0] = 0 /\ \A n \in Nat : F[n + 1] = h[<<n, F[n]>>] BY <1>a DEF Recurses
<1> DEFINE f == [n \in 0..L |-> F[n]]
<1>5. ASSUME NEW n \in 1..L PROVE f[n] = f[n - 1] + s[n]
  <2>1. n - 1 \in Nat /\ n - 1 \in 0..(L - 1) /\ n - 1 \in 0..L /\ n \in 0..L /\ (n - 1) + 1 = n BY <1>1
  <2>a. F[n - 1] \in Int BY <1>4, <2>1
  <2>2. F[(n - 1) + 1] = h[<<n - 1, F[n - 1]>>] BY <1>4, <2>1
  <2>3. h[<<n - 1, F[n - 1]>>] = F[n - 1] + s[(n - 1) + 1] BY <1>3, <2>1, <2>a
  <2> QED BY <2>1, <2>2, <2>3
<1>6. f \in [0..L -> Int] /\ f[0] = 0 BY <1>1, <1>4
<1>7. f = [n \in 0..L |-> IF n = 0 THEN 0 ELSE f[n - 1] + s[n]]
  <2> HIDE DEF f
  <2>1. DOMAIN f = 0..L BY <1>6
  <2>2. ASSUME NEW n \in 0..L PROVE f[n] = IF n = 0 THEN 0 ELSE f[n - 1] + s[n]
    <3>1. n = 0 \/ n \in 1..L BY <1>1
    <3> QED BY <1>5, <1>6, <3>1
  <2> QED BY <1>6, <2>2
<1> HIDE DEF f
<1>8. G = [n \in 0..L |-> IF n = 0 THEN 0 ELSE G[n - 1] + s[n]] BY <1>7, Zenon
<1>9. SumOf(s) = G[L] BY Zenon DEF SumOf, L
<1> HIDE DEF G
<1>10. Sums(s, f) BY <1>5, <1>6 DEF Sums, L
<1>11. \A n \in 0..L : G[n] = f[n]
  <2> DEFINE S == {n \in Nat : n <= L => G[n] = f[n]}
  <2>1. 0 \in S
    <3>1. 0 \in 0..L BY <1>1
    <3>2. G[0] = 0 BY <1>8, <3>1
    <3> QED BY <1>6, <3>2
  <2>2. ASSUME NEW n \in Nat, n \in S PROVE n + 1 \in S
    <3>1. CASE n + 1 <= L
      <4>1. n + 1 \in 0..L /\ n + 1 # 0 /\ (n + 1) - 1 = n /\ n + 1 \in 1..L /\ n <= L BY <1>1, <3>1
      <4>2. G[n + 1] = G[(n + 1) - 1] + s[n + 1] BY <1>8, <4>1
      <4>3. f[n + 1] = f[(n + 1) - 1] + s[n + 1] BY <1>5, <4>1
      <4>4. G[n] = f[n] BY <2>2, <4>1
      <4> QED BY <4>1, <4>2, <4>3, <4>4
    <3>2. CASE ~ (n + 1 <= L) BY <3>2
    <3> QED BY <3>1, <3>2
  <2> HIDE DEF S
  <2>3. \A n \in Nat : n \in S BY <2>1, <2>2, SetInduction
  <2> QED BY <1>1, <2>3 DEF S
<1>12. f[Len(s)] = SumOf(s)
  <2>1. L \in 0..L BY <1>1
  <2> QED BY <1>9, <1>11, <2>1 DEF L
<1> QED BY <1>10, <1>12

\* There is one such function, so that the sum can be computed by any of them.
LEMMA SumIs ==
  ASSUME NEW s \in Seq(Int), NEW f, Sums(s, f)
  PROVE  SumOf(s) = f[Len(s)] /\ SumOf(s) \in Int
<1>1. PICK g : Sums(s, g) /\ g[Len(s)] = SumOf(s) BY SumsExist
<1> DEFINE L == Len(s)
           S == {n \in Nat : n <= L => g[n] = f[n]}
<1>2. L \in Nat OBVIOUS
<1>3. 0 \in S BY <1>1 DEF Sums
<1>4. ASSUME NEW n \in Nat, n \in S PROVE n + 1 \in S
  <2>1. CASE n + 1 <= L
    <3>1. (n + 1) - 1 = n /\ n + 1 \in 1..L /\ n <= L BY <1>2, <2>1
    <3>2. g[n + 1] = g[(n + 1) - 1] + s[n + 1] /\ f[n + 1] = f[(n + 1) - 1] + s[n + 1] BY <1>1, <3>1 DEF Sums
    <3>3. g[n] = f[n] BY <1>4, <3>1
    <3> QED BY <3>1, <3>2, <3>3
  <2>2. CASE ~ (n + 1 <= L) BY <2>2
  <2> QED BY <2>1, <2>2
<1> HIDE DEF S
<1>5. \A n \in Nat : n \in S BY <1>3, <1>4, SetInduction
<1>6. L \in S /\ L <= L BY <1>2, <1>5
<1>7. g[L] = f[L] BY <1>6 DEF S
<1>8. f[L] \in Int
  <2>1. L \in 0..L BY <1>2
  <2> QED BY <2>1 DEF Sums
<1> QED BY <1>1, <1>7, <1>8

LEMMA SumEmpty == SumOf(<<>>) = 0
<1> DEFINE s == <<>>
           f == [n \in 0..0 |-> 0]
<1>1. s \in Seq(Int) /\ Len(s) = 0 OBVIOUS
<1>2. f \in [0..0 -> Int] /\ f[0] = 0 OBVIOUS
<1> HIDE DEF s, f
<1>3. Sums(s, f) BY <1>1, <1>2 DEF Sums
<1>4. SumOf(s) = f[Len(s)] BY <1>1, <1>3, SumIs
<1> QED BY <1>1, <1>2, <1>4 DEF s

LEMMA SumType == ASSUME NEW s \in Seq(Int) PROVE SumOf(s) \in Int
BY SumsExist, SumIs

LEMMA SumAppend ==
  ASSUME NEW s \in Seq(Int), NEW e \in Int, NEW t, t = Append(s, e)
  PROVE  SumOf(t) = SumOf(s) + e
<1>1. PICK f : Sums(s, f) /\ f[Len(s)] = SumOf(s) BY SumsExist
<1> DEFINE L == Len(s)
           g == [n \in 0..(L + 1) |-> IF n = L + 1 THEN f[L] + e ELSE f[n]]
<1>2. L \in Nat /\ t \in Seq(Int) /\ Len(t) = L + 1 /\ t[L + 1] = e /\ \A n \in 1..L : t[n] = s[n] OBVIOUS
<1> HIDE DEF L
<1>3. f \in [0..L -> Int] /\ f[0] = 0 /\ \A n \in 1..L : f[n] = f[n - 1] + s[n] BY <1>1 DEF Sums, L
<1>4. \A n \in 0..L : n \in 0..(L + 1) /\ n # L + 1 BY <1>2
<1>5. L + 1 \in 0..(L + 1) /\ 0 \in 0..L /\ L \in 0..L BY <1>2
<1>6. \A n \in 0..L : g[n] = f[n] BY <1>4
<1>7. g[L + 1] = f[L] + e BY <1>5
<1>8. g \in [0..(L + 1) -> Int]
  <2>1. \A n \in 0..(L + 1) : n = L + 1 \/ n \in 0..L BY <1>2
  <2>2. f[L] + e \in Int BY <1>3, <1>5
  <2> QED BY <1>3, <2>1, <2>2
<1> HIDE DEF g
<1>9. ASSUME NEW n \in 1..(L + 1) PROVE g[n] = g[n - 1] + t[n]
  <2>1. CASE n = L + 1
    <3>1. n - 1 = L BY <1>2, <2>1
    <3> QED BY <1>2, <1>5, <1>6, <1>7, <2>1, <3>1
  <2>2. CASE n # L + 1
    <3>1. n \in 1..L /\ n \in 0..L /\ n - 1 \in 0..L BY <1>2, <2>2
    <3> QED BY <1>2, <1>3, <1>6, <3>1
  <2> QED BY <2>1, <2>2
<1>10. Sums(t, g) BY <1>2, <1>3, <1>5, <1>6, <1>8, <1>9 DEF Sums
<1>11. SumOf(t) = g[L + 1] BY <1>2, <1>10, SumIs
<1> QED BY <1>1, <1>7, <1>11 DEF L

\* The sum of a leading part, and of all but a leading part.
LEMMA SumPrefix ==
  ASSUME NEW s \in Seq(Int), NEW f, Sums(s, f), NEW k \in 0..Len(s), NEW t, t = SubSeq(s, 1, k)
  PROVE  SumOf(t) = f[k]
<1> DEFINE g == [n \in 0..k |-> f[n]]
<1>1. Len(s) \in Nat /\ k \in Nat /\ k <= Len(s) /\ t \in Seq(Int) /\ Len(t) = k /\ \A n \in 1..k : t[n] = s[n] OBVIOUS
<1>2. \A n \in 0..k : n \in 0..Len(s) BY <1>1
<1>3. g \in [0..k -> Int] BY <1>2 DEF Sums
<1>4. 0 \in 0..k /\ k \in 0..k BY <1>1
<1>5. g[0] = 0 BY <1>4 DEF Sums
<1>6. ASSUME NEW n \in 1..k PROVE g[n] = g[n - 1] + t[n]
  <2>1. n \in 1..Len(s) /\ n \in 0..k /\ n - 1 \in 0..k BY <1>1
  <2>2. f[n] = f[n - 1] + s[n] BY <2>1 DEF Sums
  <2> QED BY <1>1, <2>1, <2>2
<1>7. g[k] = f[k] BY <1>4
<1> HIDE DEF g
<1>8. Sums(t, g) BY <1>1, <1>3, <1>5, <1>6 DEF Sums
<1> QED BY <1>1, <1>7, <1>8, SumIs

\* The sum does not depend on the order of reading.
LEMMA SumReverse ==
  ASSUME NEW s \in Seq(Int), NEW t \in Seq(Int), Len(t) = Len(s),
         \A n \in 1..Len(s) : t[n] = s[Len(s) - n + 1]
  PROVE  SumOf(t) = SumOf(s)
<1>1. PICK f : Sums(s, f) /\ f[Len(s)] = SumOf(s) BY SumsExist
<1> DEFINE L == Len(s)
           g == [n \in 0..L |-> f[L] - f[L - n]]
<1>2. L \in Nat OBVIOUS
<1>3. Len(t) = L /\ \A n \in 1..L : t[n] = s[L - n + 1] OBVIOUS
<1>4. f \in [0..L -> Int] /\ f[0] = 0 /\ \A n \in 1..L : f[n] = f[n - 1] + s[n] BY <1>1 DEF Sums
<1>5. \A n \in 1..L : s[n] \in Int OBVIOUS
<1> HIDE DEF L
<1>6. \A n \in 0..L : L - n \in 0..L /\ f[L - n] \in Int BY <1>2, <1>4
<1>7. f[L] \in Int /\ L \in 0..L /\ 0 \in 0..L /\ L - 0 = L /\ L - L = 0 BY <1>2, <1>4
<1>8. g \in [0..L -> Int]
  <2>1. ASSUME NEW n \in 0..L PROVE f[L] - f[L - n] \in Int
    <3>1. f[L - n] \in Int BY <1>6
    <3> QED BY <1>7, <3>1
  <2> QED BY <2>1
<1>9. g[0] = 0 BY <1>7
<1>10. g[L] = f[L] BY <1>4, <1>7
<1>11. ASSUME NEW n \in 1..L PROVE g[n] = g[n - 1] + t[n]
  <2> DEFINE m == L - n + 1
  <2>1. m \in 1..L /\ m - 1 = L - n /\ m = L - (n - 1) /\ n \in 0..L /\ n - 1 \in 0..L BY <1>2
  <2>2. g[n] = f[L] - f[L - n] /\ g[n - 1] = f[L] - f[L - (n - 1)] /\ t[n] = s[m] BY <1>3, <2>1
  <2> HIDE DEF m
  <2>3. f[m] = f[m - 1] + s[m] /\ s[m] \in Int BY <1>4, <1>5, <2>1
  <2>4. f[m - 1] \in Int BY <1>6, <2>1
  <2>5. g[n] = f[L] - f[m - 1] /\ g[n - 1] = f[L] - f[m] BY <2>1, <2>2
  <2>6. f[L] - f[m - 1] = (f[L] - f[m]) + s[m] BY <1>7, <2>3, <2>4, SMTT(30)
  <2> QED BY <2>2, <2>5, <2>6
<1> HIDE DEF g
<1>12. Sums(t, g) BY <1>3, <1>8, <1>9, <1>11 DEF Sums
<1>13. SumOf(t) = g[L] BY <1>3, <1>12, SumIs
<1> QED BY <1>1, <1>10, <1>13 DEF L

\* Sums of naturals only grow.
LEMMA SumsGrow ==
  ASSUME NEW s \in Seq(Nat), NEW f, Sums(s, f), NEW i \in 0..Len(s), NEW j \in 0..Len(s), i <= j
  PROVE  f[i] <= f[j] /\ f[i] \in Nat /\ f[j] \in Nat
<1> DEFINE L == Len(s)
           S == {n \in Nat : \A k \in 0..n : n <= L => f[k] <= f[n] /\ f[n] \in Nat}
<1>1. L \in Nat /\ \A n \in 1..L : s[n] \in Nat OBVIOUS
<1>2. f \in [0..L -> Int] /\ f[0] = 0 /\ \A n \in 1..L : f[n] = f[n - 1] + s[n] BY DEF Sums
<1> HIDE DEF L
<1>3. 0 \in S
  <2>1. \A k \in 0..0 : k = 0 OBVIOUS
  <2> QED BY <1>2, <2>1
<1>4. ASSUME NEW n \in Nat, n \in S PROVE n + 1 \in S
  <2> SUFFICES ASSUME NEW k \in 0..(n + 1), n + 1 <= L PROVE f[k] <= f[n + 1] /\ f[n + 1] \in Nat OBVIOUS
  <2>1. n + 1 \in 1..L /\ (n + 1) - 1 = n /\ n <= L /\ n \in 0..n BY <1>1
  <2>2. f[n + 1] = f[n] + s[n + 1] /\ s[n + 1] \in Nat BY <1>1, <1>2, <2>1
  <2>3. f[n] \in Nat BY <1>4, <2>1
  <2>4. f[n + 1] \in Nat /\ f[n] <= f[n + 1] BY <2>2, <2>3
  <2>5. CASE k = n + 1 BY <2>4, <2>5
  <2>6. CASE k # n + 1
    <3>1. k \in 0..n /\ k \in 0..L BY <1>1, <2>6
    <3>2. f[k] <= f[n] /\ f[k] \in Int BY <1>2, <1>4, <2>1, <3>1
    <3> QED BY <2>3, <2>4, <3>2
  <2> QED BY <2>5, <2>6
<1> HIDE DEF S
<1>5. \A n \in Nat : n \in S BY <1>3, <1>4, SetInduction
<1>6. i \in Nat /\ j \in Nat /\ i \in 0..j /\ i \in 0..i /\ i <= L /\ j <= L BY <1>1 DEF L
<1>7. i \in S /\ j \in S BY <1>5, <1>6
<1> QED BY <1>6, <1>7 DEF S

-----------------------------------------------------------------------------
(* Filtering                                                                   *)

\* g names the positions among the first n of s that t keeps, in their order:
\* those of K.
KeptUpTo(s, K, n, t, g) ==
  /\ g \in [1..Len(t) -> 1..n]
  /\ \A i, j \in 1..Len(t) : i < j => g[i] < g[j]
  /\ \A i \in 1..Len(t) : t[i] = s[g[i]] /\ g[i] \in K
  /\ \A k \in 1..n : k \in K => \E i \in 1..Len(t) : g[i] = k

Kept(s, K, t, g) == KeptUpTo(s, K, Len(s), t, g)

LEMMA KeepStep ==
  ASSUME NEW T, NEW s \in Seq(T), NEW K, NEW n \in Nat, n + 1 <= Len(s),
         NEW t \in Seq(T), NEW g, KeptUpTo(s, K, n, t, g),
         NEW u, u = IF n + 1 \in K THEN Append(t, s[n + 1]) ELSE t
  PROVE  u \in Seq(T) /\ \E h : KeptUpTo(s, K, n + 1, u, h)
<1> DEFINE L == Len(t)
<1>0. Len(t) \in Nat /\ s[n + 1] \in T OBVIOUS
<1>1. CASE n + 1 \notin K
  <2>1. u = t BY <1>1
  <2>2. \A x \in 1..n : x \in 1..(n + 1) OBVIOUS
  <2>3. g \in [1..Len(u) -> 1..(n + 1)] BY <2>1, <2>2 DEF KeptUpTo
  <2>4. ASSUME NEW k \in 1..(n + 1), k \in K PROVE \E i \in 1..Len(u) : g[i] = k
    <3>1. k \in 1..n BY <1>1, <2>4
    <3> QED BY <2>1, <2>4, <3>1 DEF KeptUpTo
  <2>5. KeptUpTo(s, K, n + 1, u, g) BY <2>1, <2>3, <2>4 DEF KeptUpTo
  <2> QED BY <2>1, <2>5
<1>2. CASE n + 1 \in K
  <2> DEFINE h == [i \in 1..(L + 1) |-> IF i = L + 1 THEN n + 1 ELSE g[i]]
  <2>1. u \in Seq(T) /\ Len(u) = L + 1 /\ u[L + 1] = s[n + 1] /\ \A i \in 1..L : u[i] = t[i] BY <1>0, <1>2
  <2>2. L \in Nat BY <1>0
  <2>3. /\ g \in [1..L -> 1..n] /\ \A i, j \in 1..L : i < j => g[i] < g[j]
        /\ \A i \in 1..L : t[i] = s[g[i]] /\ g[i] \in K
        /\ \A k \in 1..n : k \in K => \E i \in 1..L : g[i] = k
    BY DEF KeptUpTo
  <2> HIDE DEF L
  <2>4. \A i \in 1..(L + 1) : i = L + 1 \/ i \in 1..L BY <2>2
  <2>5. \A i \in 1..L : i \in 1..(L + 1) /\ i # L + 1 /\ i < L + 1 BY <2>2
  <2>6. L + 1 \in 1..(L + 1) /\ n + 1 \in 1..(n + 1) BY <2>2
  <2>7. h[L + 1] = n + 1 /\ \A i \in 1..L : h[i] = g[i] BY <2>5, <2>6
  <2>8. \A x \in 1..n : x \in 1..(n + 1) /\ x < n + 1 OBVIOUS
  <2>9. \A i \in 1..L : g[i] \in 1..n BY <2>3
  <2>10. h \in [1..(L + 1) -> 1..(n + 1)] BY <2>4, <2>6, <2>8, <2>9
  <2> HIDE DEF h
  <2>11. ASSUME NEW i \in 1..(L + 1), NEW j \in 1..(L + 1), i < j PROVE h[i] < h[j]
    <3>1. i \in 1..L BY <2>2, <2>11
    <3>2. CASE j = L + 1 BY <2>7, <2>8, <2>9, <3>1, <3>2
    <3>3. CASE j # L + 1 
      <4>1. j \in 1..L BY <2>4, <3>3
      <4> QED BY <2>3, <2>7, <2>11, <3>1, <4>1
    <3> QED BY <3>2, <3>3
  <2>12. ASSUME NEW i \in 1..(L + 1) PROVE u[i] = s[h[i]] /\ h[i] \in K
    <3>1. CASE i = L + 1 BY <1>2, <2>1, <2>7, <3>1
    <3>2. CASE i # L + 1
      <4>1. i \in 1..L BY <2>4, <3>2
      <4> QED BY <2>1, <2>3, <2>7, <4>1
    <3> QED BY <3>1, <3>2
  <2>13. ASSUME NEW k \in 1..(n + 1), k \in K PROVE \E i \in 1..(L + 1) : h[i] = k
    <3>1. CASE k = n + 1 BY <2>6, <2>7, <3>1
    <3>2. CASE k # n + 1
      <4>1. k \in 1..n BY <3>2
      <4>2. PICK i \in 1..L : g[i] = k BY <2>3, <2>13, <4>1
      <4> QED BY <2>5, <2>7, <4>2
    <3> QED BY <3>1, <3>2
  <2>14. KeptUpTo(s, K, n + 1, u, h) BY <2>1, <2>10, <2>11, <2>12, <2>13 DEF KeptUpTo
  <2> QED BY <2>1, <2>14
<1> QED BY <1>1, <1>2

LEMMA KeepFacts ==
  ASSUME NEW T, NEW s \in Seq(T), NEW K, NEW t, t = KeepAt(s, K)
  PROVE  t \in Seq(T) /\ \E g : Kept(s, K, t, g)
<1> DEFINE L == Len(s)
           Keep(n, v) == IF n \in K THEN Append(v, s[n]) ELSE v
           h == [p \in Nat \X Seq(T) |-> IF p[1] + 1 \in 1..L THEN Keep(p[1] + 1, p[2]) ELSE p[2]]
           G == CHOOSE f : f = [n \in 0..L |-> IF n = 0 THEN <<>> ELSE IF n \in K THEN Append(f[n - 1], s[n]) ELSE f[n - 1]]
<1>1. L \in Nat /\ \A i \in 1..L : s[i] \in T OBVIOUS
<1>2. KeepAt(s, K) = G[L] BY Zenon DEF KeepAt
<1> HIDE DEF L
<1>3. h \in [Nat \X Seq(T) -> Seq(T)]
  <2>1. ASSUME NEW p \in Nat \X Seq(T)
        PROVE  (IF p[1] + 1 \in 1..L THEN Keep(p[1] + 1, p[2]) ELSE p[2]) \in Seq(T)
    <3>1. p[2] \in Seq(T) OBVIOUS
    <3>2. CASE p[1] + 1 \in 1..L
      <4>1. s[p[1] + 1] \in T BY <1>1, <3>2
      <4>2. Append(p[2], s[p[1] + 1]) \in Seq(T) BY <3>1, <4>1
      <4> QED BY <3>1, <3>2, <4>2
    <3>3. CASE p[1] + 1 \notin 1..L BY <3>1, <3>3
    <3> QED BY <3>2, <3>3
  <2> HIDE DEF Keep
  <2> QED BY <2>1
<1>4. \A n \in 0..(L - 1), v \in Seq(T) : h[<<n, v>>] = Keep(n + 1, v)
  <2> SUFFICES ASSUME NEW n \in 0..(L - 1), NEW v \in Seq(T) PROVE h[<<n, v>>] = Keep(n + 1, v) OBVIOUS
  <2>1. <<n, v>> \in Nat \X Seq(T) /\ n + 1 \in 1..L /\ <<n, v>>[1] = n /\ <<n, v>>[2] = v BY <1>1
  <2> HIDE DEF Keep
  <2> QED BY <2>1
<1> HIDE DEF h
<1>5. PICK F : Recurses(<<>>, h, Seq(T), F)
  <2>1. <<>> \in Seq(T) OBVIOUS
  <2> QED BY <1>3, <2>1, Recursion, Zenon
<1>6. F \in [Nat -> Seq(T)] /\ F[0] = <<>> /\ \A n \in Nat : F[n + 1] = h[<<n, F[n]>>] BY <1>5 DEF Recurses
<1> DEFINE f == [n \in 0..L |-> F[n]]
<1>7. f \in [0..L -> Seq(T)] /\ f[0] = <<>>
  <2>1. 0 \in 0..L /\ \A n \in 0..L : n \in Nat BY <1>1
  <2> QED BY <1>6, <2>1
<1>8. ASSUME NEW n \in 1..L PROVE f[n] = Keep(n, f[n - 1])
  <2>1. n - 1 \in Nat /\ n - 1 \in 0..(L - 1) /\ n - 1 \in 0..L /\ n \in 0..L /\ (n - 1) + 1 = n BY <1>1
  <2>2. F[n - 1] \in Seq(T) BY <1>6, <2>1
  <2> HIDE DEF Keep
  <2>3. F[(n - 1) + 1] = h[<<n - 1, F[n - 1]>>] BY <1>6, <2>1
  <2>4. h[<<n - 1, F[n - 1]>>] = Keep((n - 1) + 1, F[n - 1]) BY <1>4, <2>1, <2>2
  <2>5. f[n] = F[n] /\ f[n - 1] = F[n - 1] BY <2>1
  <2> QED BY <2>1, <2>3, <2>4, <2>5
<1> HIDE DEF f
<1>9. f = [n \in 0..L |-> IF n = 0 THEN <<>> ELSE IF n \in K THEN Append(f[n - 1], s[n]) ELSE f[n - 1]]
  <2>1. ASSUME NEW n \in 0..L PROVE f[n] = IF n = 0 THEN <<>> ELSE IF n \in K THEN Append(f[n - 1], s[n]) ELSE f[n - 1]
    <3>1. n = 0 \/ (n # 0 /\ n \in 1..L) BY <1>1
    <3> QED BY <1>7, <1>8, <3>1, Zenon
  <2> QED BY <1>7, <2>1
<1>10. G = [n \in 0..L |-> IF n = 0 THEN <<>> ELSE IF n \in K THEN Append(G[n - 1], s[n]) ELSE G[n - 1]] BY <1>9, Zenon
<1> HIDE DEF G
<1> DEFINE S == {n \in Nat : n <= L => G[n] \in Seq(T) /\ \E g : KeptUpTo(s, K, n, G[n], g)}
<1>11. 0 \in S
  <2>1. 0 \in 0..L BY <1>1
  <2>2. G[0] = <<>> BY <1>10, <2>1
  <2> DEFINE g == [i \in 1..0 |-> 1]
  <2>3. KeptUpTo(s, K, 0, <<>>, g)
    <3>1. Len(<<>>) = 0 /\ \A i \in 1..0 : FALSE OBVIOUS
    <3>2. g \in [1..0 -> 1..0] BY <3>1
    <3> QED BY <3>1, <3>2 DEF KeptUpTo
  <2>4. <<>> \in Seq(T) OBVIOUS
  <2> QED BY <2>2, <2>3, <2>4
<1>12. ASSUME NEW n \in Nat, n \in S PROVE n + 1 \in S
  <2> SUFFICES ASSUME n + 1 <= L PROVE G[n + 1] \in Seq(T) /\ \E g : KeptUpTo(s, K, n + 1, G[n + 1], g) OBVIOUS
  <2>1. n + 1 \in 0..L /\ n + 1 # 0 /\ (n + 1) - 1 = n /\ n <= L BY <1>1
  <2>2. G[n + 1] = IF n + 1 \in K THEN Append(G[(n + 1) - 1], s[n + 1]) ELSE G[(n + 1) - 1] BY <1>10, <2>1
  <2>3. G[n + 1] = IF n + 1 \in K THEN Append(G[n], s[n + 1]) ELSE G[n] BY <2>1, <2>2
  <2>4. G[n] \in Seq(T) BY <1>12, <2>1
  <2>5. PICK g : KeptUpTo(s, K, n, G[n], g) BY <1>12, <2>1
  <2>6. n + 1 <= Len(s) BY DEF L
  <2> QED BY <2>3, <2>4, <2>5, <2>6, KeepStep
<1> HIDE DEF S
<1>13. \A n \in Nat : n \in S BY <1>11, <1>12, SetInduction
<1>14. L \in S /\ L <= L BY <1>1, <1>13
<1>15. G[L] \in Seq(T) /\ \E g : KeptUpTo(s, K, L, G[L], g) BY <1>14 DEF S
<1>16. t = G[L] BY <1>2
<1> QED BY <1>15, <1>16 DEF Kept, L

LEMMA IntsIndexed == ASSUME NEW s \in Seq(Int) PROVE \A i \in 1..Len(s) : s[i] \in Int
OBVIOUS

-----------------------------------------------------------------------------
(* Joining                                                                     *)

\* f is what has been joined of the parts of s so far.
Flat(T, s, f) ==
  f \in [0..Len(s) -> Seq(T)] /\ f[0] = <<>> /\ \A n \in 1..Len(s) : f[n] = f[n - 1] \o s[n]

LEMMA FlatExists == ASSUME NEW T, NEW s \in Seq(Seq(T)) PROVE \E f : Flat(T, s, f)
<1> DEFINE L == Len(s)
           h == [p \in Nat \X Seq(T) |-> IF p[1] + 1 \in 1..L THEN p[2] \o s[p[1] + 1] ELSE p[2]]
<1>1. L \in Nat /\ \A i \in 1..L : s[i] \in Seq(T) OBVIOUS
<1> HIDE DEF L
<1>2. h \in [Nat \X Seq(T) -> Seq(T)]
  <2>1. ASSUME NEW p \in Nat \X Seq(T) PROVE (IF p[1] + 1 \in 1..L THEN p[2] \o s[p[1] + 1] ELSE p[2]) \in Seq(T)
    <3>1. p[2] \in Seq(T) OBVIOUS
    <3>2. CASE p[1] + 1 \in 1..L
      <4>1. s[p[1] + 1] \in Seq(T) BY <1>1, <3>2
      <4>2. p[2] \o s[p[1] + 1] \in Seq(T) BY <3>1, <4>1
      <4> QED BY <3>2, <4>2
    <3>3. CASE p[1] + 1 \notin 1..L BY <3>1, <3>3
    <3> QED BY <3>2, <3>3
  <2> QED BY <2>1
<1>3. \A n \in 0..(L - 1), v \in Seq(T) : h[<<n, v>>] = v \o s[n + 1]
  <2> SUFFICES ASSUME NEW n \in 0..(L - 1), NEW v \in Seq(T) PROVE h[<<n, v>>] = v \o s[n + 1] OBVIOUS
  <2>1. <<n, v>> \in Nat \X Seq(T) /\ n + 1 \in 1..L /\ <<n, v>>[1] = n /\ <<n, v>>[2] = v BY <1>1
  <2> QED BY <2>1
<1> HIDE DEF h
<1>4. PICK F : Recurses(<<>>, h, Seq(T), F)
  <2>1. <<>> \in Seq(T) OBVIOUS
  <2> QED BY <1>2, <2>1, Recursion, Zenon
<1>5. F \in [Nat -> Seq(T)] /\ F[0] = <<>> /\ \A n \in Nat : F[n + 1] = h[<<n, F[n]>>] BY <1>4 DEF Recurses
<1> DEFINE f == [n \in 0..L |-> F[n]]
<1>6. f \in [0..L -> Seq(T)] /\ f[0] = <<>>
  <2>1. 0 \in 0..L /\ \A n \in 0..L : n \in Nat BY <1>1
  <2> QED BY <1>5, <2>1
<1>7. ASSUME NEW n \in 1..L PROVE f[n] = f[n - 1] \o s[n]
  <2>1. n - 1 \in Nat /\ n - 1 \in 0..(L - 1) /\ n - 1 \in 0..L /\ n \in 0..L /\ (n - 1) + 1 = n BY <1>1
  <2>2. F[n - 1] \in Seq(T) BY <1>5, <2>1
  <2>3. F[(n - 1) + 1] = h[<<n - 1, F[n - 1]>>] BY <1>5, <2>1
  <2>4. h[<<n - 1, F[n - 1]>>] = F[n - 1] \o s[(n - 1) + 1] BY <1>3, <2>1, <2>2
  <2>5. f[n] = F[n] /\ f[n - 1] = F[n - 1] BY <2>1
  <2> QED BY <2>1, <2>3, <2>4, <2>5
<1> HIDE DEF f
<1>8. Flat(T, s, f) BY <1>6, <1>7 DEF Flat, L
<1> QED BY <1>8

LEMMA FlattenIs ==
  ASSUME NEW T, NEW s \in Seq(Seq(T)), NEW f, Flat(T, s, f)
  PROVE  FlattenSeq(s) = f[Len(s)] /\ FlattenSeq(s) \in Seq(T)
<1> DEFINE L == Len(s)
           G == CHOOSE g : g = [i \in 1..L |-> IF i = 1 THEN s[i] ELSE g[i - 1] \o s[i]]
<1>1. L \in Nat /\ \A i \in 1..L : s[i] \in Seq(T) OBVIOUS
<1>2. FlattenSeq(s) = IF L = 0 THEN s ELSE G[L] BY Zenon DEF FlattenSeq
<1>3. f \in [0..L -> Seq(T)] /\ f[0] = <<>> /\ \A n \in 1..L : f[n] = f[n - 1] \o s[n] BY DEF Flat
<1>4. f[L] \in Seq(T)
  <2>1. L \in 0..L BY <1>1
  <2> QED BY <1>3, <2>1
<1>5. CASE L = 0
  <2>1. s = <<>> BY <1>1, <1>5
  <2> QED BY <1>2, <1>3, <1>4, <1>5, <2>1
<1>6. CASE L # 0
  <2> HIDE DEF L
  <2> DEFINE g == [i \in 1..L |-> f[i]]
  <2>1. ASSUME NEW i \in 1..L PROVE g[i] = IF i = 1 THEN s[i] ELSE g[i - 1] \o s[i]
    <3>1. f[i] = f[i - 1] \o s[i] /\ s[i] \in Seq(T) BY <1>1, <1>3
    <3>2. CASE i = 1
      <4>1. f[i - 1] = <<>> BY <1>3, <3>2
      <4>2. <<>> \o s[i] = s[i] BY <3>1
      <4> QED BY <3>1, <3>2, <4>1, <4>2
    <3>3. CASE i # 1
      <4>1. i - 1 \in 1..L BY <1>1, <3>3
      <4> QED BY <3>1, <3>3, <4>1
    <3> QED BY <3>2, <3>3
  <2>2. g = [i \in 1..L |-> IF i = 1 THEN s[i] ELSE g[i - 1] \o s[i]]
    <3>1. DOMAIN g = 1..L /\ g = [i \in 1..L |-> g[i]] OBVIOUS
    <3> HIDE DEF g
    <3> QED BY <2>1, <3>1
  <2>a. \A i \in 1..L : g[i] = f[i] OBVIOUS
  <2> HIDE DEF g
  <2>3. G = [i \in 1..L |-> IF i = 1 THEN s[i] ELSE G[i - 1] \o s[i]] BY <2>2, Zenon
  <2> HIDE DEF G
  <2> DEFINE S == {n \in Nat : n + 1 <= L => G[n + 1] = g[n + 1]}
  <2>4. 0 \in S
    <3>1. 1 \in 1..L BY <1>1, <1>6
    <3>2. G[1] = s[1] /\ g[1] = s[1] BY <2>1, <2>3, <3>1
    <3> QED BY <3>2
  <2>5. ASSUME NEW n \in Nat, n \in S PROVE n + 1 \in S
    <3> SUFFICES ASSUME (n + 1) + 1 <= L PROVE G[(n + 1) + 1] = g[(n + 1) + 1] OBVIOUS
    <3> DEFINE x == (n + 1) + 1
    <3>1. x \in 1..L /\ x # 1 /\ x - 1 = n + 1 /\ n + 1 <= L BY <1>1
    <3>2. G[n + 1] = g[n + 1] BY <2>5, <3>1
    <3> HIDE DEF x
    <3>3. G[x] = G[x - 1] \o s[x] /\ g[x] = g[x - 1] \o s[x] BY <2>1, <2>3, <3>1
    <3>4. G[x] = g[x] BY <3>1, <3>2, <3>3
    <3> QED BY <3>4 DEF x
  <2> HIDE DEF S
  <2>6. \A n \in Nat : n \in S BY <2>4, <2>5, SetInduction
  <2>7. L - 1 \in Nat /\ (L - 1) + 1 = L /\ L \in 1..L BY <1>1, <1>6
  <2>8. G[L] = g[L] 
    <3>1. L - 1 \in S BY <2>6, <2>7
    <3> QED BY <1>1, <2>7, <3>1 DEF S
  <2> QED BY <1>2, <1>4, <1>6, <2>7, <2>8, <2>a DEF L
<1> QED BY <1>5, <1>6

\* t is s and the part x, and so are the joined sequences.
Extends(T, s, x, t) == s \in Seq(Seq(T)) /\ x \in Seq(T) /\ t = Append(s, x)
FlatExtends(T, s, x, t) == FlattenSeq(s) \in Seq(T) /\ FlattenSeq(t) = FlattenSeq(s) \o x

LEMMA FlattenGrows ==
  ASSUME NEW T, NEW s, NEW x, NEW t, Extends(T, s, x, t)
  PROVE  FlatExtends(T, s, x, t)
<1>a. s \in Seq(Seq(T)) /\ x \in Seq(T) /\ t = Append(s, x) BY DEF Extends
<1> DEFINE L == Len(s)
<1>1. L \in Nat /\ t \in Seq(Seq(T)) /\ Len(t) = L + 1 /\ t[L + 1] = x /\ \A i \in 1..L : t[i] = s[i] BY <1>a
<1>2. PICK f : Flat(T, t, f) BY <1>1, FlatExists
<1>3. /\ f \in [0..(L + 1) -> Seq(T)] /\ f[0] = <<>> /\ \A n \in 1..(L + 1) : f[n] = f[n - 1] \o t[n]
      /\ FlattenSeq(t) = f[L + 1]
  <2>1. FlattenSeq(t) = f[Len(t)] BY <1>1, <1>2, FlattenIs
  <2>2. f \in [0..Len(t) -> Seq(T)] /\ f[0] = <<>> /\ \A n \in 1..Len(t) : f[n] = f[n - 1] \o t[n]
    BY <1>2, Zenon DEF Flat
  <2> QED BY <1>1, <2>1, <2>2
<1> DEFINE g == [n \in 0..L |-> f[n]]
<1>4. Flat(T, s, g)
  <2>1. g \in [0..L -> Seq(T)] /\ g[0] = <<>>
    <3>1. \A n \in 0..L : n \in 0..(L + 1) BY <1>1
    <3> QED BY <1>1, <1>3, <3>1
  <2>2. ASSUME NEW n \in 1..L PROVE g[n] = g[n - 1] \o s[n]
    <3>1. n \in 1..(L + 1) /\ n \in 0..L /\ n - 1 \in 0..L BY <1>1
    <3>2. f[n] = f[n - 1] \o t[n] /\ t[n] = s[n] BY <1>1, <1>3, <3>1
    <3>3. g[n] = f[n] /\ g[n - 1] = f[n - 1] BY <3>1
    <3> QED BY <3>2, <3>3
  <2> HIDE DEF g
  <2> QED BY <2>1, <2>2 DEF Flat
<1>5. g[L] = f[L] BY <1>1
<1> HIDE DEF g
<1>6. FlattenSeq(s) = g[L] /\ FlattenSeq(s) \in Seq(T) BY <1>4, <1>a, FlattenIs
<1>7. L + 1 \in 1..(L + 1) /\ (L + 1) - 1 = L BY <1>1
<1>8. f[L + 1] = f[(L + 1) - 1] \o t[L + 1] BY <1>3, <1>7
<1> QED BY <1>1, <1>3, <1>5, <1>6, <1>7, <1>8 DEF FlatExtends

LEMMA JoinedPrefix ==
  ASSUME NEW T, NEW a \in Seq(T), NEW b \in Seq(T), NEW t, t = a \o b
  PROVE  Len(a) <= Len(t) /\ SubSeq(t, 1, Len(a)) = a
<1>1. t \in Seq(T) /\ Len(t) = Len(a) + Len(b) /\ Len(a) \in Nat /\ Len(b) \in Nat OBVIOUS
<1>2. \A i \in 1..Len(a) : t[i] = a[i] OBVIOUS
<1>3. Len(a) <= Len(t) BY <1>1
<1> DEFINE p == SubSeq(t, 1, Len(a))
<1>4. p \in Seq(T) /\ Len(p) = Len(a) /\ \A i \in 1..Len(a) : p[i] = t[i] BY <1>1, <1>3
<1> HIDE DEF p
<1>5. p = a BY <1>2, <1>4
<1> QED BY <1>3, <1>5 DEF p
=============================================================================
