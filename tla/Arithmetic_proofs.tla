-------------------------- MODULE Arithmetic_proofs --------------------------
(***************************************************************************)
(* Proofs that the word operations of Arithmetic are exact, for words of   *)
(* any number of bytes of any size.                                        *)
(***************************************************************************)
EXTENDS Arithmetic, TLAPS, WellFoundedInduction

\* Division of an integer with remainder.
LEMMA Euclid ==
  ASSUME NEW r \in Int, NEW m \in Nat \ {0}
  PROVE  /\ r \div m \in Int /\ r % m \in 0..(m - 1)
         /\ r = m * (r \div m) + (r % m)
OBVIOUS

\* Its quotient and remainder are unique.
LEMMA Unique ==
  ASSUME NEW m \in Nat \ {0}, NEW q \in Int, NEW t \in 0..(m - 1), NEW r, r = m * q + t
  PROVE  r % m = t /\ r \div m = q
OBVIOUS

\* The only multiple between -m and m is 0.
LEMMA NoMultiple ==
  ASSUME NEW m \in Nat \ {0}, NEW k \in Int, -m < m * k, m * k < m
  PROVE  k = 0
<1>1. CASE k >= 1
  <2>1. m * k >= m
    BY <1>1
  <2> QED BY <2>1
<1>2. CASE k <= -1
  <2>1. m * k <= -m
    BY <1>2
  <2> QED BY <2>1
<1> QED BY <1>1, <1>2

\* a and b leave the same remainder.
Cong(a, b, m) == \E k \in Int : a = b + m * k

\* Congruent integers have equal remainders.
LEMMA CongMod ==
  ASSUME NEW m \in Nat \ {0}, NEW a \in Int, NEW b \in Int, Cong(a, b, m)
  PROVE  a % m = b % m
<1>1. PICK k \in Int : a = b + m * k
  BY Zenon DEF Cong
<1>2. PICK t \in 0..(m - 1) : t = b % m
  BY Euclid, Zenon
<1>3. PICK q \in Int : b = m * q + t
  BY <1>2, Euclid, Zenon
<1>4. a = m * (q + k) + t /\ q + k \in Int
  BY <1>1, <1>3
<1>5. a % m = t
  BY <1>4, Unique, Zenon
<1> QED BY <1>2, <1>5, Zenon

\* An integer is congruent to its remainder.
LEMMA CongSelf ==
  ASSUME NEW m \in Nat \ {0}, NEW a \in Int
  PROVE  Cong(a % m, a, m) /\ Cong(a, a, m)
<1>1. PICK q \in Int, t \in Int : a = m * q + t /\ t = a % m
  <2>1. \A t \in 0..(m - 1) : t \in Int
    OBVIOUS
  <2> QED BY <2>1, Euclid, Zenon
<1>2. t = a + m * (-q) /\ -q \in Int
  BY <1>1
<1>3. a = a + m * 0 /\ 0 \in Int
  OBVIOUS
<1> QED BY <1>1, <1>2, <1>3, Zenon DEF Cong

\* Congruence is transitive.
LEMMA CongTrans ==
  ASSUME NEW m \in Nat \ {0}, NEW a \in Int, NEW b \in Int, NEW c \in Int,
         Cong(a, b, m), Cong(b, c, m)
  PROVE  Cong(a, c, m)
<1>1. PICK k \in Int : a = b + m * k
  BY Zenon DEF Cong
<1>2. PICK l \in Int : b = c + m * l
  BY Zenon DEF Cong
<1>3. a = c + m * (k + l) /\ k + l \in Int
  BY <1>1, <1>2
<1> QED BY <1>3, Zenon DEF Cong

\* Congruence is compatible with products.
LEMMA CongProduct ==
  ASSUME NEW m \in Nat \ {0}, NEW a \in Int, NEW b \in Int, NEW c \in Int, NEW d \in Int,
         Cong(a, b, m), Cong(c, d, m)
  PROVE  Cong(a * c, b * d, m)
<1>1. PICK k \in Int : a = b + m * k
  BY Zenon DEF Cong
<1>2. PICK l \in Int : c = d + m * l
  BY Zenon DEF Cong
<1>3. a * c = b * d + m * (b * l + k * d + m * k * l)
  BY <1>1, <1>2
<1>4. b * l + k * d + m * k * l \in Int
  OBVIOUS
<1> QED BY <1>3, <1>4, Zenon DEF Cong

\* A difference that is divisible.
LEMMA CongMinus ==
  ASSUME NEW m \in Nat \ {0}, NEW a \in Int, NEW b \in Int
  PROVE  (a - b) % m = 0 <=> Cong(a, b, m)
<1>1. ASSUME (a - b) % m = 0 PROVE Cong(a, b, m)
  <2>1. PICK q \in Int : a - b = m * q + ((a - b) % m)
    BY Euclid, a - b \in Int
  <2>2. a = b + m * q
    BY <1>1, <2>1
  <2> QED BY <2>2, Zenon DEF Cong
<1>2. ASSUME Cong(a, b, m) PROVE (a - b) % m = 0
  <2>1. PICK k \in Int : a = b + m * k
    BY <1>2, Zenon DEF Cong
  <2>2. a - b = m * k + 0 /\ 0 \in 0..(m - 1)
    BY <2>1
  <2> QED BY <2>2, Unique, ZenonT(30)
<1> QED BY <1>1, <1>2, Zenon

-----------------------------------------------------------------------------
\* There is a least element in every set of naturals.
LEMMA Least ==
  ASSUME NEW T, T \subseteq Nat, T # {}
  PROVE  \E x \in T : \A y \in T : ~(y < x)
<1> DEFINE R == OpToRel(<, Nat)
<1>1. IsWellFoundedOn(R, Nat)
  BY NatLessThanWellFounded, Zenon
<1>2. T \subseteq Nat /\ T # {}
  BY Zenon
<1>3. \A x, y \in Nat : y < x => <<y, x>> \in R
  BY Zenon DEF OpToRel
<1> HIDE DEF R
<1>4. PICK x \in T : \A y \in T : ~(<<y, x>> \in R)
  BY <1>1, <1>2, WFMin, Zenon
<1> QED BY <1>2, <1>3, <1>4, Zenon

\* What holds at 0 and is kept by every successor up to top holds up to top.
LEMMA Induction ==
  ASSUME NEW S, 0 \in S, NEW top, top \in Nat,
         \A n \in Nat : n < top /\ n \in S => n + 1 \in S
  PROVE  \A n \in 0..top : n \in S
<1> DEFINE T == {n \in Nat : n <= top /\ n \notin S}
<1>1. ASSUME T # {} PROVE FALSE
  <2>1. PICK x \in T : \A y \in T : ~(y < x)
    BY <1>1, Least, T \subseteq Nat, Zenon
  <2>2. x \in Nat /\ x # 0 /\ x <= top /\ x \notin S
    BY <2>1, Zenon
  <2>3. x - 1 \in Nat /\ x - 1 < top /\ x - 1 <= top /\ (x - 1) + 1 = x /\ x - 1 < x
    BY <2>2
  <2>4. x - 1 \in S
    BY <2>1, <2>3, Zenon
  <2> QED BY <2>2, <2>3, <2>4, Zenon
<1>2. \A n \in 0..top : n \in Nat /\ n <= top
  OBVIOUS
<1> QED BY <1>1, <1>2, Zenon

\* The naturals, and their initial segments.
Segment(D) == D = Nat \/ \E m \in Nat : D = 0..m

\* step, applied to an argument and a value of V, gives a value of V.
Stepping(step, V) == \A n \in Nat, v \in V : step[<<n, v>>] \in V

\* g has the value a at 0 and follows step elsewhere.
Follows(g, D, a, step) == g = [n \in D |-> IF n = 0 THEN a ELSE step[<<n, g[n - 1]>>]]

\* A function may be defined by its value at 0 and, elsewhere, from its value
\* one before.
LEMMA Recursion ==
  ASSUME NEW V, NEW a \in V, NEW step, Stepping(step, V), NEW D, Segment(D)
  PROVE  \E g : Follows(g, D, a, step) /\ \A n \in D : g[n] \in V
<1> DEFINE Solves(g, m) == /\ g = [n \in 0..m |-> IF n = 0 THEN a ELSE step[<<n, g[n - 1]>>]]
                           /\ \A n \in 0..m : g[n] \in V
           S == {m \in Nat : \E g : Solves(g, m)}
<1>1. 0 \in S
  <2> DEFINE g == [n \in 0..0 |-> a]
  <2>1. \A n \in 0..0 : n = 0
    OBVIOUS
  <2>2. g = [n \in 0..0 |-> IF n = 0 THEN a ELSE step[<<n, g[n - 1]>>]]
    BY <2>1, Zenon
  <2>3. \A n \in 0..0 : g[n] \in V
    BY Zenon
  <2> HIDE DEF g
  <2>4. \E h : Solves(h, 0)
    BY <2>2, <2>3, Zenon
  <2> QED BY <2>4, 0 \in Nat, Zenon
<1>2. ASSUME NEW m \in Nat, m \in S PROVE m + 1 \in S
  <2>1. PICK f : Solves(f, m)
    BY <1>2, Zenon
  <2> DEFINE g == [n \in 0..(m + 1) |-> IF n = m + 1 THEN step[<<n, f[m]>>] ELSE f[n]]
  <2>2. /\ m + 1 \in Nat /\ m \in 0..m /\ m + 1 # 0 /\ (m + 1) - 1 = m /\ m # m + 1
        /\ m \in 0..(m + 1)
    OBVIOUS
  <2>3. \A n \in 0..(m + 1) : n # m + 1 => n \in 0..m
    OBVIOUS
  <2>4. \A n \in 0..m : n # 0 => n - 1 \in 0..(m + 1) /\ n - 1 # m + 1
    OBVIOUS
  <2>5. \A n \in 0..(m + 1) : g[n] = IF n = 0 THEN a ELSE step[<<n, g[n - 1]>>]
    <3> TAKE n \in 0..(m + 1)
    <3>1. CASE n = m + 1
      <4>1. g[n] = step[<<n, f[m]>>]
        BY <3>1, Zenon
      <4>2. g[n - 1] = f[m]
        BY <2>2, <3>1, Zenon
      <4> HIDE DEF g
      <4> QED BY <2>2, <3>1, <4>1, <4>2, Zenon
    <3>2. CASE n # m + 1
      <4>1. g[n] = f[n] /\ n \in 0..m
        BY <2>3, <3>2, Zenon
      <4>2. f[n] = IF n = 0 THEN a ELSE step[<<n, f[n - 1]>>]
        BY <2>1, <4>1, Zenon
      <4>3. n # 0 => g[n - 1] = f[n - 1]
        BY <2>4, <4>1, Zenon
      <4> HIDE DEF g
      <4> QED BY <4>1, <4>2, <4>3, Zenon
    <3> QED BY <3>1, <3>2, Zenon
  <2>6. \A n \in 0..(m + 1) : g[n] \in V
    <3>1. f[m] \in V
      BY <2>1, <2>2, Zenon
    <3>2. step[<<m + 1, f[m]>>] \in V
      BY <2>2, <3>1, Zenon DEF Stepping
    <3>3. \A n \in 0..m : f[n] \in V
      BY <2>1, Zenon
    <3> QED BY <2>3, <3>2, <3>3, Zenon
  <2>7. g = [n \in 0..(m + 1) |-> g[n]]
    BY Zenon
  <2> HIDE DEF g
  <2>8. g = [n \in 0..(m + 1) |-> IF n = 0 THEN a ELSE step[<<n, g[n - 1]>>]]
    BY <2>5, <2>7, Zenon
  <2>9. \E h : Solves(h, m + 1)
    BY <2>6, <2>8, Zenon
  <2> QED BY <2>2, <2>9, Zenon
<1>3. ASSUME NEW m \in Nat PROVE \E g : Solves(g, m)
  <2> HIDE DEF S
  <2>1. \A n \in Nat : n < m /\ n \in S => n + 1 \in S
    BY <1>2, Zenon
  <2>2. \A n \in 0..m : n \in S
    BY <1>1, <2>1, Induction, Zenon
  <2>3. m \in S
    BY <2>2
  <2> QED BY <2>3, Zenon DEF S
<1> HIDE DEF S
<1>4. ASSUME NEW f, NEW g, NEW k \in Nat, NEW m \in Nat, Solves(f, k), Solves(g, m), k <= m
      PROVE  f[k] = g[k]
  <2> DEFINE E == {n \in 0..k : f[n] = g[n]}
  <2>1. /\ \A n \in 0..k : f[n] = IF n = 0 THEN a ELSE step[<<n, f[n - 1]>>]
        /\ \A n \in 0..m : g[n] = IF n = 0 THEN a ELSE step[<<n, g[n - 1]>>]
    BY <1>4, Zenon
  <2>2. 0 \in 0..k /\ k \in 0..k /\ \A n \in 0..k : n \in 0..m
    BY <1>4
  <2>3. 0 \in E
    BY <2>1, <2>2, Zenon
  <2>4. ASSUME NEW n \in Nat, n < k, n \in E PROVE n + 1 \in E
    <3>1. n + 1 \in 0..k /\ n + 1 # 0 /\ (n + 1) - 1 = n
      BY <2>4
    <3>2. f[n + 1] = step[<<n + 1, f[n]>>] /\ g[n + 1] = step[<<n + 1, g[n]>>]
      BY <2>1, <2>2, <3>1, Zenon
    <3> QED BY <2>4, <3>1, <3>2, Zenon
  <2> HIDE DEF E
  <2>5. \A n \in 0..k : n \in E
    BY <2>3, <2>4, Induction, Zenon
  <2> QED BY <2>2, <2>5, Zenon DEF E
<1> DEFINE G(n) == CHOOSE g : Solves(g, n)
<1>5. \A n \in Nat : Solves(G(n), n)
  BY <1>3, Zenon
<1>6. ASSUME NEW n \in Nat
      PROVE  /\ G(n)[n] = IF n = 0 THEN a ELSE step[<<n, G(n - 1)[n - 1]>>]
             /\ G(n)[n] \in V
  <2> HIDE DEF G
  <2>1. Solves(G(n), n) /\ n \in 0..n
    BY <1>5
  <2>2. G(n)[n] = (IF n = 0 THEN a ELSE step[<<n, G(n)[n - 1]>>]) /\ G(n)[n] \in V
    BY <2>1, Zenon
  <2>3. ASSUME n # 0 PROVE G(n)[n - 1] = G(n - 1)[n - 1]
    <3>1. n - 1 \in Nat /\ n - 1 <= n
      BY <2>3
    <3>2. Solves(G(n - 1), n - 1)
      BY <1>5, <3>1, Zenon
    <3> HIDE DEF Solves
    <3> QED BY <1>4, <2>1, <3>1, <3>2, Zenon
  <2> QED BY <2>2, <2>3, Zenon
<1> HIDE DEF G
<1> DEFINE f == [n \in D |-> G(n)[n]]
<1>7. \A n \in D : n \in Nat /\ (n # 0 => n - 1 \in D)
  <2>1. CASE D = Nat
    BY <2>1
  <2>2. CASE \E m \in Nat : D = 0..m
    <3>1. PICK m \in Nat : D = 0..m
      BY <2>2, Zenon
    <3> QED BY <3>1
  <2> QED BY <2>1, <2>2, Zenon DEF Segment
<1>8. \A n \in D : f[n] = (IF n = 0 THEN a ELSE step[<<n, f[n - 1]>>]) /\ f[n] \in V
  BY <1>6, <1>7, Zenon
<1>9. f = [n \in D |-> f[n]]
  BY Zenon
<1> HIDE DEF f
<1>10. f = [n \in D |-> IF n = 0 THEN a ELSE step[<<n, f[n - 1]>>]]
  BY <1>8, <1>9, Zenon
<1> QED BY <1>8, <1>10, Zenon DEF Follows

-----------------------------------------------------------------------------
\* What Power computes.
LEMMA PowerIs ==
  ASSUME NEW b \in Int
  PROVE  /\ Power(b)[0] = 1
         /\ \A n \in Nat : Power(b)[n + 1] = b * Power(b)[n] /\ Power(b)[n] \in Int
<1> DEFINE step == [p \in Nat \X Int |-> b * p[2]]
           Body(p) == [n \in Nat |-> IF n = 0 THEN 1 ELSE b * p[n - 1]]
<1>1. \A n \in Nat, v \in Int : step[<<n, v>>] = b * v /\ b * v \in Int
  OBVIOUS
<1> HIDE DEF step
<1>2. PICK g : Follows(g, Nat, 1, step) /\ \A n \in Nat : g[n] \in Int
  <2>1. Stepping(step, Int)
    BY <1>1, Zenon DEF Stepping
  <2>2. Segment(Nat)
    BY Zenon DEF Segment
  <2>3. 1 \in Int
    OBVIOUS
  <2> QED BY <2>1, <2>2, <2>3, Recursion, Zenon
<1>3. g = Body(g)
  <2>1. \A n \in Nat : n # 0 => n - 1 \in Nat
    OBVIOUS
  <2>2. \A n \in Nat : (IF n = 0 THEN 1 ELSE step[<<n, g[n - 1]>>]) = IF n = 0 THEN 1 ELSE b * g[n - 1]
    BY <1>1, <1>2, <2>1, Zenon
  <2> QED BY <1>2, <2>2, Zenon DEF Follows
<1>4. Power(b) = Body(Power(b))
  BY <1>3, Zenon DEF Power
<1> DEFINE P == Power(b)
<1> HIDE DEF P
<1>5. \A n \in Nat : P[n] = IF n = 0 THEN 1 ELSE b * P[n - 1]
  BY <1>4, Zenon DEF P
<1>6. \A n \in Nat : n + 1 \in Nat /\ n + 1 # 0 /\ (n + 1) - 1 = n
  OBVIOUS
<1>7. P[0] = 1 /\ \A n \in Nat : P[n + 1] = b * P[n]
  BY <1>5, <1>6, 0 \in Nat, Zenon
<1>8. ASSUME NEW m \in Nat PROVE P[m] \in Int
  <2> DEFINE S == {n \in Nat : P[n] \in Int}
  <2>1. 0 \in S
    BY <1>7, 0 \in Nat, 1 \in Int
  <2>2. \A n \in Nat : n \in S => n + 1 \in S
    <3> TAKE n \in Nat
    <3> HAVE n \in S
    <3>1. b * P[n] \in Int
      OBVIOUS
    <3> QED BY <1>6, <1>7, <3>1, Zenon
  <2> HIDE DEF S
  <2>3. \A n \in 0..m : n \in S
    BY <2>1, <2>2, Induction, Zenon
  <2>4. m \in S
    BY <2>3
  <2> QED BY <2>4, Zenon DEF S
<1> QED BY <1>7, <1>8, Zenon DEF P

\* A sum of exponents.
LEMMA PowerSum ==
  ASSUME NEW b \in Int, NEW k \in Nat, NEW m \in Nat
  PROVE  Power(b)[k + m] = Power(b)[k] * Power(b)[m]
<1> DEFINE P == Power(b)
           S == {n \in Nat : P[k + n] = P[k] * P[n]}
<1>1. P[0] = 1 /\ \A n \in Nat : P[n + 1] = b * P[n] /\ P[n] \in Int
  BY PowerIs, Zenon
<1> HIDE DEF P
<1>2. 0 \in S
  BY <1>1
<1>3. ASSUME NEW n \in Nat, n \in S PROVE n + 1 \in S
  <2>1. k + n \in Nat /\ k + (n + 1) = (k + n) + 1 /\ n + 1 \in Nat
    OBVIOUS
  <2>2. P[k + (n + 1)] = b * P[k + n] /\ P[n + 1] = b * P[n] /\ P[k] \in Int /\ P[n] \in Int
    BY <1>1, <2>1, Zenon
  <2>3. P[k + n] = P[k] * P[n]
    BY <1>3, Zenon
  <2>4. \A u, v \in Int : b * (u * v) = u * (b * v)
    OBVIOUS
  <2> QED BY <2>1, <2>2, <2>3, <2>4, Zenon
<1> HIDE DEF S
<1>4. \A n \in 0..m : n \in S
  BY <1>2, <1>3, Induction, Zenon
<1>5. m \in S
  BY <1>4
<1> QED BY <1>5, Zenon DEF S, P

\* Powers of two are positive.
LEMMA Pow2Is ==
  /\ Pow2[0] = 1
  /\ \A n \in Nat : Pow2[n + 1] = 2 * Pow2[n] /\ Pow2[n] \in Nat \ {0}
  /\ \A k, m \in Nat : Pow2[k + m] = Pow2[k] * Pow2[m]
<1>1. 2 \in Int
  OBVIOUS
<1>2. Pow2[0] = 1 /\ \A n \in Nat : Pow2[n + 1] = 2 * Pow2[n] /\ Pow2[n] \in Int
  BY <1>1, PowerIs, Zenon DEF Pow2
<1>3. \A k, m \in Nat : Pow2[k + m] = Pow2[k] * Pow2[m]
  BY <1>1, PowerSum, Zenon DEF Pow2
<1>4. ASSUME NEW m \in Nat PROVE Pow2[m] \in Nat \ {0}
  <2> DEFINE S == {n \in Nat : Pow2[n] \in Nat \ {0}}
  <2>1. 0 \in S
    BY <1>2
  <2>2. \A n \in Nat : n \in S => n + 1 \in S
    BY <1>2
  <2> HIDE DEF S
  <2>3. \A n \in 0..m : n \in S
    BY <2>1, <2>2, Induction, Zenon
  <2>4. m \in S
    BY <2>3
  <2> QED BY <2>4, Zenon DEF S
<1> QED BY <1>2, <1>3, <1>4, Zenon

-----------------------------------------------------------------------------
\* The range of words: twice that of the numbers that are not negative.
LEMMA WordIs ==
  /\ Pow2[Bits] \in Nat \ {0} /\ Pow2[Bits - 1] \in Nat \ {0}
  /\ Pow2[Bits] = 2 * Pow2[Bits - 1]
<1>1. Bits \in Nat \ {0}
  BY WordAssumption, Zenon
<1>2. Bits \in Nat /\ Bits - 1 \in Nat /\ (Bits - 1) + 1 = Bits
  BY <1>1
<1> QED BY <1>2, Pow2Is, Zenon

\* math.U256 yields the word that an integer is congruent to.
LEMMA U256Is ==
  ASSUME NEW n \in Int
  PROVE  /\ U256(n) \in Word /\ U256(n) \in Int
         /\ Cong(U256(n), n, Pow2[Bits]) /\ Represents(U256(n), n)
         /\ n \in Word => U256(n) = n
<1> DEFINE M == Pow2[Bits]
<1>1. M \in Nat \ {0}
  BY WordIs, Zenon
<1> HIDE DEF M
<1>2. n % M \in 0..(M - 1) /\ Cong(n % M, n, M)
  BY <1>1, Euclid, CongSelf, Zenon
<1>3. \A t \in 0..(M - 1) : t \in Int
  BY <1>1
<1>4. ((n % M) - n) % M = 0
  BY <1>1, <1>2, <1>3, CongMinus, Zenon
<1>5. ASSUME n \in 0..(M - 1) PROVE n % M = n
  BY <1>1, <1>5
<1> QED BY <1>2, <1>3, <1>4, <1>5, Zenon DEF U256, Word, Represents, M

\* The taint tells whether the exact result is a word.
LEMMA TaintIs ==
  ASSUME NEW r \in Int
  PROVE  Tainting(r).taint = (r \notin Word)
<1>1. Tainting(r).taint = (r # U256(r))
  BY Zenon DEF Tainting
<1>2. U256(r) \in Word /\ (r \in Word => U256(r) = r)
  BY U256Is, Zenon
<1> QED BY <1>1, <1>2, Zenon

\* Tainting, for all words.
LEMMA TaintsExact ==
  ASSUME NEW x \in Word, NEW y \in Word
  PROVE  TaintExact(x, y)
<1>1. Pow2[Bits] \in Nat \ {0}
  BY WordIs, Zenon
<1>2. x \in Int /\ y \in Int
  BY <1>1 DEF Word
<1>3. x + y \in Int /\ x - y \in Int /\ x * y \in Int
  BY <1>2
<1>4. ~opDiv(x, y).taint
  <2>1. CASE y = 0
    BY <2>1, Zenon DEF opDiv
  <2>2. CASE y # 0
    <3>1. x \div y \in 0..x
      BY <1>1, <2>2 DEF Word
    <3>2. x \div y \in Word /\ x \div y \in Int
      BY <1>1, <3>1 DEF Word
    <3>3. Tainting(x \div y).taint = FALSE
      BY <3>2, TaintIs, Zenon
    <3> QED BY <2>2, <3>3, Zenon DEF opDiv
  <2> QED BY <2>1, <2>2, Zenon
<1> QED BY <1>3, <1>4, TaintIs, Zenon DEF TaintExact, opAdd, opSub, opMul

-----------------------------------------------------------------------------
\* math.S256 yields the signed number a word stands for.
LEMMA S256Is ==
  ASSUME NEW w \in Word
  PROVE  /\ S256(w) = Signed(w) /\ w \in Nat
         /\ S256(w) \in (-Pow2[Bits - 1])..(Pow2[Bits - 1] - 1)
         /\ S256(w) = 0 <=> w = 0
<1> DEFINE M == Pow2[Bits]
           H == Pow2[Bits - 1]
           s == S256(w)
<1>1. M \in Nat \ {0} /\ H \in Nat \ {0} /\ M = 2 * H
  BY WordIs, Zenon
<1>2. w \in 0..(M - 1)
  BY Zenon DEF Word
<1>3. s = IF w < H THEN w ELSE w - M
  BY Zenon DEF S256
<1> HIDE DEF M, H, s
<1>4. s \in (-H)..(H - 1) /\ (s = 0 <=> w = 0) /\ w \in Nat
  BY <1>1, <1>2, <1>3
<1>5. (w - s) % M = 0
  <2>1. CASE w < H
    <3>1. w = s + M * 0 /\ 0 \in Int
      BY <1>1, <1>2, <1>3, <2>1
    <3>2. Cong(w, s, M)
      BY <3>1, Zenon DEF Cong
    <3> QED BY <1>1, <1>4, <3>2, CongMinus, w \in Int, s \in Int
  <2>2. CASE ~(w < H)
    <3>1. w = s + M * 1 /\ 1 \in Int
      BY <1>1, <1>2, <1>3, <2>2
    <3>2. Cong(w, s, M)
      BY <3>1, Zenon DEF Cong
    <3> QED BY <1>1, <1>4, <3>2, CongMinus, w \in Int, s \in Int
  <2> QED BY <2>1, <2>2, Zenon
<1>6. ASSUME NEW n \in (-H)..(H - 1), (w - n) % M = 0
      PROVE  n = s
  <2>1. w \in Int /\ s \in Int /\ n \in Int
    BY <1>1, <1>4
  <2>2. Cong(w, n, M) /\ Cong(w, s, M)
    BY <1>1, <1>5, <1>6, <2>1, CongMinus, Zenon
  <2>3. PICK k \in Int : w = n + M * k
    BY <2>2, Zenon DEF Cong
  <2>4. PICK l \in Int : w = s + M * l
    BY <2>2, Zenon DEF Cong
  <2>5. M * (k - l) = s - n /\ k - l \in Int
    BY <1>1, <2>1, <2>3, <2>4
  <2>6. -M < s - n /\ s - n < M
    BY <1>1, <1>4
  <2>7. k - l = 0
    BY <1>1, <2>5, <2>6, NoMultiple
  <2> QED BY <1>1, <2>1, <2>5, <2>7
<1>7. s = CHOOSE n \in (-H)..(H - 1) : (w - n) % M = 0
  BY <1>4, <1>5, <1>6, Zenon
<1> QED BY <1>4, <1>7, Zenon DEF Signed, M, H, s

-----------------------------------------------------------------------------
\* The integers that signed words stand for.
Signeds == (-Pow2[Bits - 1])..(Pow2[Bits - 1] - 1)

\* The quotient and the remainder as the code computes them, with the signs it
\* gives them, are those that round towards zero.
LEMMA Rounded ==
  ASSUME NEW n \in Int, NEW d \in Int, d # 0
  PROVE  LET t == Abs(n) \div Abs(d)
             r == Abs(n) % Abs(d)
             q == t * Sign(n * d < 0)
         IN /\ t \in Nat /\ t <= Abs(n) /\ r \in 0..(Abs(d) - 1) /\ q \in Int
            /\ n - d * q = r * Sign(n < 0)
            /\ \A p \in Int : Abs(n - d * p) < Abs(d) /\ (n - d * p = 0 \/ (n - d * p < 0) = (n < 0))
                                => p = q
<1> DEFINE a == Abs(n)
           b == Abs(d)
           t == a \div b
           r == a % b
           q == t * Sign(n * d < 0)
<1>1. a \in Nat /\ b \in Nat \ {0} /\ (n < 0 => a = -n) /\ (n >= 0 => a = n)
      /\ (d < 0 => b = -d) /\ (d >= 0 => b = d)
  BY DEF Abs
<1> HIDE DEF a, b
<1>2. t \in Nat /\ r \in 0..(b - 1) /\ a = b * t + r /\ t <= a
  <2>1. t \in Int /\ r \in 0..(b - 1) /\ a = b * t + r
    BY <1>1, Euclid, a \in Int
  <2> HIDE DEF t, r
  <2>2. t >= 0
    <3>1. ASSUME t <= -1 PROVE FALSE
      <4>1. b * t <= -b
        BY <1>1, <2>1, <3>1
      <4> QED BY <1>1, <2>1, <4>1
    <3> QED BY <2>1, <3>1
  <2>3. b * t >= t
    BY <1>1, <2>1, <2>2
  <2> QED BY <1>1, <2>1, <2>2, <2>3
<1>3. \A p \in Int : \A s \in 0..(b - 1) : a = b * p + s => p = t
  BY <1>1, <1>2, Unique, Zenon
<1> HIDE DEF t, r
<1>4. /\ n >= 0 /\ d > 0 => q = t
      /\ n > 0 /\ d < 0 => q = -t
      /\ n = 0 => t = 0 /\ q = 0
      /\ n < 0 /\ d > 0 => q = -t
      /\ n < 0 /\ d < 0 => q = t
  <2>1. ASSUME n * d < 0 PROVE q = -t
    BY <1>2, <2>1 DEF Sign
  <2>2. ASSUME ~(n * d < 0) PROVE q = t
    BY <1>2, <2>2 DEF Sign
  <2>3. n >= 0 /\ d > 0 => ~(n * d < 0)
    OBVIOUS
  <2>4. n > 0 /\ d < 0 => n * d < 0
    OBVIOUS
  <2>5. n < 0 /\ d > 0 => n * d < 0
    OBVIOUS
  <2>6. n < 0 /\ d < 0 => ~(n * d < 0)
    OBVIOUS
  <2>7. n = 0 => t = 0
    BY <1>1, <1>2
  <2> HIDE DEF q
  <2>8. n = 0 => ~(n * d < 0)
    OBVIOUS
  <2> QED BY <2>1, <2>2, <2>3, <2>4, <2>5, <2>6, <2>7, <2>8, Zenon
<1>5. q \in Int
  BY <1>1, <1>2, <1>4
<1> HIDE DEF q
<1>6. r * Sign(n < 0) = IF n < 0 THEN -r ELSE r
  BY <1>2 DEF Sign
<1>7. n - d * q = r * Sign(n < 0)
  <2>1. CASE n >= 0 /\ d > 0
    BY <1>1, <1>2, <1>4, <1>6, <2>1
  <2>2. CASE n >= 0 /\ d < 0
    BY <1>1, <1>2, <1>4, <1>6, <2>2
  <2>3. CASE n < 0 /\ d > 0
    BY <1>1, <1>2, <1>4, <1>6, <2>3
  <2>4. CASE n < 0 /\ d < 0
    BY <1>1, <1>2, <1>4, <1>6, <2>4
  <2> QED BY <2>1, <2>2, <2>3, <2>4
<1>8. ASSUME NEW p \in Int, Abs(n - d * p) < b, n - d * p = 0 \/ (n - d * p < 0) = (n < 0)
      PROVE  p = q
  <2> DEFINE e == n - d * p
  <2>1. e \in Int
    OBVIOUS
  <2>2. -b < e /\ e < b /\ (e = 0 \/ (e < 0) = (n < 0))
    BY <1>1, <1>8 DEF Abs
  <2>3. n = d * p + e
    OBVIOUS
  <2> HIDE DEF e
  <2>4. CASE n >= 0
    <3>1. e \in 0..(b - 1)
      BY <1>1, <2>1, <2>2, <2>4
    <3>2. CASE d > 0
      <4>1. a = b * p + e
        BY <1>1, <2>1, <2>3, <2>4, <3>2
      <4> QED BY <1>3, <1>4, <2>4, <3>1, <3>2, <4>1
    <3>3. CASE d < 0
      <4>1. a = b * (-p) + e
        BY <1>1, <2>1, <2>3, <2>4, <3>3
      <4>2. -p = t
        BY <1>3, <3>1, <4>1, -p \in Int
      <4> QED BY <1>2, <1>4, <2>4, <3>3, <4>2
    <3> QED BY <3>2, <3>3
  <2>5. CASE n < 0
    <3>1. -e \in 0..(b - 1)
      BY <1>1, <2>1, <2>2, <2>5
    <3>2. CASE d > 0
      <4>1. a = b * (-p) + (-e)
        BY <1>1, <2>1, <2>3, <2>5, <3>2
      <4>2. -p = t
        BY <1>3, <3>1, <4>1, -p \in Int
      <4> QED BY <1>2, <1>4, <2>5, <3>2, <4>2
    <3>3. CASE d < 0
      <4>1. a = b * p + (-e)
        BY <1>1, <2>1, <2>3, <2>5, <3>3
      <4> QED BY <1>3, <1>4, <2>5, <3>1, <3>3, <4>1
    <3> QED BY <3>2, <3>3
  <2> QED BY <2>4, <2>5
<1>9. t <= Abs(n) /\ r \in 0..(Abs(d) - 1)
  BY <1>2, Zenon DEF a, b
<1> QED BY <1>2, <1>5, <1>7, <1>8, <1>9, Zenon DEF a, b, t, r, q

\* The same with the names of the code: what Quotient is, and the remainder.
LEMMA QuotientIs ==
  ASSUME NEW n \in Signeds, NEW d \in Signeds, d # 0
  PROVE  /\ Quotient(n, d) \in Int
         /\ (Abs(n) \div Abs(d)) * Sign(n * d < 0) = Quotient(n, d)
         /\ (Abs(n) % Abs(d)) * Sign(n < 0) = n - d * Quotient(n, d)
<1> DEFINE H == Pow2[Bits - 1]
           t == Abs(n) \div Abs(d)
           r == Abs(n) % Abs(d)
           q == t * Sign(n * d < 0)
           Good(p) == /\ Abs(d * p) <= Abs(n) /\ Abs(n - d * p) < Abs(d)
                      /\ (n - d * p = 0 \/ (n - d * p < 0) = (n < 0))
<1>1. H \in Nat \ {0} /\ n \in (-H)..(H - 1) /\ d \in Int /\ n \in Int
  <2>1. H \in Nat \ {0} /\ n \in (-H)..(H - 1) /\ d \in (-H)..(H - 1)
    BY WordIs, Zenon DEF Signeds
  <2> HIDE DEF H
  <2> QED BY <2>1
<1>2. /\ t \in Nat /\ t <= Abs(n) /\ r \in 0..(Abs(d) - 1) /\ q \in Int
      /\ n - d * q = r * Sign(n < 0)
      /\ \A p \in Int : Abs(n - d * p) < Abs(d) /\ (n - d * p = 0 \/ (n - d * p < 0) = (n < 0))
                          => p = q
  BY <1>1, Rounded, Zenon
<1>3. q = t \/ q = -t
  <2> HIDE DEF t
  <2> QED BY <1>2 DEF Sign
<1> HIDE DEF H, t, r, q
<1>4. q \in (-H)..H
  BY <1>1, <1>2, <1>3 DEF Abs
<1>5. r \in Int /\ n - d * q = IF n < 0 THEN -r ELSE r
  BY <1>1, <1>2 DEF Sign, Abs
<1>6. Good(q)
  <2> DEFINE e == n - d * q
  <2>1. e \in Int /\ d * q = n - e /\ e = IF n < 0 THEN -r ELSE r
    BY <1>1, <1>2, <1>5
  <2> HIDE DEF e
  <2>2. Abs(e) = r /\ r < Abs(d) /\ (e = 0 \/ (e < 0) = (n < 0))
    BY <1>1, <1>2, <2>1 DEF Abs
  <2>3. Abs(d * q) <= Abs(n)
    <3>1. d * q = n - e
      BY <2>1, Zenon
    <3>2. r <= Abs(n)
      <4> DEFINE a == Abs(n)
                 b == Abs(d)
      <4>1. a \in Nat /\ b \in Nat \ {0}
        BY <1>1 DEF Abs
      <4>2. r = a % b /\ t = a \div b
        BY Zenon DEF r, t
      <4> HIDE DEF a, b
      <4>3. a = b * t + r
        BY <4>1, <4>2, Euclid, a \in Int
      <4>4. PICK u \in Nat : u = b * t
        BY <1>2, <4>1
      <4>5. PICK v \in Int : v = r
        BY <1>5, Zenon
      <4>6. a = u + v
        BY <4>3, <4>4, <4>5, Zenon
      <4>7. v <= a
        BY <4>1, <4>6
      <4> QED BY <4>5, <4>7, Zenon DEF a
    <3>3. Abs(n - e) <= Abs(n)
      BY <1>1, <1>2, <2>1, <3>2 DEF Abs
    <3> QED BY <3>1, <3>3, Zenon
  <2> QED BY <2>2, <2>3, Zenon DEF e
<1>7. \A p \in (-H)..H : Good(p) => p = q
  <2>1. \A p \in (-H)..H : p \in Int
    BY <1>1
  <2> QED BY <1>2, <2>1, Zenon
<1>8. q = CHOOSE p \in (-H)..H : Good(p)
  <2> HIDE DEF Good
  <2> QED BY <1>4, <1>6, <1>7, Zenon
<1>9. q = Quotient(n, d)
  BY <1>8, Zenon DEF Quotient, H
<1> QED BY <1>2, <1>9, Zenon DEF t, r, q

\* Signed operations, for all words.
LEMMA SignedOpsExact ==
  ASSUME NEW x \in Word, NEW y \in Word
  PROVE  SignedExact(x, y)
<1> DEFINE n == Signed(x)
           d == Signed(y)
<1>1. n = S256(x) /\ n \in Signeds /\ d = S256(y) /\ d \in Signeds /\ (d = 0 <=> y = 0)
  BY S256Is, Zenon DEF Signeds
<1>2. n \in Int /\ d \in Int
  <2>1. Pow2[Bits - 1] \in Nat \ {0}
    BY WordIs, Zenon
  <2> HIDE DEF n, d
  <2> QED BY <1>1, <2>1 DEF Signeds
<1> HIDE DEF n, d
<1>3. y # 0 => Represents(opSdiv(x, y), Quotient(n, d)) /\ Represents(opSmod(x, y), n - d * Quotient(n, d))
  <2> SUFFICES ASSUME y # 0
               PROVE  /\ Represents(opSdiv(x, y), Quotient(n, d))
                      /\ Represents(opSmod(x, y), n - d * Quotient(n, d))
    BY Zenon
  <2>1. opSdiv(x, y) = U256((Abs(n) \div Abs(d)) * Sign(n * d < 0))
    BY <1>1, Zenon DEF opSdiv
  <2>2. opSmod(x, y) = U256((Abs(n) % Abs(d)) * Sign(n < 0))
    BY <1>1, Zenon DEF opSmod
  <2>3. /\ Quotient(n, d) \in Int
        /\ (Abs(n) \div Abs(d)) * Sign(n * d < 0) = Quotient(n, d)
        /\ (Abs(n) % Abs(d)) * Sign(n < 0) = n - d * Quotient(n, d)
    BY <1>1, QuotientIs, Zenon
  <2>4. n - d * Quotient(n, d) \in Int
    BY <1>2, <2>3
  <2> QED BY <2>1, <2>2, <2>3, <2>4, U256Is, Zenon
<1>4. y = 0 => opSdiv(x, y) = 0 /\ opSmod(x, y) = 0 /\ opMod(x, y) = 0
  BY <1>1, Zenon DEF opSdiv, opSmod, opMod
<1>5. opSlt(x, y) = (IF n < d THEN 1 ELSE 0) /\ opSgt(x, y) = (IF n > d THEN 1 ELSE 0)
  BY <1>1, Zenon DEF opSlt, opSgt
<1> QED BY <1>3, <1>4, <1>5, Zenon DEF SignedExact, n, d

-----------------------------------------------------------------------------
\* A word consists of whole bytes.
LEMMA BytesIs ==
  /\ Bytes \in Nat \ {0} /\ ByteBits \in Nat \ {0} /\ Bits \in Nat \ {0}
  /\ Bits = ByteBits * Bytes
<1>1. Bits \in Nat \ {0} /\ ByteBits \in Nat \ {0} /\ Bits % ByteBits = 0
  BY WordAssumption, Zenon
<1>2. Bits \in Int
  BY <1>1
<1>3. Bytes \in Int /\ Bits = ByteBits * Bytes + (Bits % ByteBits)
  BY <1>1, <1>2, Euclid, Zenon DEF Bytes
<1>4. Bits = ByteBits * Bytes
  BY <1>1, <1>3
<1>5. Bytes >= 1
  <2>1. ASSUME Bytes <= 0 PROVE FALSE
    <3>1. ByteBits * Bytes <= 0
      BY <1>1, <1>3, <2>1
    <3> QED BY <1>1, <1>4, <3>1
  <2> QED BY <1>3, <2>1
<1> QED BY <1>1, <1>3, <1>4, <1>5

\* One more bit of a remainder.
LEMMA HalfRemainder ==
  ASSUME NEW num \in Nat, NEW P \in Nat \ {0}
  PROVE  LET low == num % (2 * P)
         IN /\ low \in 0..(2 * P - 1)
            /\ low >= P => num % P = low - P /\ (num \div P) % 2 = 1
            /\ low < P => num % P = low /\ (num \div P) % 2 = 0
<1> DEFINE low == num % (2 * P)
<1>1. 2 * P \in Nat \ {0} /\ num \in Int
  OBVIOUS
<1>2. PICK q \in Int : num = (2 * P) * q + low /\ low \in 0..(2 * P - 1)
  BY <1>1, Euclid, Zenon
<1> HIDE DEF low
<1>3. ASSUME low >= P PROVE num % P = low - P /\ (num \div P) % 2 = 1
  <2>1. PICK u \in Int : u = 2 * q + 1
    OBVIOUS
  <2>2. PICK s \in 0..(P - 1) : s = low - P
    BY <1>2, <1>3
  <2>3. num = P * u + s
    BY <1>2, <2>1, <2>2
  <2>4. num % P = s /\ num \div P = u
    BY <2>3, Unique
  <2>5. u % 2 = 1
    BY <2>1
  <2> QED BY <2>2, <2>4, <2>5, Zenon
<1>4. ASSUME low < P PROVE num % P = low /\ (num \div P) % 2 = 0
  <2>1. PICK u \in Int : u = 2 * q
    OBVIOUS
  <2>2. low \in 0..(P - 1)
    BY <1>2, <1>4
  <2>3. num = P * u + low
    BY <1>2, <2>1, <2>2
  <2>4. num % P = low /\ num \div P = u
    BY <2>2, <2>3, Unique
  <2>5. u % 2 = 0
    BY <2>1
  <2> QED BY <2>4, <2>5, Zenon
<1> QED BY <1>2, <1>3, <1>4, Zenon DEF low

\* Division in two steps.
LEMMA DivDiv ==
  ASSUME NEW num \in Nat, NEW P \in Nat \ {0}, NEW R \in Nat \ {0}
  PROVE  /\ num \div P \in Nat
         /\ num \div P = (num \div (P * R)) * R + ((num \div P) % R)
<1>1. PICK u \in Int : u = num \div P
  BY Euclid, num \in Int
<1>2. PICK s \in 0..(P - 1) : num = P * u + s
  BY <1>1, Euclid, num \in Int, Zenon
<1>3. PICK v \in Int : v = u \div R
  BY Euclid
<1>4. PICK w \in 0..(R - 1) : u = R * v + w /\ w = u % R
  BY <1>3, Euclid, Zenon
<1>5. P * R \in Nat \ {0}
  <2>1. P * R >= P
    OBVIOUS
  <2> QED BY <2>1
<1>6. num = (P * R) * v + (P * w + s)
  <2>1. u = R * v + w
    BY <1>4, Zenon
  <2>2. P * u = (P * R) * v + P * w
    BY <2>1
  <2> QED BY <1>2, <2>2
<1>7. P * w + s \in 0..(P * R - 1)
  <2>1. w \in Nat /\ w <= R - 1 /\ s \in Nat /\ s <= P - 1
    BY <1>2, <1>4
  <2>2. P * w >= 0 /\ P * w <= P * (R - 1) /\ P * w \in Int
    BY <2>1
  <2>3. P * (R - 1) = P * R - P
    OBVIOUS
  <2> QED BY <1>5, <2>1, <2>2, <2>3
<1>8. num \div (P * R) = v
  BY <1>5, <1>6, <1>7, Unique, Zenon
<1>9. u \in Nat
  <2>1. ASSUME u <= -1 PROVE FALSE
    <3>1. P * u <= -P
      BY <2>1
    <3> QED BY <1>2, <3>1
  <2> QED BY <2>1
<1>10. u = v * R + w
  BY <1>4
<1> QED BY <1>1, <1>4, <1>8, <1>9, <1>10, Zenon

\* SIGNEXTEND, for all words.
LEMMA SignExtendIs ==
  ASSUME NEW back \in Word, NEW num \in Word
  PROVE  LET k == (back + 1) * ByteBits
             low == num % Pow2[k]
         IN IF k < Bits
            THEN Represents(opSignExtend(back, num), IF low >= Pow2[k - 1] THEN low - Pow2[k] ELSE low)
            ELSE opSignExtend(back, num) = num
<1> DEFINE k == (back + 1) * ByteBits
           low == num % Pow2[k]
           P == Pow2[k - 1]
<1>1. back \in Nat /\ num \in Nat
  BY S256Is, Zenon
<1>2. k < Bits <=> back < Bytes - 1
  <2>1. back + 1 < Bytes => k < Bits
    BY <1>1, BytesIs
  <2>2. ~(back + 1 < Bytes) => ~(k < Bits)
    BY <1>1, BytesIs
  <2>3. back + 1 < Bytes <=> back < Bytes - 1
    BY <1>1, BytesIs
  <2> HIDE DEF k
  <2> QED BY <2>1, <2>2, <2>3, Zenon
<1>3. CASE ~(k < Bits)
  <2> HIDE DEF k
  <2>1. opSignExtend(back, num) = num
    BY <1>2, <1>3, Zenon DEF opSignExtend
  <2> QED BY <1>3, <2>1, Zenon DEF k
<1>4. CASE k < Bits
  <2>1. back * ByteBits + ByteBits - 1 = k - 1 /\ k \in Nat \ {0} /\ k - 1 \in Nat /\ (k - 1) + 1 = k
    <3>1. k = back * ByteBits + ByteBits /\ back * ByteBits >= 0 /\ back * ByteBits \in Int
      BY <1>1, BytesIs
    <3> HIDE DEF k
    <3> QED BY <3>1, BytesIs
  <2> HIDE DEF k
  <2>2. P \in Nat \ {0} /\ Pow2[k] = 2 * P
    BY <2>1, Pow2Is, Zenon
  <2> HIDE DEF P
  <2>3. /\ low \in 0..(2 * P - 1)
        /\ low >= P => num % P = low - P /\ (num \div P) % 2 = 1
        /\ low < P => num % P = low /\ (num \div P) % 2 = 0
    BY <1>1, <2>2, HalfRemainder, Zenon
  <2> HIDE DEF low
  <2>4. opSignExtend(back, num) =
          IF (num \div P) % 2 = 1 THEN U256((num % P) - P) ELSE U256(num % P)
    BY <1>2, <1>4, <2>1, Zenon DEF opSignExtend, P
  <2>5. CASE low >= P
    <3>1. (low - P) - P = low - Pow2[k] /\ low - Pow2[k] \in Int
      BY <2>2, <2>3, <2>5
    <3>2. opSignExtend(back, num) = U256(low - Pow2[k])
      BY <2>3, <2>4, <2>5, <3>1, Zenon
    <3>3. Represents(opSignExtend(back, num), low - Pow2[k])
      BY <3>1, <3>2, U256Is, Zenon
    <3> QED BY <1>4, <2>5, <3>3, Zenon DEF k, low, P
  <2>6. CASE ~(low >= P)
    <3>1. low < P /\ low \in Int /\ 0 # 1
      BY <2>2, <2>3, <2>6
    <3>2. opSignExtend(back, num) = U256(low)
      BY <2>3, <2>4, <3>1, Zenon
    <3>3. Represents(opSignExtend(back, num), low)
      BY <3>1, <3>2, U256Is, Zenon
    <3> QED BY <1>4, <2>6, <3>3, Zenon DEF k, low, P
  <2> QED BY <2>5, <2>6, Zenon
<1> QED BY <1>3, <1>4, Zenon

\* The bytes of a word make it up again.
LEMMA BytesMakeWord ==
  ASSUME NEW num \in Word
  PROVE  LET word[t \in 0..Bytes] == IF t = 0 THEN 0 ELSE word[t - 1] * Pow2[ByteBits] + opByte(t - 1, num)
         IN word[Bytes] = num
<1> DEFINE D == 0..Bytes
           R == Pow2[ByteBits]
           Body(w) == [t \in D |-> IF t = 0 THEN 0 ELSE w[t - 1] * R + opByte(t - 1, num)]
           w == CHOOSE f : f = Body(f)
           Rest(t) == Pow2[ByteBits * (Bytes - t)]
           step == [p \in Nat \X Int |-> IF p[1] \in D /\ p[1] # 0 THEN p[2] * R + opByte(p[1] - 1, num) ELSE 0]
<1>1. num \in Nat /\ R \in Nat \ {0}
  BY S256Is, BytesIs, Pow2Is, ByteBits \in Nat
<1>2. ASSUME NEW t \in D
      PROVE  ByteBits * (Bytes - t) \in Nat /\ Rest(t) \in Nat \ {0}
  <2>1. Bytes - t \in Nat
    BY BytesIs
  <2>2. ByteBits * (Bytes - t) \in Nat
    BY <2>1, BytesIs
  <2> QED BY <2>2, Pow2Is, Zenon
<1>3. ASSUME NEW t \in D, t # 0
      PROVE  /\ t - 1 \in D /\ t - 1 < Bytes
             /\ opByte(t - 1, num) = (num \div Rest(t)) % R
             /\ num \div Rest(t) = (num \div Rest(t - 1)) * R + opByte(t - 1, num)
             /\ opByte(t - 1, num) \in Int
  <2>1. t - 1 \in D /\ t - 1 < Bytes /\ t \in Int
    BY <1>3, BytesIs
  <2>2. Bytes - 1 - (t - 1) = Bytes - t
    BY <2>1, BytesIs
  <2>3. opByte(t - 1, num) = (num \div Rest(t)) % R
    BY <2>1, <2>2, Zenon DEF opByte
  <2>4. Rest(t - 1) = Rest(t) * R
    <3>1. ByteBits * (Bytes - (t - 1)) = ByteBits * (Bytes - t) + ByteBits
      BY <2>1, BytesIs
    <3>2. ByteBits \in Nat
      BY BytesIs
    <3>3. Pow2[ByteBits * (Bytes - t) + ByteBits] = Rest(t) * R
      BY <1>2, <3>2, Pow2Is, Zenon
    <3> QED BY <3>1, <3>3, Zenon
  <2>5. num \div Rest(t) \in Nat /\ num \div Rest(t) = (num \div (Rest(t) * R)) * R + ((num \div Rest(t)) % R)
    BY <1>1, <1>2, DivDiv, Zenon
  <2>6. (num \div Rest(t)) % R \in Int
    <3> DEFINE u == num \div Rest(t)
    <3>1. u \in Int
      BY <2>5
    <3> HIDE DEF u
    <3>2. u % R \in 0..(R - 1)
      BY <1>1, <3>1, Euclid, Zenon
    <3>3. \A e \in 0..(R - 1) : e \in Int
      BY <1>1
    <3> QED BY <3>2, <3>3, Zenon DEF u
  <2> HIDE DEF Rest
  <2> QED BY <2>1, <2>3, <2>4, <2>5, <2>6, Zenon
<1>4. \E f : f = Body(f)
  <2>1. \A n \in Nat, v \in Int : step[<<n, v>>] = IF n \in D /\ n # 0 THEN v * R + opByte(n - 1, num) ELSE 0
    BY Zenon
  <2> HIDE DEF step
  <2>2. \A n \in Nat, v \in Int : step[<<n, v>>] \in Int
    <3> TAKE n \in Nat, v \in Int
    <3>1. \A b \in Int : v * R + b \in Int
      BY <1>1
    <3> QED BY <1>3, <2>1, <3>1, 0 \in Int, Zenon
  <2>3. Stepping(step, Int) /\ Segment(D) /\ 0 \in Int
    <3>1. Bytes \in Nat /\ 0 \in Int
      BY BytesIs
    <3> QED BY <2>2, <3>1, Zenon DEF Stepping, Segment
  <2> HIDE DEF D
  <2>4. PICK g : Follows(g, D, 0, step) /\ \A n \in D : g[n] \in Int
    BY <2>3, Recursion, Zenon
  <2>5. \A n \in D : n \in Nat
    BY BytesIs DEF D
  <2>6. \A n \in D : (IF n = 0 THEN 0 ELSE step[<<n, g[n - 1]>>])
                       = IF n = 0 THEN 0 ELSE g[n - 1] * R + opByte(n - 1, num)
    BY <1>3, <2>1, <2>4, <2>5, Zenon
  <2>7. g = Body(g)
    BY <2>4, <2>6, Zenon DEF Follows
  <2> QED BY <2>7, Zenon
<1>5. w = Body(w)
  BY <1>4, Zenon
<1> HIDE DEF w
<1>6. \A t \in D : w[t] = IF t = 0 THEN 0 ELSE w[t - 1] * R + opByte(t - 1, num)
  BY <1>5, Zenon
<1> DEFINE S == {t \in D : w[t] = num \div Rest(t)}
<1>7. 0 \in S
  <2>1. 0 \in D /\ ByteBits * (Bytes - 0) = Bits
    BY BytesIs
  <2>2. Rest(0) = Pow2[Bits]
    BY <2>1, Zenon
  <2>3. num \div Pow2[Bits] = 0
    <3>1. num \in 0..(Pow2[Bits] - 1) /\ Pow2[Bits] \in Nat \ {0}
      BY WordIs, Zenon DEF Word
    <3> QED BY <3>1
  <2> HIDE DEF Rest
  <2> QED BY <1>6, <2>1, <2>2, <2>3, Zenon
<1>8. \A t \in Nat : t < Bytes /\ t \in S => t + 1 \in S
  <2> TAKE t \in Nat
  <2> HAVE t < Bytes /\ t \in S
  <2>1. t + 1 \in D /\ t + 1 # 0 /\ (t + 1) - 1 = t
    BY BytesIs
  <2>2. w[t] = num \div Rest(t)
    BY Zenon
  <2> HIDE DEF Rest
  <2>3. w[t + 1] = w[t] * R + opByte(t, num)
    BY <1>6, <2>1, Zenon
  <2>4. num \div Rest(t + 1) = (num \div Rest(t)) * R + opByte(t, num)
    BY <1>3, <2>1, Zenon
  <2> QED BY <2>1, <2>2, <2>3, <2>4, Zenon
<1> HIDE DEF S
<1>9. \A t \in 0..Bytes : t \in S
  <2>1. Bytes \in Nat
    BY BytesIs
  <2> QED BY <1>7, <1>8, <2>1, Induction, Zenon
<1>10. w[Bytes] = num
  <2>1. Bytes \in 0..Bytes /\ ByteBits * (Bytes - Bytes) = 0
    BY BytesIs
  <2>2. num \div 1 = num
    <3>1. 1 \in Nat \ {0} /\ num \in Int /\ 0 \in 0..(1 - 1) /\ num = 1 * num + 0
      BY <1>1
    <3> QED BY <3>1, Unique, Zenon
  <2> QED BY <1>9, <2>1, <2>2, Pow2Is, Zenon DEF S
<1> QED BY <1>10, Zenon DEF w

\* Extension and bytes, for all words.
LEMMA ExtensionsExact ==
  ASSUME NEW back \in Word, NEW num \in Word
  PROVE  ExtensionExact(back, num)
<1>1. opByte(Bytes, num) = 0
  <2>1. ~(Bytes < Bytes)
    BY BytesIs
  <2> QED BY <2>1, Zenon DEF opByte
<1> QED BY <1>1, SignExtendIs, BytesMakeWord, Zenon DEF ExtensionExact

-----------------------------------------------------------------------------
\* Repeated multiplication modulo the range of words.
LEMMA RepeatedIs ==
  ASSUME NEW x \in Int, NEW y \in Nat
  PROVE  LET power[n \in 0..y] == IF n = 0 THEN 1 ELSE (x * power[n - 1]) % Pow2[Bits]
         IN power[y] = U256(Power(x)[y])
<1> DEFINE M == Pow2[Bits]
           D == 0..y
           Body(p) == [n \in D |-> IF n = 0 THEN 1 ELSE (x * p[n - 1]) % M]
           p == CHOOSE f : f = Body(f)
           X == Power(x)
           step == [q \in Nat \X Int |-> (x * q[2]) % M]
<1>1. M \in Nat \ {0} /\ 1 \in Word
  BY WordIs, 1 \in 0..(Pow2[Bits] - 1) DEF Word
<1>2. \A v \in Int : x * v \in Int /\ (x * v) % M \in Int
  <2> TAKE v \in Int
  <2>1. PICK u \in Int : u = x * v
    OBVIOUS
  <2> HIDE DEF M
  <2>2. u % M \in 0..(M - 1)
    BY <1>1, Euclid, Zenon
  <2>3. \A e \in 0..(M - 1) : e \in Int
    BY <1>1
  <2> QED BY <2>1, <2>2, <2>3, Zenon
<1>3. \E f : f = Body(f)
  <2>1. \A n \in Nat, v \in Int : step[<<n, v>>] = (x * v) % M
    BY Zenon
  <2> HIDE DEF step
  <2>2. Stepping(step, Int) /\ Segment(D)
    BY <1>2, <2>1, Zenon DEF Stepping, Segment
  <2>3. 1 \in Int
    OBVIOUS
  <2> HIDE DEF D
  <2>4. PICK g : Follows(g, D, 1, step) /\ \A n \in D : g[n] \in Int
    BY <2>2, <2>3, Recursion, Zenon
  <2>5. \A n \in D : n \in Nat /\ (n # 0 => n - 1 \in D)
    BY DEF D
  <2>6. \A n \in D : (IF n = 0 THEN 1 ELSE step[<<n, g[n - 1]>>])
                       = IF n = 0 THEN 1 ELSE (x * g[n - 1]) % M
    BY <2>1, <2>4, <2>5, Zenon
  <2>7. g = Body(g)
    BY <2>4, <2>6, Zenon DEF Follows
  <2> QED BY <2>7, Zenon
<1>4. p = Body(p)
  BY <1>3, Zenon
<1> HIDE DEF p
<1>5. \A n \in D : p[n] = IF n = 0 THEN 1 ELSE (x * p[n - 1]) % M
  BY <1>4, Zenon
<1>6. X[0] = 1 /\ \A n \in Nat : X[n + 1] = x * X[n] /\ X[n] \in Int
  BY PowerIs, Zenon
<1> HIDE DEF X
<1> DEFINE S == {n \in D : p[n] = U256(X[n])}
<1>7. 0 \in S
  <2>1. 0 \in D /\ 1 \in Int
    OBVIOUS
  <2>2. U256(1) = 1
    BY <1>1, <2>1, U256Is, Zenon
  <2> QED BY <1>5, <1>6, <2>1, <2>2, Zenon
<1>8. \A n \in Nat : n < y /\ n \in S => n + 1 \in S
  <2> TAKE n \in Nat
  <2> HAVE n < y /\ n \in S
  <2>1. n + 1 \in D /\ n + 1 # 0 /\ (n + 1) - 1 = n
    OBVIOUS
  <2>2. p[n + 1] = (x * U256(X[n])) % M
    BY <1>5, <2>1, Zenon
  <2>3. X[n] \in Int /\ U256(X[n]) \in Int /\ Cong(U256(X[n]), X[n], M) /\ Cong(x, x, M)
    BY <1>1, <1>6, U256Is, CongSelf, Zenon
  <2>4. x * U256(X[n]) \in Int /\ x * X[n] \in Int /\ Cong(x * U256(X[n]), x * X[n], M)
    <3> HIDE DEF M
    <3> QED BY <1>1, <1>2, <2>3, CongProduct, Zenon
  <2>5. (x * U256(X[n])) % M = (x * X[n]) % M
    <3> HIDE DEF M
    <3> QED BY <1>1, <2>4, CongMod, Zenon
  <2> QED BY <1>6, <2>1, <2>2, <2>5, Zenon DEF U256
<1> HIDE DEF S
<1>9. \A n \in 0..y : n \in S
  BY <1>7, <1>8, Induction, Zenon
<1>10. y \in 0..y
  OBVIOUS
<1>11. p[y] = U256(X[y])
  BY <1>9, <1>10, Zenon DEF S
<1> QED BY <1>11, Zenon DEF p, X

\* math.Exp computes powers modulo the range of words.
LEMMA ExpIs ==
  ASSUME NEW x \in Word, NEW y \in Word
  PROVE  Exp(x, y) = U256(Power(x)[y])
<1> DEFINE M == Pow2[Bits]
           D == 0..Bits
           V == [result : Int, base : Int]
           a == [result |-> 1, base |-> x]
           Turn(i, q) == [result |-> IF (y \div Pow2[i - 1]) % 2 = 1 THEN U256(q.result * q.base) ELSE q.result,
                          base |-> U256(q.base * q.base)]
           Body(f) == [i \in D |-> IF i = 0 THEN a ELSE Turn(i, f[i - 1])]
           loop == CHOOSE f : f = Body(f)
           X == Power(x)
           step == [q \in Nat \X V |-> Turn(q[1], q[2])]
<1>1. M \in Nat \ {0} /\ 1 \in Word /\ x \in Int /\ y \in Nat /\ Bits \in Nat
  <2>1. x \in Nat /\ y \in Nat
    BY S256Is, Zenon
  <2> QED BY <2>1, WordIs, BytesIs, 1 \in 0..(Pow2[Bits] - 1) DEF Word
<1>2. ASSUME NEW i, NEW q \in V
      PROVE  q.result \in Int /\ q.base \in Int /\ Turn(i, q) \in V
  <2>1. q.result \in Int /\ q.base \in Int
    OBVIOUS
  <2>2. q.result * q.base \in Int /\ q.base * q.base \in Int
    BY <2>1
  <2>3. U256(q.result * q.base) \in Int /\ U256(q.base * q.base) \in Int
    BY <2>2, U256Is, Zenon
  <2>4. \A r, b \in Int : [result |-> r, base |-> b] \in V
    BY Zenon
  <2> QED BY <2>1, <2>3, <2>4, Zenon
<1>3. a \in V
  BY <1>1, 1 \in Int
<1> HIDE DEF a
<1>4. \E f : f = Body(f)
  <2> HIDE DEF V, Turn
  <2>1. \A n \in Nat, v \in V : step[<<n, v>>] = Turn(n, v)
    BY Zenon
  <2> HIDE DEF step
  <2>2. Segment(D)
    BY <1>1, Zenon DEF Segment
  <2>3. Stepping(step, V)
    BY <1>2, <2>1, Zenon DEF Stepping
  <2> HIDE DEF D
  <2>4. PICK g : Follows(g, D, a, step) /\ \A n \in D : g[n] \in V
    BY <1>3, <2>2, <2>3, Recursion, Zenon
  <2>5. \A n \in D : n \in Nat /\ (n # 0 => n - 1 \in D)
    BY <1>1 DEF D
  <2>6. \A n \in D : (IF n = 0 THEN a ELSE step[<<n, g[n - 1]>>]) = IF n = 0 THEN a ELSE Turn(n, g[n - 1])
    BY <2>1, <2>4, <2>5, Zenon
  <2>7. g = Body(g)
    BY <2>4, <2>6, Zenon DEF Follows
  <2> QED BY <2>7, Zenon
<1>5. loop = Body(loop)
  BY <1>4, Zenon
<1>6. Exp(x, y) = loop[Bits].result
  BY Zenon DEF Exp, a
<1> HIDE DEF loop
<1>7. \A i \in D : loop[i] = IF i = 0 THEN a ELSE Turn(i, loop[i - 1])
  BY <1>5, Zenon
<1>8. X[0] = 1 /\ \A n \in Nat : X[n + 1] = x * X[n] /\ X[n] \in Int
  BY <1>1, PowerIs, Zenon
<1>9. \A k, m \in Nat : X[k + m] = X[k] * X[m]
  BY <1>1, PowerSum, Zenon
<1> HIDE DEF X
<1> DEFINE S == {i \in D : /\ loop[i].result = U256(X[y % Pow2[i]])
                          /\ loop[i].base \in Int /\ Cong(loop[i].base, X[Pow2[i]], M)}
<1>10. 0 \in S
  <2>1. 0 \in D /\ y % 1 = 0 /\ 1 \in Int /\ 0 \in Nat /\ 0 + 1 = 1 /\ x * 1 = x
    BY <1>1
  <2>2. loop[0].result = 1 /\ loop[0].base = x
    <3>1. loop[0] = a
      BY <1>7, <2>1, Zenon
    <3> QED BY <3>1 DEF a
  <2>3. Pow2[0] = 1 /\ U256(1) = 1
    BY <1>1, <2>1, Pow2Is, U256Is, Zenon
  <2>4. X[1] = x
    BY <1>8, <2>1, Zenon
  <2>5. Cong(x, x, M)
    BY <1>1, CongSelf, Zenon
  <2> HIDE DEF D, M
  <2> QED BY <1>1, <1>8, <2>1, <2>2, <2>3, <2>4, <2>5, Zenon
<1>11. \A i \in Nat : i < Bits /\ i \in S => i + 1 \in S
  <2> TAKE i \in Nat
  <2> HAVE i < Bits /\ i \in S
  <2> DEFINE q == loop[i]
             P == Pow2[i]
             m == y % P
  <2>1. i + 1 \in D /\ i + 1 # 0 /\ (i + 1) - 1 = i /\ i \in D
    BY <1>1
  <2>2. /\ q.result = U256(X[m])
        /\ q.base \in Int /\ Cong(q.base, X[P], M)
    BY Zenon
  <2>3. P \in Nat \ {0} /\ Pow2[i + 1] = 2 * P
    BY Pow2Is, Zenon
  <2>4. loop[i + 1] = Turn(i + 1, q)
    BY <1>7, <2>1, Zenon
  <2>5. /\ loop[i + 1].result = IF (y \div P) % 2 = 1 THEN U256(q.result * q.base) ELSE q.result
        /\ loop[i + 1].base = U256(q.base * q.base)
    <3> DEFINE b == (y \div Pow2[(i + 1) - 1]) % 2
    <3>1. /\ Turn(i + 1, q).result = IF b = 1 THEN U256(q.result * q.base) ELSE q.result
          /\ Turn(i + 1, q).base = U256(q.base * q.base)
      <4> HIDE DEF q
      <4> QED BY Zenon
    <3>2. b = (y \div P) % 2
      BY <2>1, Zenon
    <3> HIDE DEF Turn, b, q, P
    <3> QED BY <2>4, <3>1, <3>2, Zenon
  <2> HIDE DEF q, P, M
  <2>6. /\ y % (2 * P) \in 0..(2 * P - 1)
        /\ y % (2 * P) >= P => m = (y % (2 * P)) - P /\ (y \div P) % 2 = 1
        /\ y % (2 * P) < P => m = y % (2 * P) /\ (y \div P) % 2 = 0
    BY <1>1, <2>3, HalfRemainder, Zenon
  <2>7. m \in Nat
    <3>1. m \in 0..(P - 1)
      BY <1>1, <2>3, Euclid, y \in Int, Zenon
    <3> HIDE DEF m
    <3> QED BY <2>3, <3>1
  <2> HIDE DEF m
  <2>8. y % (2 * P) = IF (y \div P) % 2 = 1 THEN m + P ELSE m
    <3> DEFINE e == y % (2 * P)
               b == (y \div P) % 2
    <3>1. /\ e \in 0..(2 * P - 1)
          /\ e >= P => m = e - P /\ b = 1
          /\ e < P => m = e /\ b = 0
      BY <2>6, Zenon
    <3> HIDE DEF e, b
    <3>2. e = IF b = 1 THEN m + P ELSE m
      BY <2>3, <2>7, <3>1
    <3> QED BY <3>2, Zenon DEF e, b
  <2>9. m + P \in Nat /\ P \in Nat /\ P + P = 2 * P
    BY <2>3, <2>7
  <2>10. X[m] \in Int /\ X[P] \in Int /\ X[m] * X[P] \in Int /\ X[P] * X[P] \in Int
    <3>1. X[m] \in Int /\ X[P] \in Int
      BY <1>8, <2>7, <2>9, Zenon
    <3> QED BY <3>1
  <2>11. q.result \in Int /\ Cong(q.result, X[m], M)
    BY <2>2, <2>10, U256Is, Zenon DEF M
  <2>12. q.result * q.base \in Int /\ q.base * q.base \in Int
    BY <2>2, <2>11
  <2>13. Cong(q.result * q.base, X[m] * X[P], M) /\ Cong(q.base * q.base, X[P] * X[P], M)
    BY <1>1, <2>2, <2>10, <2>11, CongProduct, Zenon
  <2>14. loop[i + 1].result = U256(X[y % Pow2[i + 1]])
    <3>1. CASE (y \div P) % 2 = 1
      <4>1. X[y % Pow2[i + 1]] = X[m] * X[P]
        <5>1. y % Pow2[i + 1] = m + P
          BY <2>3, <2>8, <3>1, Zenon
        <5>2. X[m + P] = X[m] * X[P]
          BY <1>9, <2>7, <2>9, Zenon
        <5> QED BY <5>1, <5>2, Zenon
      <4>2. (q.result * q.base) % M = (X[m] * X[P]) % M
        BY <1>1, <2>10, <2>12, <2>13, CongMod, Zenon
      <4> QED BY <2>5, <3>1, <4>1, <4>2, Zenon DEF U256, M
    <3>2. CASE (y \div P) % 2 # 1
      BY <2>2, <2>3, <2>5, <2>8, <3>2, Zenon
    <3> QED BY <3>1, <3>2, Zenon
  <2>15. loop[i + 1].base \in Int /\ Cong(loop[i + 1].base, X[Pow2[i + 1]], M)
    <3>1. X[P + P] = X[P] * X[P] /\ Pow2[i + 1] = P + P
      BY <1>9, <2>3, <2>9, Zenon
    <3>2. U256(q.base * q.base) \in Int /\ Cong(U256(q.base * q.base), q.base * q.base, M)
      BY <2>12, U256Is, Zenon DEF M
    <3>3. Cong(U256(q.base * q.base), X[P] * X[P], M)
      <4> DEFINE b == q.base * q.base
                 c == U256(b)
                 d == X[P] * X[P]
      <4>1. c \in Int /\ b \in Int /\ d \in Int /\ Cong(c, b, M) /\ Cong(b, d, M)
        BY <2>10, <2>12, <2>13, <3>2, Zenon
      <4> HIDE DEF b, c, d
      <4>2. Cong(c, d, M)
        BY <1>1, <4>1, CongTrans
      <4> QED BY <4>2, Zenon DEF b, c, d
    <3> QED BY <2>5, <3>1, <3>2, <3>3, Zenon
  <2> QED BY <2>1, <2>14, <2>15, Zenon
<1> HIDE DEF S
<1>12. \A i \in 0..Bits : i \in S
  BY <1>1, <1>10, <1>11, Induction, Zenon
<1>13. Bits \in 0..Bits
  BY <1>1
<1>14. loop[Bits].result = U256(X[y % M])
  BY <1>12, <1>13, Zenon DEF S
<1>15. y % M = y
  <2>1. U256(y) = y
    BY <1>1, U256Is, y \in Int, Zenon
  <2> QED BY <2>1, Zenon DEF U256
<1> QED BY <1>6, <1>14, <1>15, Zenon DEF X

\* Powers and modular operations, for all words.
LEMMA ModularExact ==
  ASSUME NEW x \in Word, NEW y \in Word, NEW z \in Word
  PROVE  PowersExact(x, y, z)
<1>1. x \in Int /\ y \in Nat /\ z \in Nat
  <2>1. x \in Nat /\ y \in Nat /\ z \in Nat
    BY S256Is, Zenon
  <2> QED BY <2>1
<1>2. LET power[n \in 0..y] == IF n = 0 THEN 1 ELSE (x * power[n - 1]) % Pow2[Bits]
      IN Exp(x, y) = power[y]
  BY <1>1, RepeatedIs, ExpIs, ZenonT(30)
<1>3. ASSUME NEW r \in Int, z # 0
      PROVE  U256(r % z) \in 0..(z - 1) /\ (r - U256(r % z)) % z = 0
  <2>1. z \in Nat \ {0}
    BY <1>1, <1>3
  <2>2. r % z \in 0..(z - 1) /\ Cong(r % z, r, z)
    BY <2>1, Euclid, CongSelf, Zenon
  <2>3. PICK t \in 0..(z - 1) : t = r % z
    BY <2>2, Zenon
  <2>4. t \in Word /\ t \in Int
    BY <2>1, WordIs DEF Word
  <2>5. U256(t) = t
    BY <2>4, U256Is, Zenon
  <2>6. PICK k \in Int : t = r + z * k
    BY <2>2, <2>3, Zenon DEF Cong
  <2>7. r = t + z * (-k) /\ -k \in Int
    BY <2>1, <2>4, <2>6
  <2>8. Cong(r, t, z)
    BY <2>7, Zenon DEF Cong
  <2>9. (r - t) % z = 0
    BY <2>1, <2>4, <2>8, CongMinus, Zenon
  <2> QED BY <2>3, <2>5, <2>9, Zenon
<1>4. x + y \in Int /\ x * y \in Int /\ (z # 0 => z > 0) /\ ~(0 > 0)
  BY <1>1
<1>5. z # 0 => opAddmod(x, y, z) \in 0..(z - 1) /\ (x + y - opAddmod(x, y, z)) % z = 0
  <2>1. z # 0 => opAddmod(x, y, z) \in 0..(z - 1) /\ ((x + y) - opAddmod(x, y, z)) % z = 0
    BY <1>3, <1>4, Zenon DEF opAddmod
  <2>2. \A u \in 0..(z - 1) : (x + y) - u = x + y - u
    BY <1>1
  <2> QED BY <2>1, <2>2, Zenon
<1>6. z # 0 => opMulmod(x, y, z) \in 0..(z - 1) /\ (x * y - opMulmod(x, y, z)) % z = 0
  BY <1>3, <1>4, Zenon DEF opMulmod
<1>7. z = 0 => opAddmod(x, y, z) = 0 /\ opMulmod(x, y, z) = 0
  BY <1>4, Zenon DEF opAddmod, opMulmod
<1> QED BY <1>2, <1>5, <1>6, <1>7, Zenon DEF PowersExact

(* For every width of words and bytes: the overflow taint of ADD, SUB, MUL *)
(* and DIV is set exactly when the exact result is not a word, SDIV, SMOD, *)
(* SLT, SGT, SIGNEXTEND and BYTE agree with the signed numbers and the     *)
(* bytes of their operands, and EXP, ADDMOD and MULMOD with powers and     *)
(* remainders.                                                             *)
THEOREM ArithmeticIsExact == WordsSpec => []ArithmeticExact
<1>1. WordsInit => ArithmeticExact
  <2> SUFFICES ASSUME WordsInit PROVE ArithmeticExact
    OBVIOUS
  <2>1. arg[1] \in Word /\ arg[2] \in Word /\ arg[3] \in Moduli
    BY DEF WordsInit
  <2>2. arg[3] \in Word
    BY <2>1, WordAssumption, Zenon
  <2> QED BY <2>1, <2>2, TaintsExact, SignedOpsExact, ExtensionsExact, ModularExact, Zenon DEF ArithmeticExact
<1>2. ArithmeticExact /\ [FALSE]_arg => ArithmeticExact'
  <2> SUFFICES ASSUME ArithmeticExact, arg' = arg PROVE ArithmeticExact'
    OBVIOUS
  <2> QED BY Zenon DEF ArithmeticExact
<1> QED BY <1>1, <1>2, PTL DEF WordsSpec
=============================================================================
