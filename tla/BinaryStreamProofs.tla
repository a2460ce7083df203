--------------------------- MODULE BinaryStreamProofs ---------------------------
(***************************************************************************)
(* What the MessagePack and CBOR codecs of all six ports guarantee, for    *)
(* every set of values, any base and fixed-length bounds, any way the      *)
(* input is cut and read, and every pair of ports.                         *)
(*                                                                         *)
(* The recursive definitions are functions, and what they compute is       *)
(* proved by induction over the set of the numbers for which it holds,     *)
(* since the library's induction rules take an operator and cannot be      *)
(* instantiated by the provers.                                            *)
(***************************************************************************)
EXTENDS BinaryStream, SequenceTheorems, FiniteSetTheorems, WellFoundedInduction, TLAPS

-----------------------------------------------------------------------------
(***************************************************************************)
(* Induction, and functions defined by it.                                 *)
(***************************************************************************)
\* A set of numbers that is not empty has a least element.
LEMMA LeastOf ==
    ASSUME NEW T \in SUBSET Nat, T # {}
    PROVE  \E m \in T : \A k \in T : m <= k
<1>. DEFINE Below == OpToRel(<, Nat)
<1>1. IsWellFoundedOn(Below, Nat)
  BY NatLessThanWellFounded
<1>2. \A x, y \in Nat : <<x, y>> \in Below <=> x < y
  BY DEF OpToRel
<1>. HIDE DEF Below
<1>3. PICK m \in T : \A y \in T : ~(<<y, m>> \in Below)
  BY <1>1, WFMin
<1>4. ASSUME NEW y \in T
      PROVE  m <= y
  <2>1. y \in Nat /\ m \in Nat /\ ~(y < m)
    BY <1>2, <1>3
  <2>. QED
    BY <2>1
<1>. QED
  BY <1>3, <1>4

\* A set of numbers with 0 and the successors of its members has them all.
LEMMA Induction ==
    ASSUME NEW G \in SUBSET Nat, 0 \in G, \A n \in G : n + 1 \in G
    PROVE  G = Nat
<1>. SUFFICES ASSUME Nat \ G # {} PROVE FALSE
  OBVIOUS
<1>1. PICK m \in Nat \ G : \A k \in Nat \ G : m <= k
  BY LeastOf
<1>2. m - 1 \in Nat
  BY <1>1
<1>3. m - 1 \in G
  BY <1>1, <1>2
<1>4. (m - 1) + 1 = m
  BY <1>1
<1>. QED
  BY <1>1, <1>3, <1>4

\* The same up to a bound.
LEMMA InductionUpTo ==
    ASSUME NEW n \in Nat, NEW G, 0 \in G, \A k \in 0..n - 1 : k \in G => k + 1 \in G
    PROVE  \A k \in 0..n : k \in G
<1>. DEFINE H == {k \in Nat : k <= n => k \in G}
<1>1. 0 \in H
  OBVIOUS
<1>2. ASSUME NEW k \in H PROVE k + 1 \in H
  <2>1. k \in Nat /\ k + 1 \in Nat
    OBVIOUS
  <2>2. ASSUME k + 1 <= n PROVE k + 1 \in G
    <3>1. k \in 0..n - 1 /\ k <= n
      BY <2>1, <2>2
    <3>2. k \in G
      BY <3>1
    <3>. QED
      BY <3>1, <3>2
  <2>. QED
    BY <2>1, <2>2
<1>3. H = Nat
  <2>1. H \in SUBSET Nat
    OBVIOUS
  <2>. HIDE DEF H
  <2>. QED
    BY <1>1, <1>2, <2>1, Induction
<1>4. ASSUME NEW k \in 0..n PROVE k \in G
  <2>1. k \in H /\ k <= n
    BY <1>3
  <2>. QED
    BY <2>1
<1>. QED
  BY <1>4

\* A function can be defined by what its first value is and how each follows
\* from the one before.
Follows(n, X, x, step) ==
    n \in Nat /\ x \in X /\ step \in [(1..n) \X X -> X]
Unfolds(g, n, X, x, step) ==
    /\ g \in [0..n -> X] /\ g[0] = x
    /\ \A i \in 1..n : g[i] = step[<<i, g[i - 1]>>]

\* There is such a function.
LEMMA Recursion ==
    ASSUME NEW n, NEW X, NEW x, NEW step, Follows(n, X, x, step)
    PROVE  \E g : Unfolds(g, n, X, x, step)
<1>. n \in Nat /\ x \in X /\ step \in [(1..n) \X X -> X]
  BY DEF Follows
<1>. DEFINE Good(g, k) == /\ g \in [0..k -> X] /\ g[0] = x
                          /\ \A i \in 1..k : g[i] = step[<<i, g[i - 1]>>]
<1>. DEFINE G == {k \in Nat : \E g : Good(g, k)}
<1>1. 0 \in G
  <2>. DEFINE g == [i \in 0..0 |-> x]
  <2>1. g \in [0..0 -> X] /\ g[0] = x /\ 1..0 = {}
    OBVIOUS
  <2>2. Good(g, 0)
    BY <2>1
  <2>. QED
    BY <2>2
<1>2. ASSUME NEW k \in 0..n - 1, k \in G PROVE k + 1 \in G
  <2>1. PICK g : Good(g, k)
    BY <1>2
  <2>2. k \in Nat /\ k + 1 \in 1..n /\ k \in 0..k
    OBVIOUS
  <2>3. g[k] \in X /\ <<k + 1, g[k]>> \in (1..n) \X X
    BY <2>1, <2>2
  <2>4. step[<<k + 1, g[k]>>] \in X
    BY <2>3
  <2>. DEFINE y == step[<<k + 1, g[k]>>]
              h == [i \in 0..k + 1 |-> IF i = k + 1 THEN y ELSE g[i]]
  <2>5. h \in [0..k + 1 -> X]
    <3>1. ASSUME NEW i \in 0..k + 1, i # k + 1 PROVE g[i] \in X
      <4>1. i \in 0..k
        BY <2>2, <3>1
      <4>. QED
        BY <2>1, <4>1
    <3>. QED
      BY <2>4, <3>1
  <2>6. h[0] = x
    BY <2>1, <2>2
  <2>7. ASSUME NEW i \in 1..k + 1 PROVE h[i] = step[<<i, h[i - 1]>>]
    <3>1. i \in 0..k + 1 /\ i - 1 \in 0..k + 1 /\ i - 1 # k + 1
      BY <2>2
    <3>2. h[i - 1] = g[i - 1]
      BY <3>1
    <3>3. CASE i = k + 1
      <4>1. i - 1 = k
        BY <2>2, <3>3
      <4>. QED
        BY <3>1, <3>2, <3>3, <4>1
    <3>4. CASE i # k + 1
      <4>1. i \in 1..k
        BY <2>2, <3>4
      <4>2. h[i] = g[i] /\ g[i] = step[<<i, g[i - 1]>>]
        BY <2>1, <3>1, <3>4, <4>1
      <4>. QED
        BY <3>2, <4>2
    <3>. QED
      BY <3>3, <3>4
  <2>. HIDE DEF h
  <2>8. Good(h, k + 1)
    BY <2>5, <2>6, <2>7
  <2>. QED
    BY <2>2, <2>8
<1>3. \A k \in 0..n : k \in G
  <2>. HIDE DEF G
  <2>. QED
    BY <1>1, <1>2, InductionUpTo
<1>4. n \in G
  BY <1>3
<1>. QED
  BY <1>4 DEF Unfolds

-----------------------------------------------------------------------------
\* The powers of the base.
LEMMA Powers ==
    /\ Power \in [0..8 -> Nat] /\ Power[0] = 1
    /\ \A w \in 1..8 : Power[w] = Base * Power[w - 1]
<1>. DEFINE step == [p \in (1..8) \X Nat |-> Base * p[2]]
<1>0. Base \in Nat
  BY BaseAssumption
<1>1. step \in [(1..8) \X Nat -> Nat]
  BY <1>0
<1>2. PICK g : Unfolds(g, 8, Nat, 1, step)
  <2>. HIDE DEF step
  <2>1. Follows(8, Nat, 1, step)
    BY <1>1 DEF Follows
  <2>. QED
    BY ONLY <2>1, Recursion
<1>3. ASSUME NEW i \in 1..8 PROVE g[i] = Base * g[i - 1]
  <2>1. i - 1 \in 0..8
    OBVIOUS
  <2>2. <<i, g[i - 1]>> \in (1..8) \X Nat
    BY <1>2, <2>1 DEF Unfolds
  <2>. QED
    BY <1>2, <2>2 DEF Unfolds
<1>4. g = [w \in 0..8 |-> IF w = 0 THEN 1 ELSE Base * g[w - 1]]
  <2>1. ASSUME NEW w \in 0..8 PROVE g[w] = IF w = 0 THEN 1 ELSE Base * g[w - 1]
    <3>1. CASE w = 0
      BY <1>2, <3>1 DEF Unfolds
    <3>2. CASE w # 0
      <4>1. w \in 1..8
        BY <3>2
      <4>. QED
        BY <1>3, <3>2, <4>1
    <3>. QED
      BY <3>1, <3>2
  <2>. QED
    BY <1>2, <2>1 DEF Unfolds
<1>5. Power = [w \in 0..8 |-> IF w = 0 THEN 1 ELSE Base * Power[w - 1]]
  BY <1>4, Zenon DEF Power
<1>. QED
  <2>. DEFINE P == Power
  <2>. HIDE DEF P
  <2>1. P = [w \in 0..8 |-> IF w = 0 THEN 1 ELSE Base * P[w - 1]]
    BY <1>5 DEF P
  <2>2. P[0] = 1
    BY <2>1
  <2>3. \A w \in 1..8 : P[w] = Base * P[w - 1]
    BY <2>1
  <2>. DEFINE G == {w \in 0..8 : P[w] \in Nat}
  <2>4. 0 \in G
    BY <2>2
  <2>5. ASSUME NEW k \in 0..8 - 1, k \in G PROVE k + 1 \in G
    <3>1. k + 1 \in 1..8 /\ (k + 1) - 1 = k /\ P[k] \in Nat
      BY <2>5
    <3>2. P[k + 1] = Base * P[k]
      BY <2>3, <3>1
    <3>3. P[k + 1] \in Nat
      BY <1>0, <3>1, <3>2
    <3>. QED
      BY <3>1, <3>3
  <2>6. \A k \in 0..8 : k \in G
    <3>. HIDE DEF G
    <3>1. 8 \in Nat
      OBVIOUS
    <3>. QED
      BY <2>4, <2>5, <3>1, InductionUpTo
  <2>7. P \in [0..8 -> Nat]
    BY <2>1, <2>6
  <2>. QED
    BY <2>2, <2>3, <2>7 DEF P

\* Each of them is a number of ways, and even but for the first.
LEMMA PowerFacts ==
    /\ Base \in Nat \ {0}
    /\ \A w \in 0..8 : Power[w] \in Nat \ {0}
    /\ \A w \in 1..8 : /\ Power[w] \div 2 \in Nat
                       /\ 2 * (Power[w] \div 2) = Power[w]
                       /\ Power[w - 1] <= Power[w]
    /\ Power[4] <= Power[8]
<1>1. Base \in Nat \ {0} /\ Base % 2 = 0
  BY BaseAssumption
<1>2. /\ Power \in [0..8 -> Nat] /\ Power[0] = 1
      /\ \A w \in 1..8 : Power[w] = Base * Power[w - 1]
  BY Powers
<1>. DEFINE P == Power
<1>. HIDE DEF P
<1>3. /\ P \in [0..8 -> Nat] /\ P[0] = 1
      /\ \A w \in 1..8 : P[w] = Base * P[w - 1]
  BY <1>2 DEF P
<1>4. \A w \in 0..8 : P[w] \in Nat \ {0}
  <2>. DEFINE G == {w \in 0..8 : P[w] \in Nat \ {0}}
  <2>1. 0 \in G
    BY <1>3
  <2>2. ASSUME NEW k \in 0..8 - 1, k \in G PROVE k + 1 \in G
    <3>1. k + 1 \in 1..8 /\ (k + 1) - 1 = k /\ P[k] \in Nat \ {0}
      BY <2>2
    <3>2. P[k + 1] = Base * P[k]
      BY <1>3, <3>1
    <3>3. P[k + 1] \in Nat \ {0}
      BY <1>1, <3>1, <3>2
    <3>. QED
      BY <3>1, <3>3
  <2>3. \A k \in 0..8 : k \in G
    <3>. HIDE DEF G
    <3>1. 8 \in Nat
      OBVIOUS
    <3>. QED
      BY <2>1, <2>2, <3>1, InductionUpTo
  <2>. QED
    BY <2>3
<1>5. ASSUME NEW w \in 1..8
      PROVE  /\ P[w] \div 2 \in Nat /\ 2 * (P[w] \div 2) = P[w]
             /\ P[w - 1] <= P[w]
  <2>. DEFINE a == P[w - 1]  b == Base \div 2
  <2>1. a \in Nat \ {0} /\ P[w] = Base * a /\ P[w] \in Nat \ {0}
    BY <1>3, <1>4
  <2>2. b \in Nat /\ Base = 2 * b
    BY <1>1
  <2>. HIDE DEF a, b
  <2>3. b * a \in Nat
    BY <2>1, <2>2
  <2>4. P[w] = 2 * (b * a)
    BY <2>1, <2>2
  <2>5. a <= Base * a
    BY <1>1, <2>1
  <2>. QED
    BY <2>1, <2>3, <2>4, <2>5 DEF a
<1>6. P[4] <= P[8]
  <2>1. /\ P[4] <= P[5] /\ P[5] <= P[6] /\ P[6] <= P[7] /\ P[7] <= P[8]
    <3>1. \A w \in 1..8 : P[w - 1] <= P[w]
      BY <1>5
    <3>2. 5 \in 1..8 /\ 6 \in 1..8 /\ 7 \in 1..8 /\ 8 \in 1..8
      OBVIOUS
    <3>3. 5 - 1 = 4 /\ 6 - 1 = 5 /\ 7 - 1 = 6 /\ 8 - 1 = 7
      OBVIOUS
    <3>. QED
      BY <3>1, <3>2, <3>3
  <2>2. /\ P[4] \in Nat /\ P[5] \in Nat /\ P[6] \in Nat /\ P[7] \in Nat
        /\ P[8] \in Nat
    BY <1>4
  <2>. QED
    BY <2>1, <2>2
<1>. QED
  BY <1>1, <1>4, <1>5, <1>6 DEF P

\* Division is determined by its remainder.
LEMMA DivisionIs ==
    ASSUME NEW d \in Nat \ {0}, NEW q \in Int, NEW r \in 0..d - 1
    PROVE  (d * q + r) \div d = q /\ (d * q + r) % d = r
<1>. DEFINE m == d * q + r  k == m \div d  e == m % d
<1>1. m \in Int /\ d * q \in Int
  OBVIOUS
<1>2. k \in Int /\ e \in 0..d - 1 /\ m = d * k + e
  <2>. HIDE DEF m
  <2>. QED
    BY <1>1
<1>3. m = d * q + r
  OBVIOUS
<1>. HIDE DEF m, k, e
<1>4. d * (q - k) = e - r /\ d * (q - k) \in Int
  <2>1. d * (q - k) = d * q - d * k
    BY <1>2
  <2>. QED
    BY <1>1, <1>2, <1>3, <2>1
<1>5. q - k < 1
  <2>1. SUFFICES ASSUME q - k >= 1 PROVE FALSE
    BY <1>2
  <2>2. d * (q - k) >= d
    BY <1>2, <2>1
  <2>. QED
    BY <1>2, <1>4, <2>2
<1>6. q - k > -1
  <2>1. SUFFICES ASSUME q - k <= -1 PROVE FALSE
    BY <1>2
  <2>2. d * (q - k) <= -d
    BY <1>2, <2>1
  <2>. QED
    BY <1>2, <1>4, <2>2
<1>7. q = k
  BY <1>2, <1>5, <1>6
<1>8. e = r
  BY <1>2, <1>3, <1>7
<1>. QED
  BY <1>7, <1>8 DEF k, e, m

\* Dividing twice is dividing by the product.
LEMMA DivideTwice ==
    ASSUME NEW m \in Nat, NEW p \in Nat \ {0}, NEW b \in Nat \ {0}
    PROVE  m \div (b * p) = (m \div p) \div b
<1>. DEFINE q == m \div p  r == m % p  k == q \div b  s == q % b
<1>1. q \in Nat /\ r \in 0..p - 1 /\ m = p * q + r
  OBVIOUS
<1>2. k \in Nat /\ s \in 0..b - 1 /\ q = b * k + s
  <2>. HIDE DEF q
  <2>. QED
    BY <1>1
<1>. HIDE DEF q, r, k, s
<1>3. b * p \in Nat \ {0} /\ p * s + r \in Nat /\ b * k \in Nat /\ p * s \in Nat
  BY <1>1, <1>2
<1>4. m = (b * p) * k + (p * s + r)
  <2>1. p * q = p * (b * k) + p * s
    BY <1>1, <1>2, <1>3
  <2>2. p * (b * k) = (b * p) * k
    BY <1>2
  <2>. QED
    BY <1>1, <1>2, <1>3, <2>1, <2>2
<1>5. p * s + r < b * p
  <2>1. p * s <= p * (b - 1)
    BY <1>2
  <2>2. p * (b - 1) = b * p - p
    OBVIOUS
  <2>. QED
    BY <1>1, <1>2, <1>3, <2>1, <2>2
<1>. DEFINE d == b * p  t == p * s + r
<1>6. d \in Nat \ {0} /\ t \in 0..d - 1
  BY <1>3, <1>5
<1>7. m = d * k + t
  BY <1>4
<1>. HIDE DEF d, t
<1>8. m \div d = k
  BY <1>2, <1>6, <1>7, DivisionIs
<1>. QED
  BY <1>8 DEF d, k, q

\* Quotient and remainder.
LEMMA Division ==
    ASSUME NEW m \in Int, NEW d \in Nat \ {0}
    PROVE  /\ m % d \in 0..d - 1 /\ m \div d \in Int
           /\ m = d * (m \div d) + (m % d)
           /\ m \in Nat => m \div d \in Nat
           /\ m \in 0..d - 1 => m \div d = 0
<1>1. m % d \in 0..d - 1 /\ m \div d \in Int
  OBVIOUS
<1>2. m = d * (m \div d) + (m % d)
  OBVIOUS
<1>3. ASSUME m \in Nat PROVE m \div d \in Nat
  BY <1>3
<1>4. ASSUME m \in 0..d - 1 PROVE m \div d = 0
  BY <1>4
<1>. QED
  BY <1>1, <1>2, <1>3, <1>4

\* What Number computes, place by place.
LEMMA NumberUnfolds ==
    ASSUME NEW bytes, Len(bytes) \in Nat, \A i \in 1..Len(bytes) : bytes[i].n \in Int
    PROVE  \E g : /\ g \in [0..Len(bytes) -> Int] /\ g[0] = 0
                  /\ \A i \in 1..Len(bytes) : g[i] = g[i - 1] * Base + bytes[i].n
                  /\ Number(bytes) = g[Len(bytes)]
<1>. DEFINE l == Len(bytes)
            step == [p \in (1..l) \X Int |-> p[2] * Base + bytes[p[1]].n]
<1>0. Base \in Nat /\ l \in Nat
  BY PowerFacts
<1>1. step \in [(1..l) \X Int -> Int]
  <2>1. ASSUME NEW p \in (1..l) \X Int PROVE p[2] * Base + bytes[p[1]].n \in Int
    <3>1. p[2] \in Int /\ p[1] \in 1..l
      OBVIOUS
    <3>2. bytes[p[1]].n \in Int
      BY <3>1
    <3>. QED
      BY <1>0, <3>1, <3>2
  <2>. QED
    BY <2>1
<1>2. PICK g : Unfolds(g, l, Int, 0, step)
  <2>. HIDE DEF step
  <2>1. Follows(l, Int, 0, step)
    BY <1>0, <1>1 DEF Follows
  <2>. QED
    BY ONLY <2>1, Recursion
<1>3. g \in [0..l -> Int] /\ g[0] = 0
  BY <1>2 DEF Unfolds
<1>4. ASSUME NEW i \in 1..l PROVE g[i] = g[i - 1] * Base + bytes[i].n
  <2>1. i - 1 \in 0..l
    BY <1>0
  <2>2. <<i, g[i - 1]>> \in (1..l) \X Int
    BY <1>3, <2>1
  <2>. QED
    BY <1>2, <2>2 DEF Unfolds
<1>5. g = [i \in 0..l |-> IF i = 0 THEN 0 ELSE g[i - 1] * Base + bytes[i].n]
  <2>1. ASSUME NEW i \in 0..l
        PROVE  g[i] = IF i = 0 THEN 0 ELSE g[i - 1] * Base + bytes[i].n
    <3>1. CASE i = 0
      BY <1>3, <3>1
    <3>2. CASE i # 0
      <4>1. i \in 1..l
        BY <1>0, <3>2
      <4>. QED
        BY <1>4, <3>2, <4>1
    <3>. QED
      BY <3>1, <3>2
  <2>. QED
    BY <1>3, <2>1
<1>. DEFINE f == CHOOSE f : f = [i \in 0..l |-> IF i = 0 THEN 0 ELSE f[i - 1] * Base + bytes[i].n]
<1>6. f = [i \in 0..l |-> IF i = 0 THEN 0 ELSE f[i - 1] * Base + bytes[i].n]
  BY <1>5, Zenon
<1>7. Number(bytes) = f[l]
  BY Zenon DEF Number
<1>. HIDE DEF f
<1>8. ASSUME NEW k \in 0..l PROVE f[k] = g[k]
  <2>. DEFINE G == {j \in 0..l : f[j] = g[j]}
  <2>1. 0 \in G
    BY <1>0, <1>3, <1>6
  <2>2. ASSUME NEW j \in 0..l - 1, j \in G PROVE j + 1 \in G
    <3>1. j + 1 \in 0..l /\ j + 1 # 0 /\ (j + 1) - 1 = j /\ j + 1 \in 1..l
      BY <1>0
    <3>2. f[j + 1] = f[j] * Base + bytes[j + 1].n
      BY <1>6, <3>1
    <3>3. g[j + 1] = g[j] * Base + bytes[j + 1].n
      BY <1>4, <3>1
    <3>. QED
      BY <2>2, <3>1, <3>2, <3>3
  <2>3. \A j \in 0..l : j \in G
    <3>. HIDE DEF G
    <3>. QED
      BY <1>0, <2>1, <2>2, InductionUpTo
  <2>. QED
    BY <2>3
<1>9. l \in 0..l
  BY <1>0
<1>. QED
  BY <1>3, <1>4, <1>7, <1>8, <1>9

\* The number read from the digits of a number is that number, as far as the
\* width goes.
Spells(bytes, n, w) ==
    /\ Len(bytes) = w
    /\ \A i \in 1..w : bytes[i].n = ((n % Power[w]) \div Power[w - i]) % Base

\* Reading the digits gives the number back, in every width.
LEMMA DigitsNumber ==
    ASSUME NEW n \in Int, NEW w \in 1..8, NEW bytes, Spells(bytes, n, w)
    PROVE  Number(bytes) = n % Power[w]
<1>. DEFINE P == Power  m == n % P[w]
<1>0. Base \in Nat \ {0} /\ \A v \in 0..8 : P[v] \in Nat \ {0}
  BY PowerFacts
<1>1. P[0] = 1 /\ \A v \in 1..8 : P[v] = Base * P[v - 1]
  BY Powers
<1>2. \A i \in 1..w : bytes[i].n = (m \div P[w - i]) % Base
  BY DEF Spells
<1>l. Len(bytes) = w
  BY DEF Spells
<1>. HIDE DEF P
<1>3. m \in 0..P[w] - 1
  <2>1. P[w] \in Nat \ {0}
    BY <1>0
  <2>. QED
    BY <2>1, Division
<1>. HIDE DEF m
<1>4. ASSUME NEW i \in 1..w PROVE m \div P[w - i] \in Nat /\ P[w - i] \in Nat \ {0}
  <2>1. w - i \in 0..8
    OBVIOUS
  <2>2. P[w - i] \in Nat \ {0} /\ m \in Nat /\ m \in Int
    BY <1>0, <1>3, <2>1
  <2>. QED
    BY <2>2, Division
<1>5. \A i \in 1..w : bytes[i].n \in Int
  <2>1. ASSUME NEW i \in 1..w PROVE bytes[i].n \in Int
    <3>1. m \div P[w - i] \in Int
      BY <1>4
    <3>2. (m \div P[w - i]) % Base \in 0..Base - 1
      BY <1>0, <3>1, Division
    <3>. QED
      BY <1>0, <1>2, <3>2
  <2>. QED
    BY <2>1
<1>6. PICK g : /\ g \in [0..w -> Int] /\ g[0] = 0
               /\ \A i \in 1..w : g[i] = g[i - 1] * Base + bytes[i].n
               /\ Number(bytes) = g[w]
  <2>1. Len(bytes) \in Nat /\ \A i \in 1..Len(bytes) : bytes[i].n \in Int
    BY <1>5, <1>l
  <2>2. PICK g : /\ g \in [0..Len(bytes) -> Int] /\ g[0] = 0
                 /\ \A i \in 1..Len(bytes) : g[i] = g[i - 1] * Base + bytes[i].n
                 /\ Number(bytes) = g[Len(bytes)]
    BY <2>1, NumberUnfolds, Zenon
  <2>. QED
    BY <1>l, <2>2
<1>. DEFINE G == {i \in 0..w : g[i] = m \div P[w - i]}
<1>7. 0 \in G
  <2>1. m \div P[w] = 0
    <3>1. P[w] \in Nat \ {0} /\ m \in Int
      BY <1>0, <1>3
    <3>. QED
      BY <1>3, <3>1, Division
  <2>2. w - 0 = w /\ 0 \in 0..w
    OBVIOUS
  <2>. QED
    BY <1>6, <2>1, <2>2
<1>8. ASSUME NEW i \in 0..w - 1, i \in G PROVE i + 1 \in G
  <2>. DEFINE p == P[w - (i + 1)]  q == m \div p
  <2>1. i + 1 \in 1..w /\ (i + 1) - 1 = i /\ w - i \in 1..8 /\ (w - i) - 1 = w - (i + 1)
    OBVIOUS
  <2>2. p \in Nat \ {0} /\ q \in Nat
    BY <1>4, <2>1
  <2>3. P[w - i] = Base * p
    BY <1>1, <2>1
  <2>4. bytes[i + 1].n = q % Base
    BY <1>2, <2>1
  <2>. HIDE DEF p
  <2>5. m \div P[w - i] = q \div Base
    <3>1. m \in Nat
      BY <1>0, <1>3
    <3>2. m \div (Base * p) = (m \div p) \div Base
      BY <1>0, <2>2, <3>1, DivideTwice
    <3>. QED
      BY <2>3, <3>2
  <2>6. g[i + 1] = g[i] * Base + bytes[i + 1].n
    BY <1>6, <2>1
  <2>7. g[i] = q \div Base
    BY <1>8, <2>5
  <2>. HIDE DEF q
  <2>8. g[i + 1] = q
    <3>1. /\ q = Base * (q \div Base) + (q % Base)
          /\ q \div Base \in Int /\ q % Base \in Int
      <4>1. Base \in Nat \ {0} /\ q \in Int
        BY <1>0, <2>2
      <4>2. /\ q % Base \in 0..Base - 1 /\ q \div Base \in Int
            /\ q = Base * (q \div Base) + (q % Base)
        BY ONLY <4>1, Division
      <4>. QED
        BY <4>1, <4>2
    <3>2. (q \div Base) * Base = Base * (q \div Base)
      BY <1>0, <3>1
    <3>. QED
      BY <2>4, <2>6, <2>7, <3>1, <3>2
  <2>. QED
    BY <2>1, <2>8 DEF p, q
<1>9. \A i \in 0..w : i \in G
  <2>. HIDE DEF G
  <2>1. w \in Nat
    OBVIOUS
  <2>. QED
    BY <1>7, <1>8, <2>1, InductionUpTo
<1>10. g[w] = m \div P[w - w] /\ w - w = 0
  BY <1>9
<1>11. m \div P[0] = m
  BY <1>0, <1>1, <1>3
<1>. QED
  BY <1>6, <1>10, <1>11 DEF m, P

\* What is left of a number in a width: a number that fits, and the two's
\* complement of one that is negative, which Signed takes back.
LEMMA Fits ==
    ASSUME NEW n \in Int, NEW w \in 1..8
    PROVE  /\ n \in 0..Power[w] - 1 => n % Power[w] = n
           /\ n >= -(Power[w] \div 2) /\ n < Power[w] \div 2
                => Signed(n % Power[w], w) = n
<1>. DEFINE p == Power[w]  h == p \div 2
<1>1. p \in Nat \ {0} /\ h \in Nat /\ 2 * h = p
  BY PowerFacts
<1>2. \A m : Signed(m, w) = IF m >= h THEN m - p ELSE m
  BY DEF Signed
<1>. HIDE DEF p, h
<1>3. n \in 0..p - 1 => n % p = n
  BY <1>1
<1>4. ASSUME n >= -h, n < h PROVE Signed(n % p, w) = n
  <2>1. CASE n >= 0
    BY <1>1, <1>2, <1>4, <2>1
  <2>2. CASE n < 0
    <3>1. n + p \in 0..p - 1
      BY <1>1, <1>4, <2>2
    <3>2. p * (-1) + (n + p) = n
      BY <1>1
    <3>3. n % p = n + p
      BY <1>1, <3>1, <3>2, DivisionIs
    <3>. QED
      BY <1>1, <1>2, <1>4, <3>3
  <2>. QED
    BY <2>1, <2>2
<1>. QED
  BY <1>3, <1>4 DEF p, h

\* What is written behind a sequence leaves it as it is.
LEMMA ConcatGrows ==
    ASSUME NEW S, NEW s \in Seq(S), NEW t \in Seq(S)
    PROVE  /\ s \o t \in Seq(S) /\ Len(s \o t) = Len(s) + Len(t)
           /\ Len(s \o t) \in Nat /\ Len(s) <= Len(s \o t)
           /\ \A i \in 1..Len(s) : (s \o t)[i] = s[i]
           /\ \A i \in 1..Len(t) : (s \o t)[Len(s) + i] = t[i]
<1>1. Len(s) \in Nat /\ Len(t) \in Nat
  BY LenProperties
<1>2. s \o t \in Seq(S) /\ Len(s \o t) = Len(s) + Len(t)
      /\ \A i \in 1..(Len(s) + Len(t)) :
            (s \o t)[i] = IF i <= Len(s) THEN s[i] ELSE t[i - Len(s)]
  BY ConcatProperties
<1>. QED
  BY <1>1, <1>2

\* The part of a sequence from the (i+1)-th element to the n-th.
LEMMA Part ==
    ASSUME NEW S, NEW s \in Seq(S), NEW i \in Nat, NEW n \in i..Len(s)
    PROVE  /\ SubSeq(s, i + 1, n) \in Seq(S)
           /\ Len(SubSeq(s, i + 1, n)) = n - i /\ n - i \in Nat
           /\ \A j \in 1..(n - i) : SubSeq(s, i + 1, n)[j] = s[i + j]
<1>1. Len(s) \in Nat /\ n \in Nat /\ i <= n /\ n <= Len(s)
  BY LenProperties
<1>2. \A j \in (i + 1)..n : s[j] \in S
  BY <1>1, ElementOfSeq
<1>. DEFINE p == SubSeq(s, i + 1, n)
<1>3. /\ p \in Seq(S)
      /\ Len(p) = IF i + 1 <= n THEN n - (i + 1) + 1 ELSE 0
      /\ \A j \in 1..(n - (i + 1) + 1) : p[j] = s[(i + 1) + j - 1]
  BY <1>1, <1>2, SubSeqProperties
<1>. HIDE DEF p
<1>4. Len(p) = n - i /\ n - i \in Nat
  BY <1>1, <1>3
<1>5. ASSUME NEW j \in 1..(n - i) PROVE p[j] = s[i + j]
  <2>1. j \in 1..(n - (i + 1) + 1) /\ (i + 1) + j - 1 = i + j
    BY <1>1
  <2>. QED
    BY <1>3, <2>1
<1>. QED
  BY <1>3, <1>4, <1>5 DEF p

\* The same for the part at the beginning.
LEMMA FirstPart ==
    ASSUME NEW S, NEW s \in Seq(S), NEW n \in 0..Len(s),
           NEW p, p = SubSeq(s, 1, n)
    PROVE  /\ p \in Seq(S) /\ Len(p) = n
           /\ \A j \in 1..n : p[j] = s[j]
<1>1. n \in Nat /\ n <= Len(s) /\ Len(s) \in Nat
  BY LenProperties
<1>2. \A j \in 1..n : s[j] \in S
  BY <1>1, ElementOfSeq
<1>3. /\ SubSeq(s, 1, n) \in Seq(S)
      /\ Len(SubSeq(s, 1, n)) = IF 1 <= n THEN n - 1 + 1 ELSE 0
      /\ \A j \in 1..(n - 1 + 1) : SubSeq(s, 1, n)[j] = s[1 + j - 1]
  BY <1>1, <1>2, SubSeqProperties
<1>4. p \in Seq(S) /\ Len(p) = n
  BY <1>1, <1>3
<1>5. ASSUME NEW j \in 1..n PROVE p[j] = s[j]
  <2>1. j \in 1..(n - 1 + 1) /\ 1 + j - 1 = j
    BY <1>1
  <2>. QED
    BY <1>3, <2>1
<1>. QED
  BY <1>4, <1>5


-----------------------------------------------------------------------------
(***************************************************************************)
(* Sequences joined to one.                                                *)
(***************************************************************************)
\* How long the first n of them are together.
Size(parts, n) == Len(FlattenSeq(SubSeq(parts, 1, n)))

\* What joining gives, part after part.
Joins(h, parts, X) ==
    /\ h \in [0..Len(parts) -> Seq(X)] /\ h[0] = <<>>
    /\ \A i \in 1..Len(parts) : h[i] = h[i - 1] \o parts[i]

\* The joined sequences, one part more each time, are a function.
LEMMA JoinsExists ==
    ASSUME NEW X, NEW parts \in Seq(Seq(X))
    PROVE  \E h : Joins(h, parts, X)
<1>. DEFINE n == Len(parts)  S == Seq(X)
            step == [p \in (1..n) \X S |-> p[2] \o parts[p[1]]]
<1>1. n \in Nat /\ <<>> \in S
  OBVIOUS
<1>2. \A i \in 1..n : parts[i] \in S
  BY ElementOfSeq
<1>3. \A s, t \in S : s \o t \in S
  BY ConcatProperties
<1>. HIDE DEF S, n
<1>4. step \in [(1..n) \X S -> S]
  <2>1. ASSUME NEW p \in (1..n) \X S PROVE p[2] \o parts[p[1]] \in S
    <3>1. p[2] \in S /\ p[1] \in 1..n
      OBVIOUS
    <3>. QED
      BY <1>2, <1>3, <3>1
  <2>. QED
    BY <2>1
<1>5. PICK h : Unfolds(h, n, S, <<>>, step)
  <2>. HIDE DEF step
  <2>1. Follows(n, S, <<>>, step)
    BY <1>1, <1>4 DEF Follows
  <2>. QED
    BY ONLY <2>1, Recursion
<1>6. h \in [0..n -> S] /\ h[0] = <<>>
  BY <1>5 DEF Unfolds
<1>7. ASSUME NEW i \in 1..n PROVE h[i] = h[i - 1] \o parts[i]
  <2>1. i - 1 \in 0..n
    BY <1>1
  <2>2. <<i, h[i - 1]>> \in (1..n) \X S
    BY <1>6, <2>1
  <2>. QED
    BY <1>5, <2>2 DEF Unfolds
<1>. QED
  BY <1>6, <1>7 DEF Joins, n, S

\* Joined parts are what FlattenSeq makes of them.
LEMMA JoinsFlatten ==
    ASSUME NEW X, NEW parts, Len(parts) \in Nat,
           Len(parts) = 0 => parts = <<>>,
           NEW h, Joins(h, parts, X)
    PROVE  FlattenSeq(parts) = h[Len(parts)]
<1>. DEFINE n == Len(parts)
<1>1. n \in Nat /\ h \in [0..n -> Seq(X)] /\ h[0] = <<>>
      /\ \A i \in 1..n : h[i] = h[i - 1] \o parts[i]
  BY DEF Joins
<1>2. CASE n = 0
  BY <1>1, <1>2 DEF FlattenSeq
<1>3. CASE n # 0
  <2>. DEFINE IsF(f) == f = [i \in 1..n |-> IF i = 1 THEN parts[i] ELSE f[i - 1] \o parts[i]]
              f == CHOOSE f : IsF(f)
              g == [i \in 1..n |-> h[i]]
  <2>1. n >= 1 /\ 1 \in 1..n
    BY <1>1, <1>3
  <2>2. h[1] = parts[1]
    <3>1. h[1] = h[0] \o parts[1]
      <4>1. \A i \in 1..n : h[i] = h[i - 1] \o parts[i]
        BY <1>1
      <4>2. h[1] = h[1 - 1] \o parts[1]
        BY <2>1, <4>1
      <4>3. 1 - 1 = 0
        OBVIOUS
      <4>. QED
        BY ONLY <4>2, <4>3
    <3>2. h[1] \in Seq(X)
      BY <1>1, <2>1
    <3>3. <<>> \o parts[1] = parts[1]
      OBVIOUS
    <3>. QED
      BY <1>1, <3>1, <3>3
  <2>3. IsF(g)
    <3>1. ASSUME NEW i \in 1..n
          PROVE  g[i] = IF i = 1 THEN parts[i] ELSE g[i - 1] \o parts[i]
      <4>1. CASE i = 1
        BY <2>2, <4>1
      <4>2. CASE i # 1
        <5>1. i - 1 \in 1..n
          BY <1>1, <4>2
        <5>. QED
          BY <1>1, <4>2, <5>1
      <4>. QED
        BY <4>1, <4>2
    <3>2. g = [i \in 1..n |-> IF i = 1 THEN parts[i] ELSE g[i - 1] \o parts[i]]
      BY <3>1
    <3>. QED
      BY <3>2
  <2>4. IsF(f)
    <3>. HIDE DEF IsF, g
    <3>. QED
      BY <2>3
  <2>5. FlattenSeq(parts) = f[n]
    BY <1>3, Zenon DEF FlattenSeq
  <2>6. \A i \in 1..n : f[i] = IF i = 1 THEN parts[i] ELSE f[i - 1] \o parts[i]
    BY <2>4
  <2>. HIDE DEF f
  <2>. DEFINE G == {i \in 0..n : i > 0 => f[i] = h[i]}
  <2>7. 0 \in G
    BY <1>1
  <2>8. ASSUME NEW i \in 0..n - 1, i \in G PROVE i + 1 \in G
    <3>1. i + 1 \in 1..n /\ (i + 1) - 1 = i
      BY <1>1
    <3>2. h[i + 1] = h[i] \o parts[i + 1]
      BY <1>1, <3>1
    <3>3. CASE i = 0
      BY <2>2, <2>6, <3>1, <3>3
    <3>4. CASE i # 0
      <4>1. f[i] = h[i]
        BY <2>8, <3>4
      <4>2. i + 1 # 1
        BY <3>1, <3>4
      <4>3. f[i + 1] = f[(i + 1) - 1] \o parts[i + 1]
        BY <2>6, <3>1, <4>2
      <4>4. f[i + 1] = h[i + 1]
        BY ONLY <3>1, <3>2, <4>1, <4>3
      <4>5. i + 1 \in 0..n
        BY <1>1, <3>1
      <4>. QED
        BY <4>4, <4>5
    <3>. QED
      BY <3>3, <3>4
  <2>9. \A i \in 0..n : i \in G
    <3>. HIDE DEF G
    <3>. QED
      BY <1>1, <2>7, <2>8, InductionUpTo
  <2>10. n \in 0..n /\ n > 0
    BY <1>1, <1>3
  <2>. QED
    BY <2>5, <2>9, <2>10
<1>. QED
  BY <1>2, <1>3

\* The parts lie one behind the other.
LEMMA Flattened ==
    ASSUME NEW X, NEW parts \in Seq(Seq(X))
    PROVE  /\ FlattenSeq(parts) \in Seq(X) /\ Len(FlattenSeq(parts)) \in Nat
           /\ Size(parts, 0) = 0 /\ Size(parts, Len(parts)) = Len(FlattenSeq(parts))
           /\ \A n \in 0..Len(parts) : /\ Size(parts, n) \in Nat
                                       /\ Size(parts, n) <= Len(FlattenSeq(parts))
           /\ \A n \in 1..Len(parts) :
                 /\ Size(parts, n) = Size(parts, n - 1) + Len(parts[n])
                 /\ \A j \in 1..Len(parts[n]) :
                       FlattenSeq(parts)[Size(parts, n - 1) + j] = parts[n][j]
<1>. DEFINE N == Len(parts)  F == FlattenSeq(parts)
<1>1. N \in Nat /\ \A i \in 1..N : parts[i] \in Seq(X)
  BY ElementOfSeq
<1>2. PICK h : Joins(h, parts, X)
  BY JoinsExists
<1>3. /\ h \in [0..N -> Seq(X)] /\ h[0] = <<>>
      /\ \A i \in 1..N : h[i] = h[i - 1] \o parts[i]
  BY <1>2 DEF Joins
<1>4. ASSUME NEW n \in 0..N PROVE FlattenSeq(SubSeq(parts, 1, n)) = h[n]
  <2>. DEFINE p == SubSeq(parts, 1, n)  g == [i \in 0..n |-> h[i]]
  <2>1. p \in Seq(Seq(X)) /\ Len(p) = n /\ \A j \in 1..n : p[j] = parts[j]
    BY FirstPart
  <2>2. n \in Nat /\ n <= N
    BY <1>1
  <2>. HIDE DEF p
  <2>3. Joins(g, p, X)
    <3>1. g \in [0..n -> Seq(X)] /\ g[0] = <<>>
      BY <1>1, <1>3, <2>2
    <3>2. ASSUME NEW i \in 1..n PROVE g[i] = g[i - 1] \o p[i]
      <4>1. i \in 0..n /\ i - 1 \in 0..n /\ i \in 1..N
        BY <1>1, <2>2
      <4>2. g[i] = h[i] /\ g[i - 1] = h[i - 1]
        BY <4>1
      <4>. QED
        BY <1>3, <2>1, <4>1, <4>2
    <3>. QED
      BY <2>1, <3>1, <3>2 DEF Joins
  <2>4. Len(p) \in Nat /\ (Len(p) = 0 => p = <<>>)
    BY <2>1, <2>2
  <2>5. g[n] = h[n]
    BY <2>2
  <2>. HIDE DEF g
  <2>6. FlattenSeq(p) = g[Len(p)]
    BY <2>3, <2>4, JoinsFlatten
  <2>. QED
    BY <2>1, <2>5, <2>6 DEF p
<1>5. F = h[N]
  <2>1. Len(parts) \in Nat /\ (Len(parts) = 0 => parts = <<>>)
    BY <1>1
  <2>. QED
    BY <1>2, <2>1, JoinsFlatten
<1>. HIDE DEF F
<1>6. ASSUME NEW n \in 0..N
      PROVE  Size(parts, n) = Len(h[n]) /\ Size(parts, n) \in Nat /\ h[n] \in Seq(X)
  BY <1>3, <1>4 DEF Size
<1>7. ASSUME NEW n \in 1..N
      PROVE  /\ Size(parts, n) = Size(parts, n - 1) + Len(parts[n])
             /\ \A j \in 1..Len(h[n - 1]) : h[n][j] = h[n - 1][j]
             /\ \A j \in 1..Len(parts[n]) : h[n][Size(parts, n - 1) + j] = parts[n][j]
             /\ Size(parts, n - 1) <= Size(parts, n)
  <2>1. n \in 0..N /\ n - 1 \in 0..N
    BY <1>1
  <2>2. h[n] = h[n - 1] \o parts[n] /\ h[n - 1] \in Seq(X) /\ parts[n] \in Seq(X)
    BY <1>1, <1>3, <2>1
  <2>. DEFINE a == h[n - 1]  b == parts[n]
  <2>3. /\ Len(a \o b) = Len(a) + Len(b) /\ Len(a) <= Len(a \o b)
        /\ \A i \in 1..Len(a) : (a \o b)[i] = a[i]
        /\ \A i \in 1..Len(b) : (a \o b)[Len(a) + i] = b[i]
    <3>1. a \in Seq(X) /\ b \in Seq(X)
      BY <2>2
    <3>. HIDE DEF a, b
    <3>. QED
      BY <3>1, ConcatGrows
  <2>4. Size(parts, n) = Len(h[n]) /\ Size(parts, n - 1) = Len(h[n - 1])
    BY <1>6, <2>1
  <2>. QED
    BY <2>2, <2>3, <2>4
\* What is laid once stays.
<1>8. ASSUME NEW n \in 0..N
      PROVE  /\ Len(h[n]) <= Len(h[N])
             /\ \A j \in 1..Len(h[n]) : h[N][j] = h[n][j]
  <2>. DEFINE G == {k \in 0..(N - n) : /\ Len(h[n]) <= Len(h[n + k])
                                     /\ \A j \in 1..Len(h[n]) : h[n + k][j] = h[n][j]}
  <2>0. n \in Nat /\ N - n \in Nat /\ Len(h[n]) \in Nat
    BY <1>1, <1>6
  <2>1. 0 \in G
    <3>1. n + 0 = n /\ 0 \in 0..(N - n)
      BY <2>0
    <3>. QED
      BY <2>0, <3>1
  <2>2. ASSUME NEW k \in 0..(N - n) - 1, k \in G PROVE k + 1 \in G
    <3>1. /\ n + (k + 1) \in 1..N /\ (n + (k + 1)) - 1 = n + k /\ k + 1 \in 0..(N - n)
          /\ n + k \in 0..N
      BY <1>1, <2>0
    <3>2. Len(h[n]) <= Len(h[n + k]) /\ \A j \in 1..Len(h[n]) : h[n + k][j] = h[n][j]
      BY <2>2
    <3>3. /\ \A j \in 1..Len(h[n + k]) : h[n + (k + 1)][j] = h[n + k][j]
          /\ Size(parts, n + k) <= Size(parts, n + (k + 1))
      BY <1>7, <3>1
    <3>4. /\ Size(parts, n + k) = Len(h[n + k]) /\ Len(h[n + k]) \in Nat
          /\ Size(parts, n + (k + 1)) = Len(h[n + (k + 1)]) /\ Len(h[n + (k + 1)]) \in Nat
      <4>1. n + (k + 1) \in 0..N
        BY <1>1, <3>1
      <4>. QED
        BY <1>6, <3>1, <4>1
    <3>5. Len(h[n]) <= Len(h[n + (k + 1)])
      BY <2>0, <3>2, <3>3, <3>4
    <3>6. ASSUME NEW j \in 1..Len(h[n]) PROVE h[n + (k + 1)][j] = h[n][j]
      <4>1. j \in 1..Len(h[n + k])
        BY <2>0, <3>2, <3>4
      <4>. QED
        BY <3>2, <3>3, <4>1
    <3>. QED
      BY <3>1, <3>5, <3>6
  <2>3. \A k \in 0..(N - n) : k \in G
    <3>. HIDE DEF G
    <3>. QED
      BY <2>0, <2>1, <2>2, InductionUpTo
  <2>4. N - n \in 0..(N - n) /\ n + (N - n) = N
    BY <1>1, <2>0
  <2>. QED
    BY <2>3, <2>4
<1>9. N \in 0..N /\ 0 \in 0..N
  BY <1>1
<1>10. F \in Seq(X) /\ Len(F) \in Nat /\ Size(parts, N) = Len(F)
  BY <1>5, <1>6, <1>9
<1>11. Size(parts, 0) = 0
  BY <1>3, <1>6, <1>9
<1>12. ASSUME NEW n \in 0..N PROVE Size(parts, n) \in Nat /\ Size(parts, n) <= Len(F)
  BY <1>5, <1>6, <1>8
<1>13. ASSUME NEW n \in 1..N, NEW j \in 1..Len(parts[n])
       PROVE  F[Size(parts, n - 1) + j] = parts[n][j]
  <2>1. n \in 0..N /\ n - 1 \in 0..N
    BY <1>1
  <2>2. h[n][Size(parts, n - 1) + j] = parts[n][j]
    BY <1>7
  <2>3. /\ Size(parts, n) = Len(h[n]) /\ Size(parts, n) = Size(parts, n - 1) + Len(parts[n])
        /\ Size(parts, n - 1) \in Nat /\ Len(parts[n]) \in Nat
    <3>1. Len(parts[n]) \in Nat
      BY <1>1
    <3>. QED
      BY <1>6, <1>7, <2>1, <3>1
  <2>4. Size(parts, n - 1) + j \in 1..Len(h[n])
    BY <2>3
  <2>. QED
    BY <1>5, <1>8, <2>1, <2>2, <2>4
<1>. QED
  BY <1>7, <1>10, <1>11, <1>12, <1>13 DEF F

-----------------------------------------------------------------------------
(***************************************************************************)
(* The keys of a map can be put in order.                                  *)
(***************************************************************************)
\* Different characters have different ranks.
LEMMA Ranks ==
    ASSUME NEW units \in BOOLEAN, NEW c \in Digit, NEW d \in Digit
    PROVE  /\ Rank(units, c) \in Int /\ Rank(units, d) \in Int
           /\ Rank(units, c) = Rank(units, d) => c = d
<1>1. Base \in Nat \ {0} /\ c \in 0..Base - 1 /\ d \in 0..Base - 1
  BY PowerFacts DEF Digit
<1>2. CASE units
  <2>1. \A e : Rank(units, e) = IF e = Base - 2 THEN Base - 1
                               ELSE IF e = Base - 1 THEN Base - 2 ELSE e
    <3>1. ASSUME NEW e PROVE Rank(units, e) = IF e = Base - 2 THEN Base - 1
                               ELSE IF e = Base - 1 THEN Base - 2 ELSE e
      <4>1. Base - 2 # Base - 1
        BY <1>1
      <4>. HIDE DEF Rank
      <4>2. CASE e = Base - 2
        <5>1. ~(units /\ e = Base - 1)
          BY <4>1, <4>2
        <5>. QED
          BY <1>2, <4>2, <5>1, Zenon DEF Rank
      <4>3. CASE e = Base - 1
        <5>1. ~(units /\ e = Base - 2)
          BY <4>1, <4>3
        <5>. QED
          BY <1>2, <4>3, <5>1, Zenon DEF Rank
      <4>4. CASE e # Base - 1 /\ e # Base - 2
        BY <1>2, <4>4, Zenon DEF Rank
      <4>. QED
        BY <4>1, <4>2, <4>3, <4>4
    <3>. QED
      BY <3>1
  <2>. QED
    BY <1>1, <2>1
<1>3. CASE ~units
  <2>1. \A e : Rank(units, e) = e
    BY <1>3, Zenon DEF Rank
  <2>. QED
    BY <1>1, <2>1
<1>. QED
  BY <1>2, <1>3

\* Where one text precedes another.
At(units, s, t, i) ==
    /\ i \in 0..Len(s) /\ i < Len(t)
    /\ \A j \in 1..i : s[j] = t[j]
    /\ i < Len(s) => Rank(units, s[i + 1]) < Rank(units, t[i + 1])

\* Of two texts one precedes the other.
LEMMA PrecedesTotal ==
    ASSUME NEW units \in BOOLEAN, NEW s \in Seq(Digit), NEW t \in Seq(Digit), s # t
    PROVE  Precedes(units, s, t) \/ Precedes(units, t, s)
<1>1. Len(s) \in Nat /\ Len(t) \in Nat
  OBVIOUS
<1>2. SUFFICES \E i : At(units, s, t, i) \/ At(units, t, s, i)
  BY DEF At, Precedes
<1>. DEFINE D == {i \in Nat : i < Len(s) /\ i < Len(t) /\ s[i + 1] # t[i + 1]}
<1>3. CASE D = {}
  <2>1. ASSUME NEW j \in Nat, 1 <= j, j <= Len(s), j <= Len(t) PROVE s[j] = t[j]
    <3>1. j - 1 \in Nat /\ j - 1 < Len(s) /\ j - 1 < Len(t) /\ (j - 1) + 1 = j
      BY <1>1, <2>1
    <3>. QED
      BY <1>3, <3>1
  <2>2. CASE Len(s) = Len(t)
    <3>1. \A j \in 1..Len(s) : s[j] = t[j]
      BY <1>1, <2>1, <2>2
    <3>. QED
      BY <1>1, <2>2, <3>1, SeqEqual
  <2>3. CASE Len(s) < Len(t)
    <3>1. At(units, s, t, Len(s))
      BY <1>1, <2>1, <2>3 DEF At
    <3>. QED
      BY <3>1
  <2>4. CASE Len(t) < Len(s)
    <3>1. At(units, t, s, Len(t))
      BY <1>1, <2>1, <2>4 DEF At
    <3>. QED
      BY <3>1
  <2>. QED
    BY <1>1, <2>2, <2>3, <2>4
<1>4. CASE D # {}
  <2>1. PICK i \in D : \A k \in D : i <= k
    BY <1>4, LeastOf
  <2>2. /\ i \in Nat /\ i < Len(s) /\ i < Len(t) /\ s[i + 1] # t[i + 1]
        /\ i + 1 \in 1..Len(s) /\ i + 1 \in 1..Len(t)
    BY <1>1
  <2>3. ASSUME NEW j \in 1..i PROVE s[j] = t[j]
    <3>1. j - 1 \in Nat /\ j - 1 < Len(s) /\ j - 1 < Len(t) /\ (j - 1) + 1 = j
          /\ ~(i <= j - 1)
      BY <1>1, <2>2
    <3>. QED
      BY <2>1, <3>1
  <2>4. s[i + 1] \in Digit /\ t[i + 1] \in Digit
    BY <2>2, ElementOfSeq
  <2>. DEFINE a == Rank(units, s[i + 1])  b == Rank(units, t[i + 1])
  <2>5. a \in Int /\ b \in Int /\ a # b
    BY <2>2, <2>4, Ranks
  <2>6. CASE a < b
    <3>1. At(units, s, t, i)
      BY <1>1, <2>2, <2>3, <2>6 DEF At
    <3>. QED
      BY <3>1
  <2>7. CASE b < a
    <3>1. At(units, t, s, i)
      BY <1>1, <2>2, <2>3, <2>7 DEF At
    <3>. QED
      BY <3>1
  <2>. QED
    BY <2>5, <2>6, <2>7
<1>. QED
  BY <1>3, <1>4

\* The order is transitive.
LEMMA PrecedesTransitive ==
    ASSUME NEW units \in BOOLEAN, NEW s \in Seq(Digit), NEW t \in Seq(Digit),
           NEW u \in Seq(Digit), Precedes(units, s, t), Precedes(units, t, u)
    PROVE  Precedes(units, s, u)
<1>1. Len(s) \in Nat /\ Len(t) \in Nat /\ Len(u) \in Nat
  OBVIOUS
<1>2. PICK i : At(units, s, t, i)
  BY DEF At, Precedes
<1>3. PICK j : At(units, t, u, j)
  BY DEF At, Precedes
<1>4. /\ i \in 0..Len(s) /\ i < Len(t)
      /\ \A k \in 1..i : s[k] = t[k]
      /\ i < Len(s) => Rank(units, s[i + 1]) < Rank(units, t[i + 1])
  BY <1>2 DEF At
<1>5. /\ j \in 0..Len(t) /\ j < Len(u)
      /\ \A k \in 1..j : t[k] = u[k]
      /\ j < Len(t) => Rank(units, t[j + 1]) < Rank(units, u[j + 1])
  BY <1>3 DEF At
<1>6. SUFFICES \E k : At(units, s, u, k)
  BY DEF At, Precedes
<1>7. CASE i < j
  <2>1. i + 1 \in 1..j /\ i < Len(u) /\ \A k \in 1..i : k \in 1..j
    BY <1>1, <1>4, <1>5, <1>7
  <2>2. \A k \in 1..i : s[k] = u[k]
    BY <1>4, <1>5, <2>1
  <2>3. t[i + 1] = u[i + 1]
    BY <1>5, <2>1
  <2>4. At(units, s, u, i)
    BY <1>4, <2>1, <2>2, <2>3 DEF At
  <2>. QED
    BY <2>4
<1>8. CASE j < i
  <2>1. j + 1 \in 1..i /\ j \in 0..Len(s) /\ j < Len(t) /\ \A k \in 1..j : k \in 1..i
    BY <1>1, <1>4, <1>5, <1>8
  <2>2. \A k \in 1..j : s[k] = u[k]
    BY <1>4, <1>5, <2>1
  <2>3. s[j + 1] = t[j + 1]
    BY <1>4, <2>1
  <2>4. At(units, s, u, j)
    BY <1>5, <2>1, <2>2, <2>3 DEF At
  <2>. QED
    BY <2>4
<1>9. CASE i = j
  <2>1. \A k \in 1..i : s[k] = u[k]
    BY <1>4, <1>5, <1>9
  <2>2. ASSUME i < Len(s) PROVE Rank(units, s[i + 1]) < Rank(units, u[i + 1])
    <3>1. i + 1 \in 1..Len(s) /\ i + 1 \in 1..Len(t) /\ i + 1 \in 1..Len(u)
      BY <1>1, <1>4, <1>5, <1>9, <2>2
    <3>2. s[i + 1] \in Digit /\ t[i + 1] \in Digit /\ u[i + 1] \in Digit
      BY <3>1, ElementOfSeq
    <3>3. /\ Rank(units, s[i + 1]) \in Int /\ Rank(units, t[i + 1]) \in Int
          /\ Rank(units, u[i + 1]) \in Int
      BY <3>2, Ranks
    <3>4. /\ Rank(units, s[i + 1]) < Rank(units, t[i + 1])
          /\ Rank(units, t[i + 1]) < Rank(units, u[i + 1])
      BY <1>4, <1>5, <1>9, <2>2
    <3>. QED
      BY <3>3, <3>4
  <2>3. At(units, s, u, i)
    BY <1>4, <1>5, <1>9, <2>1, <2>2 DEF At
  <2>. QED
    BY <2>3
<1>. QED
  BY <1>1, <1>4, <1>5, <1>7, <1>8, <1>9

\* A finite set of texts that is not empty has a first one.
LEMMA FirstText ==
    ASSUME NEW units \in BOOLEAN, NEW n \in Nat
    PROVE  \A K \in SUBSET Seq(Digit) :
              IsFiniteSet(K) /\ Cardinality(K) = n + 1
                => \E s \in K : \A t \in K \ {s} : Precedes(units, s, t)
<1>. DEFINE Has(K) == \E s \in K : \A t \in K \ {s} : Precedes(units, s, t)
            G == {m \in Nat : \A K \in SUBSET Seq(Digit) :
                                 IsFiniteSet(K) /\ Cardinality(K) = m + 1 => Has(K)}
<1>1. 0 \in G
  <2>1. ASSUME NEW K \in SUBSET Seq(Digit), IsFiniteSet(K), Cardinality(K) = 0 + 1
        PROVE  Has(K)
    <3>1. PICK x : K = {x}
      <4>1. Cardinality(K) = 1
        BY <2>1
      <4>. QED
        BY <2>1, <4>1, FS_Singleton, Zenon
    <3>. QED
      BY <3>1
  <2>. QED
    BY <2>1
<1>2. ASSUME NEW m \in G PROVE m + 1 \in G
  <2>1. ASSUME NEW K \in SUBSET Seq(Digit), IsFiniteSet(K), Cardinality(K) = (m + 1) + 1
        PROVE  Has(K)
    <3>1. K # {}
      BY <2>1, FS_EmptySet
    <3>2. PICK x \in K : TRUE
      BY <3>1
    <3>. DEFINE L == K \ {x}
    <3>3. IsFiniteSet(L) /\ Cardinality(L) = m + 1 /\ L \in SUBSET Seq(Digit)
      <4>1. IsFiniteSet(L) /\ Cardinality(L) = Cardinality(K) - 1
        BY <2>1, <3>2, FS_RemoveElement
      <4>. QED
        BY <2>1, <4>1
    <3>4. Has(L)
      BY <1>2, <3>3
    <3>5. PICK s \in L : \A t \in L \ {s} : Precedes(units, s, t)
      BY <3>4
    <3>6. s \in Seq(Digit) /\ x \in Seq(Digit) /\ s # x /\ s \in K
      BY <3>2, <3>5
    <3>7. CASE Precedes(units, s, x)
      <4>1. \A t \in K \ {s} : Precedes(units, s, t)
        BY <3>5, <3>7
      <4>. QED
        BY <3>6, <4>1
    <3>8. CASE Precedes(units, x, s)
      <4>1. ASSUME NEW t \in K \ {x} PROVE Precedes(units, x, t)
        <5>1. CASE t = s
          BY <3>8, <5>1
        <5>2. CASE t # s
          <6>1. Precedes(units, s, t) /\ t \in Seq(Digit)
            BY <3>5, <5>2
          <6>. QED
            BY <3>6, <3>8, <6>1, PrecedesTransitive
        <5>. QED
          BY <5>1, <5>2
      <4>. QED
        BY <3>2, <4>1
    <3>. QED
      BY <3>6, <3>7, <3>8, PrecedesTotal
  <2>. QED
    BY <2>1
<1>3. G = Nat
  <2>1. G \in SUBSET Nat
    OBVIOUS
  <2>. HIDE DEF G
  <2>. QED
    BY <1>1, <1>2, <2>1, Induction
<1>. QED
  BY <1>3

\* Keys in order.
Ordered(units, keys, order) ==
    /\ order \in [1..Cardinality(keys) -> keys]
    /\ \A i, j \in 1..Cardinality(keys) :
          i < j => Precedes(units, order[i], order[j])

\* Any finite set of texts can be put in order, however characters rank.
LEMMA OrderExists ==
    ASSUME NEW units \in BOOLEAN, NEW n \in Nat
    PROVE  \A K \in SUBSET Seq(Digit) :
              IsFiniteSet(K) /\ Cardinality(K) = n => \E order : Ordered(units, K, order)
<1>. DEFINE Has(K) == \E order : Ordered(units, K, order)
            G == {m \in Nat : \A K \in SUBSET Seq(Digit) :
                                 IsFiniteSet(K) /\ Cardinality(K) = m => Has(K)}
<1>1. 0 \in G
  <2>1. ASSUME NEW K \in SUBSET Seq(Digit), IsFiniteSet(K), Cardinality(K) = 0
        PROVE  Has(K)
    <3>1. Ordered(units, K, [i \in 1..0 |-> <<>>])
      <4>1. 1..Cardinality(K) = {} /\ 1..0 = {}
        BY <2>1
      <4>. QED
        BY <4>1 DEF Ordered
    <3>. QED
      BY <3>1
  <2>. QED
    BY <2>1
<1>2. ASSUME NEW m \in G PROVE m + 1 \in G
  <2>1. ASSUME NEW K \in SUBSET Seq(Digit), IsFiniteSet(K), Cardinality(K) = m + 1
        PROVE  Has(K)
    <3>1. PICK s \in K : \A t \in K \ {s} : Precedes(units, s, t)
      <4>1. m \in Nat
        OBVIOUS
      <4>. QED
        BY <2>1, <4>1, FirstText
    <3>. DEFINE L == K \ {s}
    <3>2. IsFiniteSet(L) /\ Cardinality(L) = m /\ L \in SUBSET Seq(Digit)
      <4>1. IsFiniteSet(L) /\ Cardinality(L) = Cardinality(K) - 1
        BY <2>1, <3>1, FS_RemoveElement
      <4>. QED
        BY <2>1, <4>1
    <3>3. PICK o : Ordered(units, L, o)
      BY <1>2, <3>2
    <3>4. o \in [1..m -> L] /\ \A i, j \in 1..m : i < j => Precedes(units, o[i], o[j])
      BY <3>2, <3>3 DEF Ordered
    <3>. DEFINE p == [i \in 1..m + 1 |-> IF i = 1 THEN s ELSE o[i - 1]]
    <3>5. ASSUME NEW i \in 1..m + 1, i # 1 PROVE i - 1 \in 1..m /\ p[i] = o[i - 1] /\ p[i] \in L
      <4>1. i - 1 \in 1..m
        BY <3>5
      <4>. QED
        BY <3>4, <3>5, <4>1
    <3>6. p[1] = s
      BY <1>2
    <3>7. p \in [1..m + 1 -> K]
      <4>1. \A i \in 1..m + 1 : p[i] \in K
        BY <3>1, <3>5, <3>6
      <4>. QED
        BY <4>1
    <3>8. ASSUME NEW i \in 1..m + 1, NEW j \in 1..m + 1, i < j
          PROVE  Precedes(units, p[i], p[j])
      <4>1. j # 1
        BY <3>8
      <4>2. CASE i = 1
        BY <3>1, <3>5, <3>6, <4>1, <4>2
      <4>3. CASE i # 1
        <5>1. i - 1 < j - 1
          BY <3>8
        <5>. QED
          BY <3>4, <3>5, <4>1, <4>3, <5>1
      <4>. QED
        BY <4>2, <4>3
    <3>. HIDE DEF p
    <3>9. Ordered(units, K, p)
      BY <2>1, <3>7, <3>8 DEF Ordered
    <3>. QED
      BY <3>9
  <2>. QED
    BY <2>1
<1>3. G = Nat
  <2>1. G \in SUBSET Nat
    OBVIOUS
  <2>. HIDE DEF G
  <2>. QED
    BY <1>1, <1>2, <2>1, Induction
<1>. QED
  BY <1>3

\* The encoders' sort gives the keys in order.
LEMMA KeysOrdered ==
    ASSUME NEW units \in BOOLEAN, NEW K \in SUBSET Seq(Digit), IsFiniteSet(K)
    PROVE  Ordered(units, K, KeyOrder(units, K)) /\ Cardinality(K) \in Nat
<1>1. Cardinality(K) \in Nat
  BY FS_CardinalityType
<1>2. PICK order : Ordered(units, K, order)
  BY <1>1, OrderExists
<1>3. \E o \in [1..Cardinality(K) -> K] :
         \A i, j \in 1..Cardinality(K) : i < j => Precedes(units, o[i], o[j])
  BY <1>2 DEF Ordered
<1>. QED
  BY <1>1, <1>3, Zenon DEF Ordered, KeyOrder

-----------------------------------------------------------------------------
(***************************************************************************)
(* The atoms of a value.                                                   *)
(***************************************************************************)
\* The atoms a value can be made of.
AtomSet == {OwnAtom(v) : v \in Values}

\* What the atoms of a value are.
WellAtom(a) ==
    /\ a = Atom(a.k, a.n, a.s) /\ a.n \in Int
    /\ \/ a.k \in {"nil", "true", "false"} /\ a.n = 0 /\ a.s = <<>>
       \/ a.k \in {"int", "bigint"} /\ a.s = <<>>
       \/ a.k = "float" /\ a.n \in 0 .. Power[8] - 1 /\ a.s = <<>>
       \/ a.k = "float32" /\ a.n \in 0 .. Power[4] - 1 /\ a.s = <<>>
       \/ a.k \in {"str", "bin"} /\ a.s \in Seq(Digit) /\ a.n = Len(a.s) /\ a.n < Power[4]
       \/ a.k \in {"array", "map"} /\ a.n \in 0 .. Power[4] - 1 /\ a.s = <<>>

\* The fields of an atom.
LEMMA AtomFields ==
    ASSUME NEW k, NEW n, NEW s
    PROVE  Atom(k, n, s).k = k /\ Atom(k, n, s).n = n /\ Atom(k, n, s).s = s
  BY DEF Atom

\* A value's own atom, the values inside it, and that the atom counts them.
LEMMA ValueFacts ==
    ASSUME NEW v \in Values, NEW units \in BOOLEAN
    PROVE  /\ WellAtom(OwnAtom(v))
           /\ Children(v, units) \in Seq(Values)
           /\ Len(Children(v, units)) = Inside(OwnAtom(v).k, OwnAtom(v).n)
<1>0. WellFormed(v)
  BY ValuesAssumption
<1>e. <<>> \in Seq(Values) /\ Len(<<>>) = 0
  OBVIOUS
<1>p. Power[4] \in Nat /\ Power[8] \in Nat
  BY PowerFacts
<1>1. CASE v.k \in {"nil", "true", "false"}
  <2>1. OwnAtom(v) = Atom(v.k, 0, <<>>)
    BY <1>1 DEF OwnAtom
  <2>2. Children(v, units) = <<>>
    BY <1>1 DEF Children
  <2>3. Inside(v.k, 0) = 0
    BY <1>1 DEF Inside
  <2>. QED
    BY <1>1, <1>e, <2>1, <2>2, <2>3, AtomFields DEF WellAtom
<1>2. CASE v.k \in {"int", "bigint", "float", "float32"}
  <2>1. OwnAtom(v) = Atom(v.k, v.n, <<>>)
    BY <1>2 DEF OwnAtom
  <2>2. Children(v, units) = <<>>
    BY <1>2 DEF Children
  <2>3. Inside(v.k, v.n) = 0
    BY <1>2 DEF Inside
  <2>4. CASE v.k \in {"int", "bigint"}
    <3>1. v.n \in Int
      BY <1>0, <2>4 DEF WellFormed
    <3>. QED
      BY <2>4, <1>e, <2>1, <2>2, <2>3, <3>1, AtomFields DEF WellAtom
  <2>5. CASE v.k = "float"
    <3>1. v.n \in 0 .. Power[8] - 1
      BY <1>0, <2>5 DEF WellFormed
    <3>2. v.n \in Int
      BY <1>p, <3>1
    <3>. QED
      BY <2>5, <1>e, <2>1, <2>2, <2>3, <3>1, <3>2, AtomFields DEF WellAtom
  <2>6. CASE v.k = "float32"
    <3>1. v.n \in 0 .. Power[4] - 1
      BY <1>0, <2>6 DEF WellFormed
    <3>2. v.n \in Int
      BY <1>p, <3>1
    <3>. QED
      BY <2>6, <1>e, <2>1, <2>2, <2>3, <3>1, <3>2, AtomFields DEF WellAtom
  <2>. QED
    BY <1>2, <2>4, <2>5, <2>6
<1>3. CASE v.k \in {"str", "bin"}
  <2>1. OwnAtom(v) = Atom(v.k, Len(v.s), v.s)
    BY <1>3 DEF OwnAtom
  <2>2. Children(v, units) = <<>>
    BY <1>3 DEF Children
  <2>3. Inside(v.k, Len(v.s)) = 0
    BY <1>3 DEF Inside
  <2>4. v.s \in Seq(Digit) /\ Len(v.s) < Power[4]
    BY <1>0, <1>3 DEF WellFormed
  <2>5. Len(v.s) \in Int
    BY <2>4
  <2>. QED
    BY <1>3, <1>e, <2>1, <2>2, <2>3, <2>4, <2>5, AtomFields DEF WellAtom
<1>4. CASE v.k = "array"
  <2>1. OwnAtom(v) = Atom("array", Len(v.items), <<>>)
    BY <1>4 DEF OwnAtom
  <2>2. Children(v, units) = v.items
    BY <1>4 DEF Children
  <2>3. Inside("array", Len(v.items)) = Len(v.items)
    BY DEF Inside
  <2>4. v.items \in Seq(Values) /\ Len(v.items) < Power[4]
    BY <1>0, <1>4 DEF WellFormed
  <2>5. Len(v.items) \in 0 .. Power[4] - 1
    BY <1>p, <2>4
  <2>. QED
    BY <1>4, <2>1, <2>2, <2>3, <2>4, <2>5, AtomFields DEF WellAtom
<1>5. CASE v.k = "map"
  <2>. DEFINE K == DOMAIN v.fields  c == Cardinality(K)  keys == KeyOrder(units, K)
              Child(i) == IF i % 2 = 1 THEN Text(keys[(i + 1) \div 2])
                                       ELSE v.fields[keys[i \div 2]]
  <2>1. OwnAtom(v) = Atom("map", c, <<>>)
    BY <1>5 DEF OwnAtom
  <2>2. Children(v, units) = [i \in 1..2 * c |-> Child(i)]
    BY <1>5 DEF Children
  <2>3. Inside("map", c) = 2 * c
    BY DEF Inside
  <2>4. /\ v.fields \in [K -> Values] /\ K \subseteq Seq(Digit)
        /\ IsFiniteSet(K) /\ c < Power[4]
        /\ \A key \in K : Text(key) \in Values
    BY <1>0, <1>5 DEF WellFormed
  <2>5. keys \in [1..c -> K] /\ c \in Nat
    BY <2>4, KeysOrdered DEF Ordered
  <2>. HIDE DEF K, c, keys
  <2>6. ASSUME NEW i \in 1..2 * c PROVE Child(i) \in Values
    <3>1. CASE i % 2 = 1
      <4>1. (i + 1) \div 2 \in 1..c
        BY <2>5, <3>1
      <4>2. Text(keys[(i + 1) \div 2]) \in Values
        BY <2>4, <2>5, <4>1
      <4>. QED
        BY <3>1, <4>2
    <3>2. CASE i % 2 # 1
      <4>1. i \div 2 \in 1..c
        BY <2>5, <3>2
      <4>2. v.fields[keys[i \div 2]] \in Values
        BY <2>4, <2>5, <4>1
      <4>. QED
        BY <3>2, <4>2
    <3>. QED
      BY <3>1, <3>2
  <2>. DEFINE q == [i \in 1..2 * c |-> Child(i)]
  <2>7. q \in Seq(Values) /\ Len(q) = 2 * c
    <3>. HIDE DEF Child
    <3>1. 2 * c \in Nat
      BY <2>5
    <3>2. q \in [1..2 * c -> Values]
      BY <2>6
    <3>. QED
      BY <3>1, <3>2
  <2>8. c \in 0 .. Power[4] - 1
    BY <1>p, <2>4, <2>5
  <2>9. Children(v, units) = q
    BY <2>2
  <2>. HIDE DEF q
  <2>. QED
    BY <1>5, <2>1, <2>3, <2>7, <2>8, <2>9, AtomFields DEF WellAtom
<1>. QED
  BY <1>0, <1>1, <1>2, <1>3, <1>4, <1>5 DEF WellFormed

\* The states of the walk over a value.
WalkState == [done : Seq(AtomSet), due : Seq(Values)]

\* One step of the walk adds one atom, and leaves as many values due as the
\* atom counts in place of the one visited.
LEMMA VisitFacts ==
    ASSUME NEW w \in WalkState, NEW units \in BOOLEAN
    PROVE  /\ Visit(w, units) \in WalkState
           /\ w.due = <<>> => Visit(w, units) = w
           /\ w.due # <<>> =>
                 /\ Len(Visit(w, units).done) = Len(w.done) + 1
                 /\ \A j \in 1..Len(w.done) : Visit(w, units).done[j] = w.done[j]
                 /\ LET a == Visit(w, units).done[Len(w.done) + 1]
                    IN  Len(Visit(w, units).due) = Len(w.due) - 1 + Inside(a.k, a.n)
<1>1. w.done \in Seq(AtomSet) /\ w.due \in Seq(Values)
  BY DEF WalkState
<1>2. CASE w.due = <<>>
  BY <1>2 DEF Visit
<1>3. CASE w.due # <<>>
  <2>. DEFINE v == Head(w.due)  t == Tail(w.due)  a == OwnAtom(v)  c == Children(v, units)
              x == Append(w.done, a)  y == c \o t
  <2>1. v \in Values /\ t \in Seq(Values) /\ Len(t) = Len(w.due) - 1 /\ Len(w.due) \in Nat
    BY <1>1, <1>3, HeadTailProperties
  <2>2. c \in Seq(Values) /\ Len(c) = Inside(a.k, a.n)
    BY <2>1, ValueFacts
  <2>3. Visit(w, units) = [done |-> x, due |-> y]
    BY <1>3, Zenon DEF Visit
  <2>4. a \in AtomSet
    BY <2>1 DEF AtomSet
  <2>. HIDE DEF v, t, a, c
  <2>5. y \in Seq(Values) /\ Len(y) = Len(c) + Len(t)
    BY <2>1, <2>2, ConcatProperties
  <2>6. /\ x \in Seq(AtomSet) /\ Len(x) = Len(w.done) + 1
        /\ \A j \in 1..Len(w.done) : x[j] = w.done[j]
        /\ x[Len(w.done) + 1] = a
    BY <1>1, <2>4, AppendProperties
  <2>. HIDE DEF x, y
  <2>7. Visit(w, units) \in WalkState
    BY <2>3, <2>5, <2>6 DEF WalkState
  <2>8. Visit(w, units).done = x /\ Visit(w, units).due = y
    BY <2>3
  <2>9. Len(y) = Len(w.due) - 1 + Inside(a.k, a.n)
    <3>1. Len(t) \in Nat /\ Len(c) \in Nat
      BY <2>1, <2>2
    <3>. QED
      BY <2>1, <2>2, <2>5, <3>1
  <2>. QED
    BY <1>3, <2>6, <2>7, <2>8, <2>9
<1>. QED
  BY <1>2, <1>3

\* The equations of the walk.
LEMMA WalkUnfolds ==
    ASSUME NEW v \in Values, NEW units \in BOOLEAN
    PROVE  /\ Walk(v, units) \in [0..MaxAtoms -> WalkState]
           /\ Walk(v, units)[0] = [done |-> <<>>, due |-> <<v>>]
           /\ \A i \in 1..MaxAtoms :
                 Walk(v, units)[i] = Visit(Walk(v, units)[i - 1], units)
<1>. DEFINE n == MaxAtoms  z == [done |-> <<>>, due |-> <<v>>]
            step == [p \in (1..n) \X WalkState |-> Visit(p[2], units)]
<1>0. n \in Nat
  BY CodecAssumption
<1>1. z \in WalkState
  <2>1. <<>> \in Seq(AtomSet) /\ <<v>> \in Seq(Values)
    OBVIOUS
  <2>. QED
    BY <2>1 DEF WalkState
<1>2. step \in [(1..n) \X WalkState -> WalkState]
  <2>1. ASSUME NEW p \in (1..n) \X WalkState PROVE Visit(p[2], units) \in WalkState
    <3>1. p[2] \in WalkState
      OBVIOUS
    <3>. QED
      BY <3>1, VisitFacts
  <2>. QED
    BY <2>1
<1>. HIDE DEF z
<1>3. PICK g : Unfolds(g, n, WalkState, z, step)
  <2>. HIDE DEF step
  <2>1. Follows(n, WalkState, z, step)
    BY <1>0, <1>1, <1>2 DEF Follows
  <2>. QED
    BY ONLY <2>1, Recursion
<1>4. g \in [0..n -> WalkState] /\ g[0] = z
  BY <1>3 DEF Unfolds
<1>5. ASSUME NEW i \in 1..n PROVE g[i] = Visit(g[i - 1], units)
  <2>1. i - 1 \in 0..n
    BY <1>0
  <2>2. <<i, g[i - 1]>> \in (1..n) \X WalkState
    BY <1>4, <2>1
  <2>. QED
    BY <1>3, <2>2 DEF Unfolds
<1>. DEFINE IsWalk(f) == f = [i \in 0..n |-> IF i = 0 THEN z ELSE Visit(f[i - 1], units)]
<1>6. IsWalk(g)
  <2>1. ASSUME NEW i \in 0..n PROVE g[i] = IF i = 0 THEN z ELSE Visit(g[i - 1], units)
    <3>1. CASE i = 0
      BY <1>4, <3>1
    <3>2. CASE i # 0
      <4>1. i \in 1..n
        BY <1>0, <3>2
      <4>. QED
        BY <1>5, <3>2, <4>1
    <3>. QED
      BY <3>1, <3>2
  <2>. QED
    BY <1>4, <2>1
<1>7. IsWalk(Walk(v, units))
  <2>1. Walk(v, units) = CHOOSE f : IsWalk(f)
    BY Zenon DEF Walk, z
  <2>. HIDE DEF IsWalk
  <2>. QED
    BY <1>6, <2>1
<1>. DEFINE f == Walk(v, units)
<1>8. f[0] = z
  BY <1>0, <1>7
<1>9. \A i \in 1..n : f[i] = Visit(f[i - 1], units)
  BY <1>0, <1>7
<1>. DEFINE G == {i \in 0..n : f[i] \in WalkState}
<1>10. 0 \in G
  BY <1>0, <1>1, <1>8
<1>11. ASSUME NEW i \in 0..n - 1, i \in G PROVE i + 1 \in G
  <2>1. i + 1 \in 1..n /\ (i + 1) - 1 = i /\ i + 1 \in 0..n
    BY <1>0
  <2>2. f[i + 1] = Visit(f[i], units)
    BY <1>9, <2>1
  <2>3. f[i + 1] \in WalkState
    BY <1>11, <2>2, VisitFacts
  <2>. QED
    BY <2>1, <2>3
<1>12. \A i \in 0..n : i \in G
  <2>. HIDE DEF G
  <2>. QED
    BY <1>0, <1>10, <1>11, InductionUpTo
<1>13. f \in [0..n -> WalkState]
  BY <1>7, <1>12
<1>. QED
  BY <1>8, <1>9, <1>13 DEF z

\* How many values are still due when i atoms of a value are done.
Left(v, units, i) == Len(Walk(v, units)[i].due)

\* A value's atoms: while one is to come, a value is due; none is due behind
\* the last; and each takes one away and brings those it counts.
LEMMA FlatFacts ==
    ASSUME NEW v \in Values, NEW units \in BOOLEAN
    PROVE  /\ Flat(v, units) \in Seq(AtomSet) /\ Len(Flat(v, units)) \in Nat \ {0}
           /\ Left(v, units, 0) = 1
           /\ \A i \in 0..Len(Flat(v, units)) :
                 /\ Left(v, units, i) \in Nat
                 /\ Left(v, units, i) = 0 <=> i = Len(Flat(v, units))
           /\ \A i \in 1..Len(Flat(v, units)) :
                 Left(v, units, i) = Left(v, units, i - 1) - 1
                     + Inside(Flat(v, units)[i].k, Flat(v, units)[i].n)
<1>. DEFINE w == Walk(v, units)  N == MaxAtoms  p == Flat(v, units)
<1>0. N \in Nat
  BY CodecAssumption
<1>1. /\ w \in [0..N -> WalkState] /\ w[0] = [done |-> <<>>, due |-> <<v>>]
      /\ \A i \in 1..N : w[i] = Visit(w[i - 1], units)
  BY WalkUnfolds
<1>2. w[N].due = <<>>
  BY ValuesAssumption
<1>3. p = w[N].done
  BY DEF Flat
<1>4. \A i : Left(v, units, i) = Len(w[i].due)
  BY DEF Left
<1>. HIDE DEF w, p
<1>5. \A i \in 0..N : w[i] \in WalkState /\ w[i].done \in Seq(AtomSet) /\ w[i].due \in Seq(Values)
  BY <1>1 DEF WalkState
<1>. DEFINE Z == {i \in 0..N : w[i].due = <<>>}
<1>6. PICK n \in Z : \A i \in Z : n <= i
  <2>1. N \in Z
    BY <1>0, <1>2
  <2>2. Z \in SUBSET Nat /\ Z # {}
    BY <2>1
  <2>. HIDE DEF Z
  <2>. QED
    BY <2>2, LeastOf
<1>7. n \in 0..N /\ w[n].due = <<>> /\ n \in Nat
  BY <1>6
<1>8. ASSUME NEW i \in 0..n - 1 PROVE w[i].due # <<>> /\ i \in 0..N
  <2>1. i \in 0..N /\ ~(n <= i)
    BY <1>0, <1>7
  <2>. QED
    BY <1>6, <2>1
<1>9. n # 0
  BY <1>1, <1>7
\* One step before the walk is over.
<1>10. ASSUME NEW i \in 1..n
       PROVE  /\ Len(w[i].done) = Len(w[i - 1].done) + 1
              /\ \A j \in 1..Len(w[i - 1].done) : w[i].done[j] = w[i - 1].done[j]
              /\ LET a == w[i].done[Len(w[i - 1].done) + 1]
                 IN  Len(w[i].due) = Len(w[i - 1].due) - 1 + Inside(a.k, a.n)
  <2>1. i - 1 \in 0..n - 1 /\ i \in 1..N
    BY <1>0, <1>7
  <2>2. w[i - 1] \in WalkState /\ w[i - 1].due # <<>> /\ w[i] = Visit(w[i - 1], units)
    BY <1>1, <1>5, <1>8, <2>1
  <2>. DEFINE b == w[i - 1]
  <2>3. b \in WalkState /\ b.due # <<>> /\ w[i] = Visit(b, units)
    BY <2>2
  <2>4. /\ Len(Visit(b, units).done) = Len(b.done) + 1
        /\ \A j \in 1..Len(b.done) : Visit(b, units).done[j] = b.done[j]
        /\ LET a == Visit(b, units).done[Len(b.done) + 1]
           IN  Len(Visit(b, units).due) = Len(b.due) - 1 + Inside(a.k, a.n)
    <3>. HIDE DEF b
    <3>. QED
      BY <2>3, VisitFacts, Zenon
  <2>. QED
    BY <2>3, <2>4
<1>11. ASSUME NEW i \in 0..n PROVE Len(w[i].done) = i
  <2>. DEFINE G == {k \in 0..n : Len(w[k].done) = k}
  <2>1. 0 \in G
    BY <1>1, <1>7
  <2>2. ASSUME NEW k \in 0..n - 1, k \in G PROVE k + 1 \in G
    <3>1. k + 1 \in 1..n /\ (k + 1) - 1 = k /\ k + 1 \in 0..n
      BY <1>7
    <3>2. Len(w[k + 1].done) = Len(w[k].done) + 1
      BY <1>10, <3>1
    <3>. QED
      BY <2>2, <3>1, <3>2
  <2>3. \A k \in 0..n : k \in G
    <3>. HIDE DEF G
    <3>. QED
      BY <1>7, <2>1, <2>2, InductionUpTo
  <2>. QED
    BY <2>3
\* When it is over it stays as it is.
<1>12. w[N] = w[n]
  <2>. DEFINE G == {k \in 0..(N - n) : w[n + k] = w[n]}
  <2>0. N - n \in Nat
    BY <1>0, <1>7
  <2>1. 0 \in G
    <3>1. n + 0 = n
      BY <1>7
    <3>. QED
      BY <2>0, <3>1
  <2>2. ASSUME NEW k \in 0..(N - n) - 1, k \in G PROVE k + 1 \in G
    <3>1. n + (k + 1) \in 1..N /\ (n + (k + 1)) - 1 = n + k /\ k + 1 \in 0..(N - n)
      BY <1>0, <1>7
    <3>2. w[n + (k + 1)] = Visit(w[n + k], units)
      BY <1>1, <3>1
    <3>3. w[n + k] = w[n]
      BY <2>2
    <3>4. Visit(w[n], units) = w[n]
      BY <1>5, <1>7, VisitFacts
    <3>. QED
      BY <3>1, <3>2, <3>3, <3>4
  <2>3. \A k \in 0..(N - n) : k \in G
    <3>. HIDE DEF G
    <3>. QED
      BY <2>0, <2>1, <2>2, InductionUpTo
  <2>4. N - n \in 0..(N - n) /\ n + (N - n) = N
    BY <1>0, <1>7, <2>0
  <2>. QED
    BY <2>3, <2>4
<1>13. p = w[n].done /\ p \in Seq(AtomSet) /\ Len(p) = n
  <2>1. n \in 0..n
    BY <1>7
  <2>. QED
    BY <1>3, <1>5, <1>7, <1>11, <1>12, <2>1
\* An atom done stays.
<1>14. ASSUME NEW i \in 1..n PROVE p[i] = w[i].done[i]
  <2>. DEFINE G == {k \in 0..(n - i) : w[i + k].done[i] = w[i].done[i]}
  <2>0. n - i \in Nat /\ i \in Nat /\ i >= 1
    BY <1>7
  <2>1. 0 \in G
    <3>1. i + 0 = i
      BY <2>0
    <3>. QED
      BY <2>0, <3>1
  <2>2. ASSUME NEW k \in 0..(n - i) - 1, k \in G PROVE k + 1 \in G
    <3>1. /\ i + (k + 1) \in 1..n /\ (i + (k + 1)) - 1 = i + k /\ k + 1 \in 0..(n - i)
          /\ i + k \in 0..n /\ i \in 1..(i + k)
      BY <1>7, <2>0
    <3>2. Len(w[i + k].done) = i + k
      BY <1>11, <3>1
    <3>3. w[i + (k + 1)].done[i] = w[i + k].done[i]
      BY <1>10, <3>1, <3>2
    <3>. QED
      BY <2>2, <3>1, <3>3
  <2>3. \A k \in 0..(n - i) : k \in G
    <3>. HIDE DEF G
    <3>. QED
      BY <2>0, <2>1, <2>2, InductionUpTo
  <2>4. n - i \in 0..(n - i) /\ i + (n - i) = n
    BY <1>7, <2>0
  <2>. QED
    BY <1>13, <2>3, <2>4
<1>15. Left(v, units, 0) = 1
  <2>1. w[0].due = <<v>>
    BY <1>1
  <2>2. Len(<<v>>) = 1
    OBVIOUS
  <2>. QED
    BY <1>4, <2>1, <2>2
<1>16. ASSUME NEW i \in 0..n
       PROVE  Left(v, units, i) \in Nat /\ (Left(v, units, i) = 0 <=> i = n)
  <2>1. i \in 0..N
    BY <1>0, <1>7
  <2>2. w[i].due \in Seq(Values)
    BY <1>5, <2>1
  <2>3. w[i].due = <<>> <=> i = n
    <3>1. CASE i = n
      BY <1>7, <3>1
    <3>2. CASE i # n
      <4>1. i \in 0..n - 1
        BY <1>7, <3>2
      <4>. QED
        BY <1>8, <3>2, <4>1
    <3>. QED
      BY <3>1, <3>2
  <2>. QED
    BY <1>4, <2>2, <2>3
<1>17. ASSUME NEW i \in 1..n
       PROVE  Left(v, units, i) = Left(v, units, i - 1) - 1 + Inside(p[i].k, p[i].n)
  <2>1. i - 1 \in 0..n /\ (i - 1) + 1 = i
    BY <1>7
  <2>2. Len(w[i - 1].done) + 1 = i
    BY <1>11, <2>1
  <2>3. LET a == w[i].done[i]
        IN  Len(w[i].due) = Len(w[i - 1].due) - 1 + Inside(a.k, a.n)
    BY <1>10, <2>2
  <2>. QED
    BY <1>4, <1>14, <2>3
<1>. QED
  BY <1>9, <1>7, <1>13, <1>15, <1>16, <1>17 DEF p

-----------------------------------------------------------------------------
(***************************************************************************)
(* What is written for an atom: a first byte, an argument, and data.       *)
(***************************************************************************)
\* The kinds a first byte can have, and the widths of an argument.
LeadKinds == {"nil", "true", "false", "uint", "sint", "nint", "float",
              "str", "bin", "array", "map"}
Widths    == {0, 1, 2, 4, 8}
Byte      == [kind : LeadKinds \cup {"raw"}, width : Widths, n : Int]

\* The argument of what begins with h.
Arg(h) == IF h[1].width = 0 THEN h[1].n ELSE Number(SubSeq(h, 2, 1 + h[1].width))

\* h is the first byte of kind k and an argument m of w bytes.
HeadOf(h, k, w, m) ==
    /\ k \in LeadKinds /\ w \in Widths /\ m \in Int
    /\ h \in Seq(Byte) /\ Len(h) = 1 + w
    /\ h[1].kind = k /\ h[1].width = w /\ Arg(h) = m

\* The fields of a first byte.
LEMMA LeadFields ==
    ASSUME NEW k, NEW w, NEW n
    PROVE  /\ Lead(k, w, n).kind = k /\ Lead(k, w, n).width = w /\ Lead(k, w, n).n = n
           /\ Lead(k, w, n) = [kind |-> k, width |-> w, n |-> n]
           /\ k \in LeadKinds \cup {"raw"} /\ w \in Widths /\ n \in Int => Lead(k, w, n) \in Byte
  BY DEF Lead, Byte

\* The argument in the first byte.
LEMMA HeadInline ==
    ASSUME NEW k \in LeadKinds, NEW n \in Int
    PROVE  HeadOf(<<Lead(k, 0, n)>>, k, 0, n)
<1>. DEFINE b == Lead(k, 0, n)  h == <<b>>
<1>1. b \in Byte /\ b.kind = k /\ b.width = 0 /\ b.n = n
  BY LeadFields DEF Widths
<1>. HIDE DEF b
<1>2. h \in Seq(Byte) /\ Len(h) = 1 /\ h[1] = b
  BY <1>1
<1>. HIDE DEF h
<1>3. Arg(h) = n
  BY <1>1, <1>2 DEF Arg
<1>4. HeadOf(h, k, 0, n)
  BY <1>1, <1>2, <1>3 DEF HeadOf, Widths
<1>. QED
  BY <1>4 DEF h, b

\* The digits of a number are bytes.
LEMMA DigitBytes ==
    ASSUME NEW n \in Int, NEW w \in 1..8
    PROVE  /\ Digits(n, w) \in Seq(Byte) /\ Len(Digits(n, w)) = w
           /\ \A i \in 1..w :
                 Digits(n, w)[i].n = ((n % Power[w]) \div Power[w - i]) % Base
<1>. DEFINE D(i) == ((n % Power[w]) \div Power[w - i]) % Base
            q == [i \in 1..w |-> Raw(D(i))]
<1>1. ASSUME NEW i \in 1..w PROVE D(i) \in Int
  <2>1. w - i \in 0..8 /\ w \in 0..8
    OBVIOUS
  <2>2. Power[w] \in Nat \ {0} /\ Power[w - i] \in Nat \ {0} /\ Base \in Nat \ {0}
    BY <2>1, PowerFacts
  <2>3. n % Power[w] \in Int
    BY <2>2, Division
  <2>4. (n % Power[w]) \div Power[w - i] \in Int
    BY <2>2, <2>3, Division
  <2>5. D(i) \in 0..Base - 1
    BY <2>2, <2>4, Division
  <2>. QED
    BY <2>2, <2>5
<1>2. Digits(n, w) = q
  BY Zenon DEF Digits
<1>. HIDE DEF D
<1>3. ASSUME NEW i \in 1..w PROVE Raw(D(i)) \in Byte /\ Raw(D(i)).n = D(i)
  BY <1>1, LeadFields DEF Raw, Widths
<1>4. w \in Nat
  OBVIOUS
<1>5. q \in Seq(Byte) /\ Len(q) = w
  <2>1. q \in [1..w -> Byte]
    BY <1>3
  <2>. QED
    BY <1>4, <2>1
<1>6. \A i \in 1..w : q[i].n = D(i)
  BY <1>3
<1>. QED
  BY <1>2, <1>5, <1>6 DEF D

\* The argument in the bytes that follow.
LEMMA HeadDigits ==
    ASSUME NEW k \in LeadKinds, NEW w \in {1, 2, 4, 8}, NEW n \in Int
    PROVE  HeadOf(<<Lead(k, w, 0)>> \o Digits(n, w), k, w, n % Power[w])
<1>. DEFINE b == Lead(k, w, 0)  p == <<b>>  d == Digits(n, w)  h == p \o d
            m == n % Power[w]
<1>0. w \in 1..8 /\ w \in Widths /\ w # 0 /\ w \in Nat
  BY DEF Widths
<1>1. b \in Byte /\ b.kind = k /\ b.width = w
  BY <1>0, LeadFields
<1>2. d \in Seq(Byte) /\ Len(d) = w
      /\ \A i \in 1..w : d[i].n = ((n % Power[w]) \div Power[w - i]) % Base
  BY <1>0, DigitBytes
<1>. HIDE DEF b, d
<1>3. p \in Seq(Byte) /\ Len(p) = 1 /\ p[1] = b
  BY <1>1
<1>. HIDE DEF p
<1>4. /\ h \in Seq(Byte) /\ Len(h) = 1 + w
      /\ \A i \in 1..1 : h[i] = p[i]
      /\ \A i \in 1..w : h[1 + i] = d[i]
  <2>1. /\ p \o d \in Seq(Byte) /\ Len(p \o d) = Len(p) + Len(d)
        /\ \A i \in 1..Len(p) : (p \o d)[i] = p[i]
        /\ \A i \in 1..Len(d) : (p \o d)[Len(p) + i] = d[i]
    <3>1. p \in Seq(Byte) /\ d \in Seq(Byte)
      BY <1>2, <1>3
    <3>. QED
      BY ONLY <3>1, ConcatGrows
  <2>. QED
    BY <1>2, <1>3, <2>1
<1>. HIDE DEF h
<1>5. h[1] = b
  BY <1>3, <1>4
<1>. DEFINE s == SubSeq(h, 2, 1 + w)
<1>6. Len(s) = w /\ \A i \in 1..w : s[i] = d[i]
  <2>1. 1 + w \in 1..Len(h) /\ 1 \in Nat /\ 1 + 1 = 2 /\ (1 + w) - 1 = w
    BY <1>0, <1>4
  <2>2. /\ Len(SubSeq(h, 1 + 1, 1 + w)) = (1 + w) - 1
        /\ \A j \in 1..((1 + w) - 1) : SubSeq(h, 1 + 1, 1 + w)[j] = h[1 + j]
    BY <1>4, <2>1, Part
  <2>. QED
    BY <1>4, <2>1, <2>2
<1>. HIDE DEF s
<1>7. Spells(s, n, w)
  BY <1>2, <1>6 DEF Spells
<1>8. Number(s) = m
  BY <1>0, <1>7, DigitsNumber
<1>9. Arg(h) = m
  BY <1>0, <1>1, <1>5, <1>8 DEF Arg, s
<1>10. m \in Int
  <2>1. Power[w] \in Nat \ {0}
    BY <1>0, PowerFacts
  <2>2. m \in 0..Power[w] - 1
    BY <2>1, Division
  <2>. QED
    BY <2>1, <2>2
<1>. HIDE DEF m
<1>11. HeadOf(h, k, w, m)
  BY <1>0, <1>1, <1>4, <1>5, <1>9, <1>10 DEF HeadOf
<1>. QED
  BY <1>11 DEF h, p, b, d, m

\* A head h, and data d to write behind it.
Begins(h, k, w, m, d) == HeadOf(h, k, w, m) /\ d \in Seq(Byte)

\* c is a head and the data d.
Carries(c, k, w, m, d) ==
    /\ c \in Seq(Byte) /\ Len(c) = 1 + w + Len(d)
    /\ c[1].kind = k /\ c[1].width = w /\ Arg(c) = m
    /\ \A j \in 1..Len(d) : c[1 + w + j] = d[j]

\* What follows a head does not change its argument.
LEMMA HeadData ==
    ASSUME NEW h, NEW k, NEW w, NEW m, NEW d, Begins(h, k, w, m, d)
    PROVE  Carries(h \o d, k, w, m, d)
<1>. DEFINE c == h \o d
<1>0. w \in 0..8 /\ w \in Nat /\ Len(d) \in Nat
  BY DEF Begins, HeadOf, Widths
<1>1. h \in Seq(Byte) /\ Len(h) = 1 + w /\ h[1].kind = k /\ h[1].width = w /\ Arg(h) = m
        /\ d \in Seq(Byte)
  BY DEF Begins, HeadOf
<1>2. /\ c \in Seq(Byte) /\ Len(c) = (1 + w) + Len(d)
      /\ \A i \in 1..(1 + w) : c[i] = h[i]
      /\ \A i \in 1..Len(d) : c[(1 + w) + i] = d[i]
  <2>1. d \in Seq(Byte) /\ h \in Seq(Byte)
    BY <1>1
  <2>2. /\ h \o d \in Seq(Byte) /\ Len(h \o d) = Len(h) + Len(d)
        /\ \A i \in 1..Len(h) : (h \o d)[i] = h[i]
        /\ \A i \in 1..Len(d) : (h \o d)[Len(h) + i] = d[i]
    BY ONLY <2>1, ConcatGrows
  <2>. QED
    BY <1>1, <2>2
<1>. HIDE DEF c
<1>3. c[1] = h[1]
  BY <1>0, <1>2
<1>4. SubSeq(c, 2, 1 + w) = SubSeq(h, 2, 1 + w)
  <2>1. /\ 1 + w \in 1..Len(h) /\ 1 + w \in 1..Len(c)
        /\ 1 \in Nat /\ 1 + 1 = 2 /\ (1 + w) - 1 = w
    BY <1>0, <1>1, <1>2
  <2>2. /\ SubSeq(h, 1 + 1, 1 + w) \in Seq(Byte) /\ Len(SubSeq(h, 1 + 1, 1 + w)) = (1 + w) - 1
        /\ \A j \in 1..((1 + w) - 1) : SubSeq(h, 1 + 1, 1 + w)[j] = h[1 + j]
    BY <1>1, <2>1, Part
  <2>3. /\ SubSeq(c, 1 + 1, 1 + w) \in Seq(Byte) /\ Len(SubSeq(c, 1 + 1, 1 + w)) = (1 + w) - 1
        /\ \A j \in 1..((1 + w) - 1) : SubSeq(c, 1 + 1, 1 + w)[j] = c[1 + j]
    BY <1>2, <2>1, Part
  <2>4. \A j \in 1..w : 1 + j \in 1..(1 + w)
    BY <1>0
  <2>5. \A j \in 1..w : SubSeq(c, 2, 1 + w)[j] = SubSeq(h, 2, 1 + w)[j]
    BY <1>2, <2>1, <2>2, <2>3, <2>4
  <2>. QED
    BY <2>1, <2>2, <2>3, <2>5, SeqEqual
<1>5. Arg(c) = m
  BY <1>1, <1>3, <1>4 DEF Arg
<1>. QED
  BY <1>1, <1>2, <1>3, <1>5 DEF c, Carries

\* The least of some widths is one of them.
LEMMA LeastWidth ==
    ASSUME NEW S \in SUBSET {1, 2, 4, 8}, S # {}
    PROVE  Min(S) \in S
<1>1. S \in SUBSET Nat
  OBVIOUS
<1>2. \E x \in S : \A y \in S : x <= y
  BY <1>1, LeastOf
<1>. QED
  BY <1>2, Zenon DEF Min

\* A prefix spells its number, in the head or in a width that holds it.
LEMMA PrefixHead ==
    ASSUME NEW k \in LeadKinds, NEW inline \in Int, NEW widths \in SUBSET {1, 2, 4, 8},
           NEW n \in Nat, \E w \in widths : n < Power[w]
    PROVE  \E w \in Widths : /\ HeadOf(Prefix(k, inline, widths, n), k, w, n)
                             /\ IF w = 0 THEN n <= inline ELSE n < Power[w]
<1>1. CASE n <= inline
  <2>1. Prefix(k, inline, widths, n) = <<Lead(k, 0, n)>>
    BY <1>1 DEF Prefix
  <2>2. HeadOf(Prefix(k, inline, widths, n), k, 0, n)
    BY <2>1, HeadInline
  <2>. QED
    BY <1>1, <2>2 DEF Widths
<1>2. CASE ~(n <= inline)
  <2>. DEFINE S == {w \in widths : n < Power[w]}  w == Min(S)
  <2>1. w \in S
    BY LeastWidth
  <2>2. Prefix(k, inline, widths, n) = <<Lead(k, w, 0)>> \o Digits(n, w)
    BY <1>2 DEF Prefix
  <2>3. w \in {1, 2, 4, 8} /\ n < Power[w] /\ w \in 1..8 /\ w \in Widths
    <3>1. w \in widths /\ n < Power[w]
      BY <2>1
    <3>. HIDE DEF w
    <3>2. w \in {1, 2, 4, 8}
      BY <3>1
    <3>. QED
      BY <3>1, <3>2 DEF Widths
  <2>. HIDE DEF w
  <2>4. n % Power[w] = n
    <3>1. Power[w] \in Nat
      BY <2>3, PowerFacts
    <3>2. n \in 0..Power[w] - 1
      BY <2>3, <3>1
    <3>. QED
      BY <2>3, <3>2, Fits
  <2>5. HeadOf(Prefix(k, inline, widths, n), k, w, n)
    <3>1. HeadOf(<<Lead(k, w, 0)>> \o Digits(n, w), k, w, n % Power[w])
      <4>1. n \in Int
        OBVIOUS
      <4>. QED
        BY <2>3, <4>1, HeadDigits
    <3>. QED
      BY <2>2, <2>4, <3>1
  <2>. QED
    BY <2>3, <2>5
<1>. QED
  BY <1>1, <1>2

\* An integer n and what is written for it.
Counts(k, w, m, n) ==
    \/ k = "uint" /\ m = n /\ n \in 0 .. Power[8] - 1 /\ (w # 8 => n <= MaxInt64)
    \/ k = "sint" /\ n < 0 /\ n >= MinInt64 /\ (IF w = 0 THEN m = n ELSE Signed(m, w) = n)
    \/ k = "nint" /\ m = -1 - n /\ m \in 0 .. Power[8] - 1 /\ (w # 8 => n >= MinInt64)

\* The bytes of data behind the head.
Body(a) == IF a.k \in {"str", "bin"} THEN a.n ELSE 0

\* What the head of an atom says of it.
Means(k, w, m, a) ==
    \/ a.k = "int" /\ Counts(k, w, m, a.n)
    \/ a.k = "float" /\ k = "float" /\ m = a.n /\ w > 0
    \/ a.k \in {"nil", "true", "false", "str", "bin", "array", "map"} /\ k = a.k /\ m = a.n

Shape(c, a) ==
    /\ c \in Seq(Byte) /\ Len(c) = 1 + c[1].width + Body(a)
    /\ c[1].kind \in LeadKinds /\ c[1].width \in Widths /\ Arg(c) \in Int
    /\ Means(c[1].kind, c[1].width, Arg(c), a)
    /\ \A j \in 1..Body(a) : c[1 + c[1].width + j].n = a.s[j]

\* An atom of its head alone, and one with data.
LEMMA HeadShape ==
    ASSUME NEW c, NEW k, NEW w, NEW m, NEW a,
           HeadOf(c, k, w, m), Means(k, w, m, a), Body(a) = 0
    PROVE  Shape(c, a)
<1>1. /\ k \in LeadKinds /\ w \in Widths /\ m \in Int /\ c \in Seq(Byte) /\ Len(c) = 1 + w
      /\ c[1].kind = k /\ c[1].width = w /\ Arg(c) = m
  BY DEF HeadOf
<1>2. w \in Nat
  BY <1>1 DEF Widths
<1>3. Len(c) = 1 + c[1].width + Body(a)
  BY <1>1, <1>2
<1>. QED
  BY <1>1, <1>3 DEF Shape

\* A text has the shape that its head announces.
LEMMA DataShape ==
    ASSUME NEW h, NEW k, NEW w, NEW m, NEW a,
           HeadOf(h, k, w, m), Means(k, w, m, a),
           a.k \in {"str", "bin"}, a.s \in Seq(Digit), a.n = Len(a.s)
    PROVE  Shape(h \o Data(a), a)
<1>1. k \in LeadKinds /\ w \in Widths /\ m \in Int
  BY DEF HeadOf
<1>2. Body(a) = Len(a.s)
  BY DEF Body
<1>. DEFINE d == Data(a)
<1>3. d \in Seq(Byte) /\ Len(d) = Len(a.s) /\ \A j \in 1..Len(a.s) : d[j].n = a.s[j]
  <2>1. Base \in Nat
    BY PowerFacts
  <2>2. ASSUME NEW j \in 1..Len(a.s) PROVE Raw(a.s[j]) \in Byte /\ Raw(a.s[j]).n = a.s[j]
    <3>1. a.s[j] \in Digit
      BY ElementOfSeq
    <3>2. a.s[j] \in Int
      BY <2>1, <3>1 DEF Digit
    <3>. QED
      BY <3>2, LeadFields DEF Raw, Widths
  <2>3. d = [j \in 1..Len(a.s) |-> Raw(a.s[j])]
    <3>1. DOMAIN a.s = 1..Len(a.s)
      OBVIOUS
    <3>. QED
      BY <3>1 DEF Data
  <2>. QED
    BY <2>2, <2>3
<1>. DEFINE c == h \o d
<1>4. /\ c \in Seq(Byte) /\ Len(c) = 1 + w + Len(d)
      /\ c[1].kind = k /\ c[1].width = w /\ Arg(c) = m
      /\ \A j \in 1..Len(d) : c[1 + w + j] = d[j]
  <2>1. Begins(h, k, w, m, d)
    BY <1>3 DEF Begins
  <2>. HIDE DEF d
  <2>2. Carries(h \o d, k, w, m, d)
    BY ONLY <2>1, HeadData
  <2>. QED
    BY <2>2 DEF Carries
<1>. HIDE DEF c, d
<1>5. \A j \in 1..Body(a) : c[1 + c[1].width + j].n = a.s[j]
  BY <1>2, <1>3, <1>4
<1>6. Shape(c, a)
  BY <1>1, <1>2, <1>3, <1>4, <1>5 DEF Shape
<1>. QED
  BY <1>6 DEF c, d

-----------------------------------------------------------------------------
\* The bounds of the integers.
LEMMA Bounds ==
    /\ Range64 \in Nat \ {0} /\ Power[8] = Range64
    /\ MinInt64 \in Int /\ MaxInt64 \in Int
    /\ MinInt64 = -(Power[8] \div 2) /\ MaxInt64 = (Power[8] \div 2) - 1
    /\ 2 * (Power[8] \div 2) = Power[8] /\ Power[8] \div 2 \in Nat
    /\ MinInt64 >= -Range64 /\ MaxInt64 <= Range64 - 1
<1>1. 8 \in 0..8 /\ 8 \in 1..8
  OBVIOUS
<1>. DEFINE p == Power[8]  q == p \div 2
<1>2. p \in Nat \ {0} /\ q \in Nat /\ 2 * q = p
  BY <1>1, PowerFacts
<1>3. Range64 = p /\ MinInt64 = -q /\ MaxInt64 = q - 1
  BY DEF Range64, MinInt64, MaxInt64
<1>. HIDE DEF p, q
<1>4. /\ Range64 \in Nat \ {0} /\ MinInt64 \in Int /\ MaxInt64 \in Int
      /\ MinInt64 >= -Range64 /\ MaxInt64 <= Range64 - 1
  BY <1>2, <1>3
<1>. QED
  BY <1>2, <1>3, <1>4 DEF p, q

\* A signed argument of some width.
LEMMA SignedHead ==
    ASSUME NEW w \in {1, 2, 4, 8}, NEW n \in Int, n < 0, n >= -(Power[w] \div 2),
           n >= MinInt64
    PROVE  \E v, m : /\ HeadOf(<<Lead("sint", w, 0)>> \o Digits(n, w), "sint", v, m)
                     /\ Counts("sint", v, m, n)
<1>1. w \in 1..8 /\ w # 0
  OBVIOUS
<1>2. "sint" \in LeadKinds
  BY DEF LeadKinds
<1>3. HeadOf(<<Lead("sint", w, 0)>> \o Digits(n, w), "sint", w, n % Power[w])
  BY <1>2, HeadDigits
<1>4. Signed(n % Power[w], w) = n
  <2>1. Power[w] \div 2 \in Nat
    BY <1>1, PowerFacts
  <2>2. n < Power[w] \div 2
    <3>. DEFINE q == Power[w] \div 2
    <3>1. q \in Nat
      BY <2>1
    <3>. HIDE DEF q
    <3>2. n < q
      BY <3>1
    <3>. QED
      BY <3>2 DEF q
  <2>. QED
    BY <1>1, <2>2, Fits
<1>5. Counts("sint", w, n % Power[w], n)
  BY <1>1, <1>4 DEF Counts
<1>. QED
  BY <1>3, <1>5

\* A negative integer in MessagePack takes the least signed width that holds
\* it, and is read back as itself.
LEMMA NegativeHead ==
    ASSUME NEW n \in Int, n < 0, n >= MinInt64
    PROVE  \E v, m : HeadOf(Negative(n), "sint", v, m) /\ Counts("sint", v, m, n)
<1>0. NegFix \in Nat /\ "sint" \in LeadKinds
  BY CodecAssumption DEF LeadKinds
<1>1. CASE n >= -NegFix
  <2>1. Negative(n) = <<Lead("sint", 0, n)>>
    BY <1>1 DEF Negative
  <2>2. HeadOf(Negative(n), "sint", 0, n)
    BY <1>0, <2>1, HeadInline
  <2>3. Counts("sint", 0, n, n)
    BY DEF Counts
  <2>. QED
    BY <2>2, <2>3
<1>2. CASE ~(n >= -NegFix)
  <2>. DEFINE S == {w \in {1, 2, 4, 8} : -n <= Power[w] \div 2}  w == Min(S)
  <2>1. 8 \in S
    BY Bounds
  <2>2. w \in S
    BY <2>1, LeastWidth
  <2>3. Negative(n) = <<Lead("sint", w, 0)>> \o Digits(n, w)
    BY <1>2 DEF Negative
  <2>4. w \in {1, 2, 4, 8} /\ -n <= Power[w] \div 2
    BY <2>2
  <2>. HIDE DEF w
  <2>5. n >= -(Power[w] \div 2)
    <3>. DEFINE q == Power[w] \div 2
    <3>1. w \in 1..8
      BY <2>4
    <3>2. q \in Nat /\ -n <= q
      BY <2>4, <3>1, PowerFacts
    <3>. HIDE DEF q
    <3>3. n >= -q
      BY <3>2
    <3>. QED
      BY <3>3 DEF q
  <2>. QED
    BY <2>3, <2>4, <2>5, SignedHead
<1>. QED
  BY <1>1, <1>2

\* The widths of a prefix hold every number below the power of the widest.
LEMMA PrefixOf ==
    ASSUME NEW k \in LeadKinds, NEW inline \in Int, NEW widths \in SUBSET {1, 2, 4, 8},
           NEW n \in Nat, NEW w \in widths, n < Power[w]
    PROVE  \E v \in Widths : /\ HeadOf(Prefix(k, inline, widths, n), k, v, n)
                             /\ IF v = 0 THEN n <= inline ELSE n < Power[v]
  BY PrefixHead

\* All but the widest arguments are within the signed range.
LEMMA Narrow ==
    ASSUME NEW w \in Widths, NEW n \in Nat, NEW inline \in 0..MaxInt64,
           IF w = 0 THEN n <= inline ELSE n < Power[w], w # 8
    PROVE  n <= MaxInt64
<1>1. CASE w = 0
  <2>1. n <= inline /\ MaxInt64 \in Int
    BY <1>1, Bounds
  <2>. QED
    BY <2>1
<1>2. CASE w # 0
  <2>1. w \in 1..4 /\ n < Power[w]
    BY <1>2 DEF Widths
  <2>. DEFINE P == Power  p == P[7]  q == P[8] \div 2
  <2>2. /\ \A v \in 0..8 : P[v] \in Nat
        /\ \A v \in 1..8 : P[v - 1] <= P[v]
        /\ 2 * q = P[8] /\ q \in Nat /\ Base \in Nat \ {0}
    BY PowerFacts
  <2>3. P[8] = Base * p
    BY Powers
  <2>. HIDE DEF P, q
  <2>4. P[w] <= p
    <3>1. P[1] <= P[2] /\ P[2] <= P[3] /\ P[3] <= P[4] /\ P[4] <= P[5]
          /\ P[5] <= P[6] /\ P[6] <= P[7]
      BY <2>2
    <3>2. P[1] \in Nat /\ P[2] \in Nat /\ P[3] \in Nat /\ P[4] \in Nat
          /\ P[5] \in Nat /\ P[6] \in Nat /\ P[7] \in Nat
      BY <2>2
    <3>3. w = 1 \/ w = 2 \/ w = 3 \/ w = 4
      BY <2>1
    <3>. QED
      BY <3>1, <3>2, <3>3
  <2>5. p <= q
    <3>1. p \in Nat /\ Base >= 2
      <4>1. Base # 1
        BY BaseAssumption
      <4>. QED
        BY <2>2, <4>1
    <3>. HIDE DEF p
    <3>2. 2 * q = Base * p
      BY <2>2, <2>3
    <3>3. Base * p >= 2 * p
      <4>. DEFINE r == Base - 2
      <4>1. r \in Nat /\ Base = r + 2
        BY <2>2, <3>1
      <4>. HIDE DEF r
      <4>2. (r + 2) * p = r * p + 2 * p /\ r * p \in Nat
        BY <3>1, <4>1
      <4>. QED
        BY <3>1, <4>1, <4>2
    <3>. QED
      BY <2>2, <3>1, <3>2, <3>3
  <2>6. P[w] \in Nat /\ p \in Nat
    BY <2>1, <2>2
  <2>7. n <= q - 1
    <3>. HIDE DEF p
    <3>1. n < P[w]
      BY <2>1 DEF P
    <3>. QED
      BY <2>2, <2>4, <2>5, <2>6, <3>1
  <2>. QED
    BY <2>7, Bounds DEF q, P
<1>. QED
  BY <1>1, <1>2

\* Every integer MessagePack can write is written as one.
LEMMA IntHead ==
    ASSUME NEW n \in Int, n >= MinInt64, n <= Range64 - 1
    PROVE  \E k, v, m : HeadOf(EncodeInt(n), k, v, m) /\ Counts(k, v, m, n)
<1>1. CASE n >= 0
  <2>1. EncodeInt(n) = Prefix("uint", PosFix, {1, 2, 4, 8}, n)
    BY <1>1 DEF EncodeInt
  <2>2. n \in Nat /\ n < Power[8] /\ n \in 0 .. Power[8] - 1
    BY <1>1, Bounds
  <2>3. "uint" \in LeadKinds /\ PosFix \in Int /\ {1, 2, 4, 8} \in SUBSET {1, 2, 4, 8}
        /\ 8 \in {1, 2, 4, 8}
    BY CodecAssumption DEF LeadKinds
  <2>4. \E v \in Widths : /\ HeadOf(Prefix("uint", PosFix, {1, 2, 4, 8}, n), "uint", v, n)
                          /\ IF v = 0 THEN n <= PosFix ELSE n < Power[v]
    BY <2>2, <2>3, PrefixOf
  <2>5. PICK v \in Widths : /\ HeadOf(EncodeInt(n), "uint", v, n)
                            /\ IF v = 0 THEN n <= PosFix ELSE n < Power[v]
    BY <2>1, <2>4
  <2>6. v # 8 => n <= MaxInt64
    BY <2>2, <2>5, Narrow, CodecAssumption
  <2>7. Counts("uint", v, n, n)
    BY <2>2, <2>6 DEF Counts
  <2>. QED
    BY <2>5, <2>7
<1>2. CASE n < 0
  <2>1. EncodeInt(n) = Negative(n)
    BY <1>2 DEF EncodeInt
  <2>2. PICK v, m : HeadOf(Negative(n), "sint", v, m) /\ Counts("sint", v, m, n)
    BY <1>2, NegativeHead
  <2>. QED
    BY <2>1, <2>2
<1>. QED
  BY <1>1, <1>2

\* All eight bytes of Node's BigInt are read back as the integer.
LEMMA BigIntHead ==
    ASSUME NEW n \in Int, n >= MinInt64, n <= Range64 - 1
    PROVE  \E k, v, m : HeadOf(EncodeBigInt(n), k, v, m) /\ Counts(k, v, m, n)
<1>1. CASE n >= 0
  <2>1. EncodeBigInt(n) = <<Lead("uint", 8, 0)>> \o Digits(n, 8)
    BY <1>1 DEF EncodeBigInt
  <2>2. n \in 0 .. Power[8] - 1 /\ 8 \in 1..8 /\ "uint" \in LeadKinds /\ 8 \in {1, 2, 4, 8}
    BY <1>1, Bounds DEF LeadKinds
  <2>3. n % Power[8] = n
    BY <2>2, Fits
  <2>4. HeadOf(EncodeBigInt(n), "uint", 8, n)
    BY <2>1, <2>2, <2>3, HeadDigits
  <2>5. Counts("uint", 8, n, n)
    BY <2>2 DEF Counts
  <2>. QED
    BY <2>4, <2>5
<1>2. CASE n < 0
  <2>1. EncodeBigInt(n) = <<Lead("sint", 8, 0)>> \o Digits(n, 8)
    BY <1>2 DEF EncodeBigInt
  <2>2. 8 \in {1, 2, 4, 8} /\ n >= -(Power[8] \div 2)
    BY Bounds
  <2>3. PICK v, m : /\ HeadOf(<<Lead("sint", 8, 0)>> \o Digits(n, 8), "sint", v, m)
                    /\ Counts("sint", v, m, n)
    BY <1>2, <2>2, SignedHead
  <2>. QED
    BY <2>1, <2>3
<1>. QED
  BY <1>1, <1>2

\* And every integer of CBOR.
LEMMA CborIntHead ==
    ASSUME NEW n \in Int, n >= -Range64, n <= Range64 - 1
    PROVE  \E k, v, m : /\ HeadOf(IF n >= 0 THEN CborHead("uint", n)
                                            ELSE CborHead("nint", -1 - n), k, v, m)
                        /\ Counts(k, v, m, n)
<1>0. /\ Immediate \in Int /\ {1, 2, 4, 8} \in SUBSET {1, 2, 4, 8} /\ 8 \in {1, 2, 4, 8}
      /\ "uint" \in LeadKinds /\ "nint" \in LeadKinds
  BY CodecAssumption DEF LeadKinds
<1>1. CASE n >= 0
  <2>1. n \in Nat /\ n < Power[8] /\ n \in 0 .. Power[8] - 1
    BY <1>1, Bounds
  <2>2. PICK v \in Widths : /\ HeadOf(CborHead("uint", n), "uint", v, n)
                            /\ IF v = 0 THEN n <= Immediate ELSE n < Power[v]
    BY <1>0, <2>1, PrefixOf DEF CborHead
  <2>3. Counts("uint", v, n, n)
    <3>1. v # 8 => n <= MaxInt64
      BY <2>1, <2>2, Narrow, CodecAssumption
    <3>. QED
      BY <2>1, <3>1 DEF Counts
  <2>. QED
    BY <1>1, <2>2, <2>3
<1>2. CASE n < 0
  <2>. DEFINE m == -1 - n
  <2>1. m \in Nat /\ m < Power[8] /\ m \in 0 .. Power[8] - 1 /\ ~(n >= 0)
    BY <1>2, Bounds
  <2>2. PICK v \in Widths : /\ HeadOf(CborHead("nint", m), "nint", v, m)
                            /\ IF v = 0 THEN m <= Immediate ELSE m < Power[v]
    <3>. HIDE DEF m
    <3>. QED
      BY <1>0, <2>1, PrefixOf DEF CborHead
  <2>3. Counts("nint", v, m, n)
    <3>1. v # 8 => m <= MaxInt64
      <4>. HIDE DEF m
      <4>. QED
        BY <2>1, <2>2, Narrow, CodecAssumption
    <3>2. v # 8 => n >= MinInt64
      BY <3>1, Bounds
    <3>. QED
      BY <2>1, <3>2 DEF Counts
  <2>. QED
    BY <2>1, <2>2, <2>3
<1>. QED
  BY <1>1, <1>2

\* What an encoder writes for one atom.
Code(port, f, a) == IF f = "cbor" THEN CborAtom(a) ELSE MsgPackAtom(port, a)

\* What arrives of an atom.
LEMMA ArrivingIs ==
    ASSUME NEW a, WellAtom(a)
    PROVE  /\ Arriving(a).n = a.n /\ Arriving(a).s = a.s
           /\ a.k \in {"int", "bigint"} => Arriving(a).k = "int"
           /\ a.k \in {"float", "float32"} => Arriving(a).k = "float"
           /\ a.k \notin {"bigint", "float32"} => Arriving(a).k = a.k /\ Arriving(a) = a
<1>. DEFINE k == a.k  n == a.n  s == a.s  b == [k |-> k, n |-> n, s |-> s]
            new == CASE k = "float32" -> "float" [] k = "bigint" -> "int" [] OTHER -> k
<1>1. a = b
  BY AtomFields DEF WellAtom, Atom
<1>2. Arriving(a) = [a EXCEPT !.k = new]
  BY DEF Arriving
<1>. HIDE DEF k, n, s, new
<1>3. [a EXCEPT !.k = new] = [k |-> new, n |-> n, s |-> s]
  BY <1>1
<1>4. k # "float32" /\ k # "bigint" => new = k
  BY DEF new
<1>5. k = "float32" => new = "float"
  BY DEF new
<1>6. k = "bigint" => new = "int"
  BY DEF new
<1>. QED
  BY <1>1, <1>2, <1>3, <1>4, <1>5, <1>6 DEF k, n, s

\* The length of an atom is one of those a prefix of four bytes can hold.
LEMMA LengthHead ==
    ASSUME NEW k \in LeadKinds, NEW inline \in Int, NEW widths \in SUBSET {1, 2, 4, 8},
           4 \in widths, NEW n \in Int, n >= 0, n < Power[4]
    PROVE  \E w \in Widths : HeadOf(Prefix(k, inline, widths, n), k, w, n)
<1>1. n \in Nat
  OBVIOUS
<1>. QED
  BY <1>1, PrefixOf

\* The bits of a float.
LEMMA FloatHead ==
    ASSUME NEW w \in {4, 8}, NEW n \in Int, n \in 0 .. Power[w] - 1
    PROVE  HeadOf(Float(n, w), "float", w, n)
<1>1. w \in {1, 2, 4, 8} /\ w \in 1..8 /\ "float" \in LeadKinds
  BY DEF LeadKinds
<1>2. n % Power[w] = n
  BY <1>1, Fits
<1>3. HeadOf(<<Lead("float", w, 0)>> \o Digits(n, w), "float", w, n % Power[w])
  BY <1>1, HeadDigits
<1>. QED
  BY <1>2, <1>3 DEF Float

\* Whatever an encoder writes for an atom says what arrives of it.
LEMMA AtomShape ==
    ASSUME NEW port \in Ports, NEW f \in Formats, NEW a,
           WellAtom(a), AtomWritable(port, f, a)
    PROVE  Shape(Code(port, f, a), Arriving(a))
<1>. DEFINE b == Arriving(a)  c == Code(port, f, a)
<1>0. a.n \in Int /\ b.n = a.n /\ b.s = a.s
  BY ArrivingIs DEF WellAtom
<1>w. /\ {1, 2, 4} \in SUBSET {1, 2, 4, 8} /\ {2, 4} \in SUBSET {1, 2, 4, 8}
      /\ {1, 2, 4, 8} \in SUBSET {1, 2, 4, 8} /\ -1 \in Int
      /\ 4 \in {1, 2, 4} /\ 4 \in {2, 4} /\ 4 \in {1, 2, 4, 8}
      /\ FixStr \in Int /\ FixLen \in Int /\ Immediate \in Int
  BY CodecAssumption
<1>1. CASE a.k \in {"nil", "true", "false"}
  <2>1. a.n = 0 /\ b.k = a.k
    BY <1>1, ArrivingIs DEF WellAtom
  <2>2. c = <<Lead(a.k, 0, 0)>>
    BY <1>1 DEF Code, CborAtom, MsgPackAtom
  <2>3. a.k \in LeadKinds
    BY <1>1 DEF LeadKinds
  <2>4. HeadOf(c, a.k, 0, 0)
    BY <2>2, <2>3, HeadInline
  <2>5. Means(a.k, 0, 0, b) /\ Body(b) = 0
    BY <1>1, <1>0, <2>1 DEF Means, Body
  <2>. QED
    BY <2>4, <2>5, HeadShape
<1>2. CASE a.k \in {"int", "bigint"}
  <2>1. b.k = "int" /\ Body(b) = 0
    BY <1>2, ArrivingIs DEF Body
  <2>2. a.n >= (IF f = "cbor" /\ port \in {"python", "node"} THEN -Range64 ELSE MinInt64)
        /\ a.n <= (IF port \in {"java", "dotnet"} THEN MaxInt64 ELSE Range64 - 1)
    BY <1>2 DEF AtomWritable
  <2>3. a.n >= -Range64 /\ a.n <= Range64 - 1 /\ (f # "cbor" => a.n >= MinInt64)
    BY <1>0, <2>2, Bounds
  <2>4. \E k, v, m : HeadOf(c, k, v, m) /\ Counts(k, v, m, a.n)
    <3>1. CASE f = "cbor"
      <4>1. c = IF a.n >= 0 THEN CborHead("uint", a.n) ELSE CborHead("nint", -1 - a.n)
        BY <1>2, <3>1 DEF Code, CborAtom
      <4>. QED
        BY <1>0, <2>3, <4>1, CborIntHead
    <3>2. CASE f # "cbor" /\ a.k = "int"
      <4>1. c = EncodeInt(a.n)
        BY <3>2 DEF Code, MsgPackAtom
      <4>. QED
        BY <1>0, <2>3, <3>2, <4>1, IntHead
    <3>3. CASE f # "cbor" /\ a.k = "bigint"
      <4>1. c = EncodeBigInt(a.n)
        BY <3>3 DEF Code, MsgPackAtom
      <4>. QED
        BY <1>0, <2>3, <3>3, <4>1, BigIntHead
    <3>. QED
      BY <1>2, <3>1, <3>2, <3>3
  <2>5. PICK k, v, m : HeadOf(c, k, v, m) /\ Counts(k, v, m, a.n)
    BY <2>4
  <2>6. Means(k, v, m, b)
    BY <1>0, <2>1, <2>5 DEF Means
  <2>. QED
    BY <2>1, <2>5, <2>6, HeadShape
<1>3. CASE a.k \in {"float", "float32"}
  <2>1. b.k = "float" /\ Body(b) = 0
    BY <1>3, ArrivingIs DEF Body
  <2>2. a.n \in 0 .. Power[8] - 1 /\ (a.k = "float32" => a.n \in 0 .. Power[4] - 1)
    <3>1. CASE a.k = "float"
      BY <3>1 DEF WellAtom
    <3>2. CASE a.k = "float32"
      <4>1. a.n \in 0 .. Power[4] - 1
        BY <3>2 DEF WellAtom
      <4>2. Power[4] \in Nat /\ Power[8] \in Nat /\ Power[4] <= Power[8]
        BY PowerFacts
      <4>. QED
        BY <4>1, <4>2
    <3>. QED
      BY <1>3, <3>1, <3>2
  <2>3. \E w \in {4, 8} : c = Float(a.n, w) /\ a.n \in 0 .. Power[w] - 1
    <3>1. CASE f = "cbor"
      <4>1. c = Float(a.n, 8)
        BY <1>3, <3>1 DEF Code, CborAtom
      <4>. QED
        BY <2>2, <4>1
    <3>2. CASE f # "cbor"
      <4>1. c = Float(a.n, FloatWidth(port, a.k))
        BY <1>3, <3>2 DEF Code, MsgPackAtom
      <4>2. CASE a.k = "float32" /\ port = "dotnet"
        <5>1. FloatWidth(port, a.k) = 4
          BY <4>2 DEF FloatWidth
        <5>. QED
          BY <2>2, <4>1, <4>2, <5>1
      <4>3. CASE ~(a.k = "float32" /\ port = "dotnet")
        <5>1. FloatWidth(port, a.k) = 8
          BY <4>3 DEF FloatWidth
        <5>. QED
          BY <2>2, <4>1, <5>1
      <4>. QED
        BY <4>2, <4>3
    <3>. QED
      BY <3>1, <3>2
  <2>4. PICK w \in {4, 8} : c = Float(a.n, w) /\ a.n \in 0 .. Power[w] - 1
    BY <2>3
  <2>5. HeadOf(c, "float", w, a.n)
    BY <1>0, <2>4, FloatHead
  <2>6. Means("float", w, a.n, b)
    BY <1>0, <2>1 DEF Means
  <2>. QED
    BY <2>1, <2>5, <2>6, HeadShape
<1>4. CASE a.k \in {"str", "bin"}
  <2>1. b = a /\ a.s \in Seq(Digit) /\ a.n = Len(a.s) /\ a.n < Power[4] /\ a.n >= 0
    BY <1>4, ArrivingIs DEF WellAtom
  <2>2. a.k \in LeadKinds
    BY <1>4 DEF LeadKinds
  <2>3. \E h : /\ c = h \o Data(a)
               /\ \E w \in Widths : HeadOf(h, a.k, w, a.n)
    <3>1. CASE f = "cbor"
      <4>1. c = CborHead(a.k, a.n) \o Data(a)
        BY <1>4, <3>1 DEF Code, CborAtom
      <4>2. \E w \in Widths : HeadOf(CborHead(a.k, a.n), a.k, w, a.n)
        BY <1>0, <1>w, <2>1, <2>2, LengthHead DEF CborHead
      <4>. QED
        BY <4>1, <4>2
    <3>2. CASE f # "cbor" /\ a.k = "str"
      <4>1. c = StrPrefix(a.n) \o Data(a)
        BY <3>2 DEF Code, MsgPackAtom
      <4>2. \E w \in Widths : HeadOf(StrPrefix(a.n), a.k, w, a.n)
        BY <1>0, <1>w, <2>1, <2>2, <3>2, LengthHead DEF StrPrefix
      <4>. QED
        BY <4>1, <4>2
    <3>3. CASE f # "cbor" /\ a.k = "bin"
      <4>1. c = BinPrefix(a.n) \o Data(a)
        BY <3>3 DEF Code, MsgPackAtom
      <4>2. \E w \in Widths : HeadOf(BinPrefix(a.n), a.k, w, a.n)
        BY <1>0, <1>w, <2>1, <2>2, <3>3, LengthHead DEF BinPrefix
      <4>. QED
        BY <4>1, <4>2
    <3>. QED
      BY <1>4, <3>1, <3>2, <3>3
  <2>4. PICK h, w : c = h \o Data(a) /\ HeadOf(h, a.k, w, a.n)
    BY <2>3
  <2>5. Means(a.k, w, a.n, a)
    BY <1>4 DEF Means
  <2>6. Shape(h \o Data(a), a)
    BY <1>4, <2>1, <2>4, <2>5, DataShape
  <2>. QED
    BY <2>1, <2>4, <2>6
<1>5. CASE a.k \in {"array", "map"}
  <2>1. b = a /\ Body(b) = 0 /\ a.n \in 0 .. Power[4] - 1 /\ a.k \in LeadKinds
    BY <1>5, ArrivingIs DEF WellAtom, Body, LeadKinds
  <2>2. a.n >= 0 /\ a.n < Power[4]
    <3>1. Power[4] \in Nat
      BY PowerFacts
    <3>. QED
      BY <2>1, <3>1
  <2>3. \E w \in Widths : HeadOf(c, a.k, w, a.n)
    <3>1. CASE f = "cbor"
      <4>1. c = CborHead(a.k, a.n)
        BY <1>5, <3>1 DEF Code, CborAtom
      <4>. QED
        BY <1>0, <1>w, <2>1, <2>2, <4>1, LengthHead DEF CborHead
    <3>2. CASE f # "cbor"
      <4>1. c = LenPrefix(a.k, a.n)
        BY <1>5, <3>2 DEF Code, MsgPackAtom
      <4>. QED
        BY <1>0, <1>w, <2>1, <2>2, <4>1, LengthHead DEF LenPrefix
    <3>. QED
      BY <3>1, <3>2
  <2>4. PICK w : HeadOf(c, a.k, w, a.n)
    BY <2>3
  <2>5. Means(a.k, w, a.n, a)
    BY <1>5 DEF Means
  <2>. QED
    BY <2>1, <2>4, <2>5, HeadShape
<1>. QED
  BY <1>1, <1>2, <1>3, <1>4, <1>5 DEF WellAtom

-----------------------------------------------------------------------------
(***************************************************************************)
(* Where everything lies on the wire.                                      *)
(***************************************************************************)
\* What the application handed over, as it arrives.
Arrives(a) ==
    /\ a = Atom(a.k, a.n, a.s) /\ a.n \in Int
    /\ \/ a.k \in {"nil", "true", "false", "int", "float"} /\ a.s = <<>>
       \/ a.k \in {"str", "bin"} /\ a.s \in Seq(Digit) /\ a.n = Len(a.s) /\ a.n < Power[4]
       \/ a.k \in {"array", "map"} /\ a.n \in Nat /\ a.s = <<>>

\* An element's atoms, and the bytes of each.
PartsOf(port, f, v) == Flat(v, ByUnits(port, f))
CodesOf(port, f, v) ==
    [j \in DOMAIN PartsOf(port, f, v) |-> Code(port, f, PartsOf(port, f, v)[j])]

\* Whatever a value is made of arrives as one of the atoms a decoder knows.
LEMMA ArrivesAs ==
    ASSUME NEW a, WellAtom(a)
    PROVE  Arrives(Arriving(a)) /\ Inside(Arriving(a).k, Arriving(a).n) = Inside(a.k, a.n)
<1>. DEFINE b == Arriving(a)
<1>0. b.n = a.n /\ b.s = a.s /\ a.n \in Int
  BY ArrivingIs DEF WellAtom
<1>1. CASE a.k \in {"bigint", "float32"}
  <2>1. a.s = <<>> /\ b.k \in {"int", "float"}
    BY <1>1, ArrivingIs DEF WellAtom
  <2>2. b = Atom(b.k, b.n, b.s)
    <3>. DEFINE k == a.k  n == a.n  s == a.s  c == [k |-> k, n |-> n, s |-> s]
                new == CASE k = "float32" -> "float" [] k = "bigint" -> "int" [] OTHER -> k
    <3>1. a = c
      BY AtomFields DEF WellAtom, Atom
    <3>2. b = [a EXCEPT !.k = new]
      BY DEF Arriving
    <3>. HIDE DEF k, n, s, new, b
    <3>3. [a EXCEPT !.k = new] = [k |-> new, n |-> n, s |-> s]
      BY <3>1
    <3>. QED
      BY <3>2, <3>3 DEF Atom
  <2>3. Inside(b.k, b.n) = 0 /\ Inside(a.k, a.n) = 0
    BY <1>1, <2>1 DEF Inside
  <2>. QED
    BY <1>0, <2>1, <2>2, <2>3 DEF Arrives
<1>2. CASE a.k \notin {"bigint", "float32"}
  <2>1. b = a
    BY <1>2, ArrivingIs
  <2>2. Arrives(a)
    <3>1. a = Atom(a.k, a.n, a.s)
      BY DEF WellAtom
    <3>2. a.k \in {"array", "map"} => a.n \in Nat /\ a.s = <<>>
      <4>1. Power[4] \in Nat
        BY PowerFacts
      <4>2. a.k \in {"array", "map"} => a.n \in 0 .. Power[4] - 1 /\ a.s = <<>>
        BY DEF WellAtom
      <4>. QED
        BY <4>1, <4>2
    <3>3. a.k \in {"nil", "true", "false", "int", "float"} => a.s = <<>>
      BY DEF WellAtom
    <3>4. a.k \in {"str", "bin"}
            => a.s \in Seq(Digit) /\ a.n = Len(a.s) /\ a.n < Power[4]
      BY DEF WellAtom
    <3>5. a.k \in {"nil", "true", "false", "int", "bigint", "float", "float32",
                   "str", "bin", "array", "map"}
      BY DEF WellAtom
    <3>. QED
      BY <1>0, <1>2, <3>1, <3>2, <3>3, <3>4, <3>5 DEF Arrives
  <2>. QED
    BY <2>1, <2>2
<1>. QED
  BY <1>1, <1>2

\* One element: its atoms, what is written for each, and what that says.
LEMMA ElementCodes ==
    ASSUME NEW port \in Ports, NEW f \in Formats, NEW v \in Values, Writable(port, f, v)
    PROVE  /\ PartsOf(port, f, v) \in Seq(AtomSet) /\ Len(PartsOf(port, f, v)) \in Nat \ {0}
           /\ CodesOf(port, f, v) \in Seq(Seq(Byte))
           /\ Len(CodesOf(port, f, v)) = Len(PartsOf(port, f, v))
           /\ Encoded(port, f, v) = FlattenSeq(CodesOf(port, f, v))
           /\ \A j \in 1..Len(PartsOf(port, f, v)) :
                 /\ WellAtom(PartsOf(port, f, v)[j])
                 /\ Shape(CodesOf(port, f, v)[j], Arriving(PartsOf(port, f, v)[j]))
<1>. DEFINE units == ByUnits(port, f)  parts == PartsOf(port, f, v)  n == Len(parts)
            codes == CodesOf(port, f, v)
<1>0. units \in BOOLEAN
  BY DEF ByUnits
<1>1. parts \in Seq(AtomSet) /\ n \in Nat \ {0}
  BY <1>0, FlatFacts DEF PartsOf
<1>2. DOMAIN parts = 1..n
  BY <1>1
<1>3. codes = [j \in 1..n |-> Code(port, f, parts[j])]
  BY <1>2 DEF CodesOf
<1>4. \A a \in Range(parts) : AtomWritable(port, f, a)
  BY DEF Writable, PartsOf
<1>5. Encoded(port, f, v) = FlattenSeq(codes)
  BY Zenon DEF Encoded, CodesOf, PartsOf, Code
<1>. HIDE DEF parts, codes
<1>6. ASSUME NEW j \in 1..n
      PROVE  /\ WellAtom(parts[j]) /\ Shape(Code(port, f, parts[j]), Arriving(parts[j]))
             /\ Code(port, f, parts[j]) \in Seq(Byte)
  <2>1. parts[j] \in AtomSet
    BY <1>1, ElementOfSeq
  <2>2. PICK u \in Values : parts[j] = OwnAtom(u)
    BY <2>1 DEF AtomSet
  <2>3. WellAtom(parts[j])
    BY <2>2, ValueFacts, <1>0
  <2>4. AtomWritable(port, f, parts[j])
    BY <1>2, <1>4 DEF Range
  <2>5. Shape(Code(port, f, parts[j]), Arriving(parts[j]))
    BY <2>3, <2>4, AtomShape
  <2>. QED
    BY <2>3, <2>5 DEF Shape
<1>7. codes \in Seq(Seq(Byte)) /\ Len(codes) = n
  <2>1. codes \in [1..n -> Seq(Byte)]
    BY <1>3, <1>6
  <2>. QED
    BY <1>1, <2>1
<1>. QED
  BY <1>1, <1>3, <1>5, <1>6, <1>7 DEF parts, codes

-----------------------------------------------------------------------------
(***************************************************************************)
(* The inductive invariant.                                                *)
(***************************************************************************)
\* Where the bytes of the j-th atom of element i begin, those of each of its
\* atoms, and the values due behind the first j atoms.
Pieces(i)  == CodesOf(enc, fmt, items[i])
Spot(i, j) == Extent(i - 1) + Size(Pieces(i), j - 1)
Owed(i, j) == Left(items[i], ByUnits(enc, fmt), j)

\* The atoms a port refuses, and what it makes of the others.
Barred(a) ==
    \/ a.k = "bin" /\ dec \in {"go", "rust", "java"}
    \/ a.k = "int" /\ dec = "rust" /\ a.n < MinInt64
\* An integer past the range of the port wraps around.
Wrapped(n) ==
    IF n > MaxInt64 /\ dec \in {"java", "dotnet"} THEN n - Range64
    ELSE IF n < MinInt64 /\ dec \in {"java", "dotnet", "go"} THEN n + Range64
    ELSE n
\* What a port makes of an atom.
Got(a) ==
    CASE a.k = "int" -> Atom("int", Wrapped(a.n), <<>>)
      [] a.k = "float" /\ dec = "rust" /\ a.n \in NonFinite -> Atom("nil", 0, <<>>)
      [] OTHER -> a

\* What the program runs on: fixed from the first state on.
Sending ==
    /\ enc \in Encoders /\ items \in Streams /\ fmt \in Formats /\ dec \in Readers
    /\ Writes(enc)
    /\ \E cut \in 0..Len(Wire(enc)) : input = SubSeq(Wire(enc), 1, cut)
    /\ arrived = Max({n \in 0..Len(items) : Arrived(n)})
    /\ whole = (Extent(arrived) = Len(input))

\* The element being read, and its next atom.
Here == Len(yielded) + 1
Due  == Len(atoms) + 1
Cursor == (read - Len(buf)) + pos

\* The atoms a decoder hands over.
Received == [k : {"nil", "true", "false", "int", "float", "str", "bin", "array", "map"},
             n : Int, s : Seq(Digit)]
\* The types of what the reader keeps.
Typed ==
    /\ stage \in {"boundary", "head", "argument", "data", "done"}
    /\ width \in Widths /\ need \in Nat \ {0} /\ todo \in Nat \ {0}
    /\ outcome \in {"none", "complete", "truncated", "eof", "refused", "stopped"}
    /\ outcome = "none" <=> stage # "done"
    /\ atoms \in Seq(Received) /\ yielded \in Seq(Seq(Received))

\* What is held is the last of what was read.
Window ==
    /\ read \in 0..Len(input) /\ buf \in Seq(Byte) /\ Len(buf) <= read
    /\ \A x \in 1..Len(buf) : buf[x] = input[(read - Len(buf)) + x]
    /\ pos \in 0..Len(buf)

\* The elements handed over are the first ones, each read to its end.
Given ==
    /\ Len(yielded) <= Len(items) /\ Extent(Len(yielded)) <= Len(input)
    /\ \A i \in 1..Len(yielded) :
          /\ Len(yielded[i]) = Len(Sent[i])
          /\ \A j \in 1..Len(Sent[i]) : yielded[i][j] = Got(Sent[i][j]) /\ ~Barred(Sent[i][j])

\* Between two elements.
Between ==
    /\ Cursor = Extent(Len(yielded))
    /\ atoms = <<>> /\ todo = 1 /\ need = 1

\* Inside one: the atoms before the next one are read, and none was refused.
Within ==
    /\ Here <= Len(items) /\ Extent(Len(yielded)) < Len(input)
    /\ Due <= Len(Sent[Here])
    /\ \A j \in 1..Len(atoms) : atoms[j] = Got(Sent[Here][j]) /\ ~Barred(Sent[Here][j])
    /\ todo = Owed(Here, Len(atoms))

\* Before the first byte of an atom, behind it, and behind the argument.
AtHead == Cursor = Spot(Here, Due) /\ need = 1
AtArgument ==
    LET b == Pieces(Here)[Due][1]
    IN  /\ Cursor = Spot(Here, Due) + 1
        /\ kind = b.kind /\ width = b.width /\ need = b.width
        /\ kind = "bin" => dec \notin {"go", "rust", "java"}
AtData ==
    LET a == Sent[Here][Due]
    IN  /\ Cursor = Spot(Here, Due) + 1 + Pieces(Here)[Due][1].width
        /\ kind = a.k /\ need = a.n /\ a.k \in {"str", "bin"} /\ ~Barred(a)

\* Where the reader is, in each of its stages.
Place ==
    /\ stage = "boundary" => Between
    /\ stage \in {"head", "argument", "data"} => Within
    /\ stage = "head" => AtHead
    /\ stage = "argument" => AtArgument
    /\ stage = "data" => AtData

\* The verdicts.
Judged ==
    /\ outcome = "complete" => Extent(Len(yielded)) = Len(input)
    /\ outcome \in {"truncated", "eof", "refused"} =>
          Here <= Len(items) /\ Extent(Len(yielded)) < Len(input)
    /\ outcome \in {"truncated", "eof"} => Len(input) < Extent(Here)
    /\ outcome = "refused" => Refuses(Here)

\* The room it needs.
Bounded ==
    /\ need <= LongestTake
    /\ AtHand <= LongestTake + ChunkSize - 1
    /\ pos <= ChunkSize \/ dec # "python"
    /\ dec # "python" => Len(buf) <= LongestTake + ChunkSize - 1

\* The invariant: the reader stands at one place of the stream that was sent.
Inv ==
    /\ Sending /\ Typed /\ Window /\ Given
    /\ Place /\ Judged /\ Bounded

\* How the j-th atom of element i lies on the wire.
Lies(i, j) ==
    LET a == Sent[i][j]  c == Pieces(i)[j]
    IN  /\ Arrives(a) /\ Shape(c, a) /\ Spot(i, j) \in Nat
        /\ Spot(i, j + 1) = Spot(i, j) + Len(c) /\ Spot(i, j + 1) <= Extent(i)
        /\ Owed(i, j) = Owed(i, j - 1) - 1 + Inside(a.k, a.n)
        /\ \A x \in 1..Len(c) :
              Spot(i, j) + x <= Len(input) => input[Spot(i, j) + x] = c[x]

\* How the elements lie there, atom behind atom.
LaidAt(i) ==
    /\ Len(Sent[i]) \in Nat \ {0}
    /\ Spot(i, 1) = Extent(i - 1) /\ Spot(i, Len(Sent[i]) + 1) = Extent(i)
    /\ Extent(i - 1) < Extent(i)
    /\ Owed(i, 0) = 1
    /\ \A j \in 0..Len(Sent[i]) :
          Owed(i, j) \in Nat /\ (Owed(i, j) = 0 <=> j = Len(Sent[i]))
    /\ \A j \in 1..Len(Sent[i]) : Lies(i, j)
\* The stream, element behind element.
Laid ==
    /\ Len(items) \in Nat /\ Extent(0) = 0
    /\ \A i \in 0..Len(items) : Extent(i) \in Nat
    /\ input \in Seq(Byte) /\ Len(input) \in Nat /\ Len(input) <= Extent(Len(items))
    /\ \A i \in 1..Len(items) : LaidAt(i)

\* The parts of the parts of what is joined.
LEMMA Nested ==
    ASSUME NEW X, NEW e \in Seq(Seq(X)), NEW i \in 1..Len(e),
           NEW p \in Seq(Seq(X)), e[i] = FlattenSeq(p)
    PROVE  /\ Size(e, i - 1) \in Nat /\ Size(p, 0) = 0
           /\ Size(e, i - 1) + Size(p, Len(p)) = Size(e, i)
           /\ \A j \in 1..Len(p) :
                 /\ Size(e, i - 1) + Size(p, j - 1) \in Nat
                 /\ Size(e, i - 1) + Size(p, j) = (Size(e, i - 1) + Size(p, j - 1)) + Len(p[j])
                 /\ Size(e, i - 1) + Size(p, j) <= Size(e, i)
                 /\ \A x \in 1..Len(p[j]) :
                       FlattenSeq(e)[(Size(e, i - 1) + Size(p, j - 1)) + x] = p[j][x]
<1>. DEFINE F == FlattenSeq(e)  G == FlattenSeq(p)  s == Size(e, i - 1)  Z(j) == Size(p, j)
            L == Len(p)
<1>1. i - 1 \in 0..Len(e) /\ i \in 0..Len(e) /\ Len(e) \in Nat /\ L \in Nat
  OBVIOUS
<1>2. /\ s \in Nat /\ Size(e, i) = s + Len(e[i])
      /\ \A y \in 1..Len(e[i]) : F[s + y] = e[i][y]
  BY <1>1, Flattened
<1>3. /\ Len(G) \in Nat /\ Z(0) = 0 /\ Z(L) = Len(G)
      /\ \A n \in 0..L : Z(n) \in Nat /\ Z(n) <= Len(G)
      /\ \A n \in 1..L : /\ Z(n) = Z(n - 1) + Len(p[n])
                         /\ \A y \in 1..Len(p[n]) : G[Z(n - 1) + y] = p[n][y]
  BY Flattened
<1>4. \A n \in 1..L : Len(p[n]) \in Nat
  <2>1. \A n \in 1..L : p[n] \in Seq(X)
    BY ElementOfSeq
  <2>. QED
    BY <2>1
<1>. HIDE DEF F, G, s, Z, L
<1>4a. s \in Nat /\ Size(e, i) = s + Len(G) /\ Len(G) \in Nat /\ e[i] = G
  BY <1>2, <1>3 DEF G
<1>5. ASSUME NEW j \in 1..L
      PROVE  /\ s + Z(j - 1) \in Nat /\ s + Z(j) = (s + Z(j - 1)) + Len(p[j])
             /\ s + Z(j) <= Size(e, i)
             /\ \A x \in 1..Len(p[j]) : F[(s + Z(j - 1)) + x] = p[j][x]
  <2>. DEFINE a == Z(j - 1)  b == Z(j)  c == Len(p[j])  g == Len(G)
  <2>1. j - 1 \in 0..L /\ j \in 0..L
    BY <1>1
  <2>2. a \in Nat /\ b \in Nat /\ b <= g /\ b = a + c /\ c \in Nat /\ g \in Nat
    BY <1>3, <1>4, <2>1
  <2>3. \A x \in 1..c : G[a + x] = p[j][x]
    BY <1>3
  <2>4. \A y \in 1..g : F[s + y] = G[y]
    BY <1>2, <1>4a
  <2>5. Size(e, i) = s + g
    BY <1>4a
  <2>. HIDE DEF a, b, c, g
  <2>6. s + a \in Nat /\ s + b = (s + a) + c /\ s + b <= Size(e, i)
    BY <1>4a, <2>2, <2>5
  <2>7. ASSUME NEW x \in 1..c PROVE F[(s + a) + x] = p[j][x]
    <3>1. a + x \in 1..g /\ (s + a) + x = s + (a + x)
      BY <1>4a, <2>2
    <3>. QED
      BY <2>3, <2>4, <3>1
  <2>. QED
    BY <2>6, <2>7 DEF a, b, c
<1>6. s + Z(L) = Size(e, i)
  BY <1>3, <1>4a
<1>. QED
  BY <1>2, <1>3, <1>5, <1>6 DEF F, G, s, Z, L

\* What is fixed is of its type.
LEMMA SendingFacts ==
    ASSUME Sending
    PROVE  /\ enc \in Ports /\ fmt \in Formats /\ items \in Seq(Values) /\ dec \in Ports
           /\ Len(items) \in Nat /\ DOMAIN items = 1..Len(items)
           /\ \A i \in 1..Len(items) : items[i] \in Values /\ Writable(enc, fmt, items[i])
<1>1. enc \in Ports /\ items \in Seq(Values) /\ dec \in Ports /\ fmt \in Formats
  BY StreamAssumption, ReaderAssumption DEF Sending, Ports
<1>2. DOMAIN items = 1..Len(items) /\ Len(items) \in Nat
  BY <1>1
<1>3. \A i \in 1..Len(items) : items[i] \in Values
  BY <1>1, ElementOfSeq
<1>4. \A i \in DOMAIN items : Writable(enc, fmt, items[i])
  BY DEF Sending, Writes
<1>. QED
  BY <1>1, <1>2, <1>3, <1>4

\* The bytes of the elements, and those of the first n.
Elements == [i \in DOMAIN items |-> Encoded(enc, fmt, items[i])]

\* The wire is the elements one behind the other, each in turn its atoms.
LEMMA ElementsJoin ==
    ASSUME Sending
    PROVE  /\ Elements \in Seq(Seq(Byte)) /\ Len(Elements) = Len(items)
           /\ \A i \in 1..Len(items) :
                 /\ Pieces(i) \in Seq(Seq(Byte)) /\ Elements[i] = FlattenSeq(Pieces(i))
           /\ Wire(enc) = FlattenSeq(Elements)
           /\ \A n \in 0..Len(items) : Extent(n) = Size(Elements, n)
<1>. DEFINE N == Len(items)
<1>1. N \in Nat /\ DOMAIN items = 1..N /\ items \in Seq(Values)
  BY SendingFacts
<1>2. Elements = [i \in 1..N |-> Encoded(enc, fmt, items[i])]
  BY <1>1 DEF Elements
<1>3. ASSUME NEW i \in 1..N
      PROVE  /\ Pieces(i) \in Seq(Seq(Byte)) /\ Elements[i] = FlattenSeq(Pieces(i))
             /\ Elements[i] \in Seq(Byte)
  <2>1. Pieces(i) \in Seq(Seq(Byte)) /\ Encoded(enc, fmt, items[i]) = FlattenSeq(Pieces(i))
    BY SendingFacts, ElementCodes DEF Pieces
  <2>2. FlattenSeq(Pieces(i)) \in Seq(Byte)
    BY <2>1, Flattened
  <2>. QED
    BY <1>2, <2>1, <2>2
<1>. HIDE DEF N
<1>4. Elements \in Seq(Seq(Byte)) /\ Len(Elements) = N
  <2>1. Elements \in [1..N -> Seq(Byte)]
    BY <1>2, <1>3
  <2>. QED
    BY <1>1, <2>1
<1>5. Wire(enc) = FlattenSeq(Elements)
  BY Zenon DEF Wire, EncodedArray, Elements
<1>6. ASSUME NEW n \in 0..N PROVE Extent(n) = Size(Elements, n)
  <2>. DEFINE s == SubSeq(items, 1, n)  t == SubSeq(Elements, 1, n)
              u == [i \in DOMAIN s |-> Encoded(enc, fmt, s[i])]
  <2>0. n \in Nat /\ \A i \in 1..n : i \in 1..N
    BY <1>1
  <2>1. s \in Seq(Values) /\ Len(s) = n /\ \A i \in 1..n : s[i] = items[i]
    BY <1>1, FirstPart DEF N
  <2>2. t \in Seq(Seq(Byte)) /\ Len(t) = n /\ \A i \in 1..n : t[i] = Elements[i]
    <3>1. n \in 0..Len(Elements)
      BY <1>4
    <3>. QED
      BY <1>4, <3>1, FirstPart
  <2>3. Extent(n) = Len(FlattenSeq(u))
    BY Zenon DEF Extent, EncodedArray
  <2>. HIDE DEF s
  <2>4. DOMAIN s = 1..n
    BY <2>1
  <2>5. u \in [1..n -> Seq(Byte)] /\ \A i \in 1..n : u[i] = Elements[i]
    BY <1>2, <1>3, <2>0, <2>1, <2>4
  <2>. HIDE DEF u, t
  <2>6. u \in Seq(Seq(Byte)) /\ Len(u) = n
    BY <2>0, <2>5
  <2>7. u = t
    <3>1. Len(u) = Len(t) /\ \A i \in 1..Len(u) : u[i] = t[i]
      BY <2>2, <2>5, <2>6
    <3>. QED
      BY <2>2, <2>6, <3>1, SeqEqual
  <2>. QED
    BY <2>3, <2>7 DEF Size, t
<1>. QED
  BY <1>3, <1>4, <1>5, <1>6 DEF N

\* An atom's bytes: one, those of its argument, and its data.
LEMMA CodeLength ==
    ASSUME NEW c, NEW a, Shape(c, a), Arrives(a)
    PROVE  /\ c[1].width \in Nat /\ c[1].width \in Widths /\ Body(a) \in Nat
           /\ Len(c) = 1 + c[1].width + Body(a) /\ Len(c) \in Nat /\ Len(c) > 0
<1>. DEFINE w == c[1].width  b == Body(a)
<1>1. w \in Widths /\ Len(c) = 1 + w + b
  BY DEF Shape
<1>2. w \in Nat
  BY <1>1 DEF Widths
<1>3. b \in Nat
  <2>1. CASE a.k \in {"str", "bin"}
    <3>1. a.s \in Seq(Digit) /\ a.n = Len(a.s)
      BY <2>1 DEF Arrives
    <3>. QED
      BY <2>1, <3>1 DEF Body
  <2>2. CASE a.k \notin {"str", "bin"}
    BY <2>2 DEF Body
  <2>. QED
    BY <2>1, <2>2
<1>. HIDE DEF w, b
<1>4. Len(c) \in Nat /\ Len(c) > 0
  BY <1>1, <1>2, <1>3
<1>. QED
  BY <1>1, <1>2, <1>3, <1>4 DEF w, b

\* An element's atoms as they arrive.
LEMMA SentIs ==
    ASSUME Sending, NEW i \in 1..Len(items)
    PROVE  LET parts == PartsOf(enc, fmt, items[i])
           IN  /\ Len(Sent[i]) = Len(parts) /\ DOMAIN Sent[i] = 1..Len(parts)
               /\ \A j \in 1..Len(parts) : Sent[i][j] = Arriving(parts[j])
<1>. DEFINE parts == PartsOf(enc, fmt, items[i])  n == Len(parts)
<1>0. DOMAIN items = 1..Len(items)
  BY SendingFacts
<1>1. Sent[i] = [j \in DOMAIN parts |-> Arriving(parts[j])]
  BY <1>0 DEF Sent, PartsOf
<1>2. parts \in Seq(AtomSet) /\ n \in Nat
  BY SendingFacts, ElementCodes
<1>3. DOMAIN parts = 1..n
  BY <1>2
<1>. HIDE DEF parts
<1>4. Len(Sent[i]) = n
  BY <1>1, <1>2, <1>3
<1>. QED
  BY <1>1, <1>3, <1>4 DEF parts

\* What is sent lies on the wire as it was written.
LEMMA WireLaid ==
    ASSUME Sending
    PROVE  Laid
<1>. DEFINE N == Len(items)  E == Elements  W == Wire(enc)
<1>0. N \in Nat /\ E \in Seq(Seq(Byte)) /\ Len(E) = N /\ W = FlattenSeq(E)
  BY SendingFacts, ElementsJoin
<1>1. \A n \in 0..N : Extent(n) = Size(E, n)
  BY ElementsJoin
<1>2. /\ W \in Seq(Byte) /\ Len(W) \in Nat
      /\ Size(E, 0) = 0 /\ Size(E, N) = Len(W) /\ \A n \in 0..N : Size(E, n) \in Nat
  BY <1>0, Flattened
<1>3. Extent(0) = 0 /\ Extent(N) = Len(W) /\ \A n \in 0..N : Extent(n) \in Nat
  BY <1>0, <1>1, <1>2
<1>4. PICK cut \in 0..Len(W) : input = SubSeq(W, 1, cut)
  BY DEF Sending
<1>. HIDE DEF E, W, N
<1>5. input \in Seq(Byte) /\ Len(input) = cut /\ \A x \in 1..cut : input[x] = W[x]
  BY <1>2, <1>4, FirstPart
<1>6. Len(input) \in Nat /\ Len(input) <= Len(W)
  BY <1>2, <1>5
<1>7. ASSUME NEW i \in 1..N PROVE LaidAt(i)
  <2>. DEFINE v == items[i]  P == Pieces(i)  parts == PartsOf(enc, fmt, v)  L == Len(parts)
              units == ByUnits(enc, fmt)  a(j) == Sent[i][j]  s == Extent(i - 1)
              Z(j) == Size(P, j)
  <2>0. i - 1 \in 0..N /\ i \in 0..N /\ i \in 1..Len(items) /\ i \in 1..Len(E)
    BY <1>0 DEF N
  <2>1. v \in Values /\ enc \in Ports /\ fmt \in Formats /\ Writable(enc, fmt, v)
    BY <2>0, SendingFacts
  <2>2. /\ parts \in Seq(AtomSet) /\ L \in Nat \ {0} /\ Len(P) = L
        /\ \A j \in 1..L : WellAtom(parts[j]) /\ Shape(P[j], Arriving(parts[j]))
    BY <2>1, ElementCodes DEF Pieces
  <2>3. Len(Sent[i]) = L /\ \A j \in 1..L : a(j) = Arriving(parts[j])
    BY <2>0, SentIs
  <2>4. P \in Seq(Seq(Byte)) /\ E[i] = FlattenSeq(P)
    BY <2>0, ElementsJoin DEF E, N
  <2>5. /\ Size(E, i - 1) = s /\ Size(E, i) = Extent(i) /\ s \in Nat /\ Extent(i) \in Nat
    BY <1>1, <1>3, <2>0
  <2>6. /\ Z(0) = 0 /\ s + Z(L) = Extent(i)
        /\ \A j \in 1..L :
              /\ s + Z(j - 1) \in Nat
              /\ s + Z(j) = (s + Z(j - 1)) + Len(P[j]) /\ s + Z(j) <= Extent(i)
              /\ \A x \in 1..Len(P[j]) : W[(s + Z(j - 1)) + x] = P[j][x]
    <3>1. /\ Size(P, 0) = 0 /\ Size(E, i - 1) + Size(P, Len(P)) = Size(E, i)
          /\ \A j \in 1..Len(P) :
                /\ Size(E, i - 1) + Size(P, j - 1) \in Nat
                /\ Size(E, i - 1) + Size(P, j) = (Size(E, i - 1) + Size(P, j - 1)) + Len(P[j])
                /\ Size(E, i - 1) + Size(P, j) <= Size(E, i)
                /\ \A x \in 1..Len(P[j]) :
                      FlattenSeq(E)[(Size(E, i - 1) + Size(P, j - 1)) + x] = P[j][x]
      <4>. HIDE DEF P
      <4>1. /\ E \in Seq(Seq(Byte)) /\ i \in 1..Len(E) /\ P \in Seq(Seq(Byte))
            /\ E[i] = FlattenSeq(P)
        BY <1>0, <2>0, <2>4
      <4>. QED
        BY ONLY <4>1, Nested
    <3>. QED
      BY <1>0, <2>2, <2>5, <3>1
  <2>7. \A j : Spot(i, j) = s + Z(j - 1)
    BY DEF Spot
  <2>8. \A j : Owed(i, j) = Left(v, units, j)
    BY DEF Owed
  <2>9. /\ Left(v, units, 0) = 1
        /\ \A j \in 0..L : Left(v, units, j) \in Nat /\ (Left(v, units, j) = 0 <=> j = L)
        /\ \A j \in 1..L : Left(v, units, j) = Left(v, units, j - 1) - 1
                                + Inside(parts[j].k, parts[j].n)
    <3>1. units \in BOOLEAN
      BY DEF ByUnits
    <3>2. parts = Flat(v, units)
      BY DEF PartsOf
    <3>. HIDE DEF v, units
    <3>. QED
      BY <2>1, <3>1, <3>2, FlatFacts
  <2>. HIDE DEF P, parts, v, units, a, s, Z
  <2>10. ASSUME NEW j \in 1..L
         PROVE  /\ Arrives(a(j)) /\ Shape(P[j], a(j)) /\ Len(P[j]) \in Nat /\ Len(P[j]) > 0
                /\ Inside(a(j).k, a(j).n) = Inside(parts[j].k, parts[j].n)
    <3>1. WellAtom(parts[j]) /\ Shape(P[j], Arriving(parts[j])) /\ a(j) = Arriving(parts[j])
      BY <2>2, <2>3
    <3>2. Arrives(a(j)) /\ Inside(a(j).k, a(j).n) = Inside(parts[j].k, parts[j].n)
      BY <3>1, ArrivesAs
    <3>3. Len(P[j]) \in Nat /\ Len(P[j]) > 0
      BY <3>1, <3>2, CodeLength
    <3>. QED
      BY <3>1, <3>2, <3>3
  <2>11. ASSUME NEW j \in 1..L PROVE Lies(i, j)
    <3>1. j \in Nat /\ j - 1 \in 0..L /\ (j + 1) - 1 = j
      BY <2>2
    <3>2. Spot(i, j) = s + Z(j - 1) /\ Spot(i, j + 1) = s + Z(j)
      BY <2>7, <3>1
    <3>3. Owed(i, j) = Owed(i, j - 1) - 1 + Inside(a(j).k, a(j).n)
      BY <2>8, <2>9, <2>10
    <3>4. /\ Spot(i, j) \in Nat /\ Spot(i, j + 1) = Spot(i, j) + Len(P[j])
          /\ Spot(i, j + 1) <= Extent(i)
      BY <2>6, <3>2
    <3>5. ASSUME NEW x \in 1..Len(P[j]), Spot(i, j) + x <= Len(input)
          PROVE  input[Spot(i, j) + x] = P[j][x]
      <4>1. Spot(i, j) + x \in 1..cut
        <5>1. x \in Nat \ {0} /\ cut \in Nat
          BY <1>2, <1>5, <2>10
        <5>. QED
          BY <1>5, <3>4, <3>5, <5>1
      <4>2. W[Spot(i, j) + x] = P[j][x]
        BY <2>6, <3>2
      <4>. QED
        BY <1>5, <4>1, <4>2
    <3>. QED
      BY <2>10, <3>3, <3>4, <3>5 DEF Lies, a, P
  <2>12. Spot(i, 1) = s
    <3>1. Spot(i, 1) = s + Z(1 - 1) /\ 1 - 1 = 0
      BY <2>7
    <3>. QED
      BY <2>5, <2>6, <3>1
  <2>13. Spot(i, L + 1) = Extent(i)
    <3>1. Spot(i, L + 1) = s + Z((L + 1) - 1) /\ (L + 1) - 1 = L
      BY <2>2, <2>7
    <3>. QED
      BY <2>6, <3>1
  <2>14. s < Extent(i)
    <3>1. 1 \in 1..L
      BY <2>2
    <3>2. Len(P[1]) > 0 /\ Len(P[1]) \in Nat
      BY <2>10, <3>1
    <3>3. s + Z(1) = (s + Z(1 - 1)) + Len(P[1]) /\ s + Z(1) <= Extent(i) /\ 1 - 1 = 0
      BY <2>6, <3>1
    <3>4. s + Z(1) = s + Len(P[1])
      BY <2>5, <2>6, <3>3
    <3>. QED
      BY <2>5, <3>2, <3>3, <3>4
  <2>15. Owed(i, 0) = 1 /\ \A j \in 0..L : Owed(i, j) \in Nat /\ (Owed(i, j) = 0 <=> j = L)
    BY <2>8, <2>9
  <2>. QED
    BY <2>2, <2>3, <2>11, <2>12, <2>13, <2>14, <2>15 DEF LaidAt, s
<1>. QED
  BY <1>0, <1>3, <1>5, <1>6, <1>7 DEF Laid, N

-----------------------------------------------------------------------------
(***************************************************************************)
(* What no step changes.                                                   *)
(***************************************************************************)
\* No step of the decoder changes what was sent.
Unmoved == UNCHANGED <<enc, items, fmt, input, dec, arrived, whole>>

\* What is fixed stays so, and with it everything read from it.
LEMMA SameSending ==
    ASSUME Unmoved
    PROVE  /\ Sending' = Sending /\ Sent' = Sent /\ LongestTake' = LongestTake
           /\ items' = items /\ input' = input /\ dec' = dec /\ fmt' = fmt
           /\ \A n : Extent(n)' = Extent(n)
           /\ \A i : Pieces(i)' = Pieces(i) /\ Refuses(i)' = Refuses(i)
           /\ \A i, j : Spot(i, j)' = Spot(i, j) /\ Owed(i, j)' = Owed(i, j)
           /\ \A a : Barred(a)' = Barred(a) /\ Got(a)' = Got(a)
<1>1. enc' = enc /\ items' = items /\ fmt' = fmt /\ input' = input /\ dec' = dec
      /\ arrived' = arrived /\ whole' = whole
  BY DEF Unmoved
<1>2. Sent' = Sent
  BY <1>1 DEF Sent
<1>3. LongestTake' = LongestTake
  BY <1>2 DEF LongestTake
<1>4. ASSUME NEW n PROVE Extent(n)' = Extent(n)
  BY <1>1 DEF Extent
<1>5. ASSUME NEW i PROVE Pieces(i)' = Pieces(i)
  BY <1>1 DEF Pieces
<1>6. ASSUME NEW i PROVE Refuses(i)' = Refuses(i)
  BY <1>1, <1>2 DEF Refuses
<1>7. ASSUME NEW i, NEW j PROVE Spot(i, j)' = Spot(i, j)
  BY <1>4, <1>5 DEF Spot
<1>8. ASSUME NEW i, NEW j PROVE Owed(i, j)' = Owed(i, j)
  BY <1>1 DEF Owed
<1>9. ASSUME NEW a PROVE Barred(a)' = Barred(a)
  BY <1>1 DEF Barred
<1>10. ASSUME NEW a PROVE Got(a)' = Got(a)
  BY <1>1 DEF Got, Wrapped
<1>11. \A n : Arrived(n)' = Arrived(n)
  BY <1>1, <1>4, <1>6 DEF Arrived
<1>12. Sending' = Sending
  <2>1. Writes(enc)' = Writes(enc)
    BY <1>1 DEF Writes
  <2>2. Wire(enc)' = Wire(enc)
    BY <1>1 DEF Wire
  <2>. QED
    BY <1>1, <1>4, <1>11, <2>1, <2>2 DEF Sending
<1>. QED
  BY <1>1, <1>2, <1>3, <1>4, <1>5, <1>6, <1>7, <1>8, <1>9, <1>10, <1>12

-----------------------------------------------------------------------------
(***************************************************************************)
(* What the reader holds, and what it finds there.                         *)
(***************************************************************************)
\* A bounded set of numbers has a greatest.
LEMMA GreatestOf ==
    ASSUME NEW S \in SUBSET Nat, S # {}, NEW b \in Nat, \A x \in S : x <= b
    PROVE  Max(S) \in S /\ \A x \in S : x <= Max(S)
<1>. DEFINE T == {b - x : x \in S}
<1>1. T \in SUBSET Nat /\ T # {}
  <2>1. ASSUME NEW x \in S PROVE b - x \in Nat
    <3>1. x \in Nat /\ x <= b
      OBVIOUS
    <3>. QED
      BY ONLY <3>1, b \in Nat
  <2>. QED
    BY <2>1
<1>2. PICK m \in T : \A k \in T : m <= k
  <2>. HIDE DEF T
  <2>. QED
    BY <1>1, LeastOf
<1>3. PICK y \in S : m = b - y
  BY <1>2
<1>4. \A x \in S : x <= y
  <2>. TAKE x \in S
  <2>1. m <= b - x
    BY <1>2
  <2>. QED
    BY <1>3, <2>1
<1>. DEFINE P(x) == \A z \in S : x >= z
<1>5. P(y)
  BY <1>4
<1>6. Max(S) = CHOOSE x \in S : P(x)
  BY DEF Max
<1>. HIDE DEF P
<1>7. Max(S) \in S /\ P(Max(S))
  BY <1>5, <1>6, Zenon
<1>8. \A x \in S : x <= Max(S)
  <2>1. \A x \in S : Max(S) >= x
    BY <1>7 DEF P
  <2>2. Max(S) \in Nat
    BY <1>7
  <2>. QED
    BY <2>1, <2>2
<1>. QED
  BY <1>7, <1>8

\* The longest argument or text is at least as long as each of them.
LEMMA LongestFacts ==
    ASSUME Sending, Laid
    PROVE  /\ LongestTake \in Nat /\ LongestTake >= 8
           /\ \A i \in 1..Len(items) : \A j \in 1..Len(Sent[i]) :
                 Sent[i][j].k \in {"str", "bin"} => Sent[i][j].n <= LongestTake
<1>. DEFINE A == {a \in UNION {Range(Sent[i]) : i \in DOMAIN Sent} : a.k \in {"str", "bin"}}
            S == {8} \cup {a.n : a \in A}  b == Power[4] + 8
<1>1. DOMAIN Sent = 1..Len(items) /\ Power[4] \in Nat
  <2>1. DOMAIN Sent = DOMAIN items
    BY Zenon DEF Sent
  <2>2. DOMAIN items = 1..Len(items)
    BY SendingFacts
  <2>3. Power[4] \in Nat
    BY PowerFacts
  <2>. QED
    BY <2>1, <2>2, <2>3
<1>2. \A i \in 1..Len(items) : DOMAIN Sent[i] = 1..Len(Sent[i])
  BY SentIs
<1>3. ASSUME NEW a \in A PROVE a.n \in Nat /\ a.n < Power[4]
  <2>1. PICK i \in 1..Len(items) : a \in Range(Sent[i])
    BY <1>1
  <2>2. PICK j \in 1..Len(Sent[i]) : a = Sent[i][j]
    BY <1>2, <2>1 DEF Range
  <2>3. Arrives(a)
    BY <2>2 DEF Laid, LaidAt, Lies
  <2>4. a.k \in {"str", "bin"}
    OBVIOUS
  <2>5. a.s \in Seq(Digit) /\ a.n = Len(a.s) /\ a.n < Power[4]
    BY <2>3, <2>4 DEF Arrives
  <2>. QED
    BY <2>5
<1>4. ASSUME NEW i \in 1..Len(items), NEW j \in 1..Len(Sent[i]), Sent[i][j].k \in {"str", "bin"}
      PROVE  Sent[i][j].n \in S
  <2>1. Sent[i][j] \in Range(Sent[i])
    BY <1>2 DEF Range
  <2>2. Sent[i][j] \in A
    BY <1>1, <1>4, <2>1
  <2>. QED
    BY <2>2
<1>. HIDE DEF A
<1>5. S \in SUBSET Nat /\ 8 \in S /\ b \in Nat /\ \A x \in S : x <= b
  BY <1>1, <1>3
<1>6. LongestTake = Max(S)
  BY Zenon DEF LongestTake, A
<1>. HIDE DEF S, b
<1>7. Max(S) \in S /\ \A x \in S : x <= Max(S)
  BY <1>5, GreatestOf
<1>8. Max(S) \in Nat /\ 8 <= Max(S)
  BY <1>5, <1>7
<1>. QED
  BY <1>4, <1>6, <1>7, <1>8

\* What a port makes of an atom is an atom.
LEMMA GotFacts ==
    ASSUME NEW a, Arrives(a)
    PROVE  Got(a) \in Received
<1>0. /\ a = Atom(a.k, a.n, a.s) /\ a.n \in Int
      /\ a.k \in {"nil", "true", "false", "int", "float", "str", "bin", "array", "map"}
  BY DEF Arrives
<1>e. <<>> \in Seq(Digit)
  OBVIOUS
<1>1. CASE a.k = "int"
  <2>1. Got(a) = Atom("int", Wrapped(a.n), <<>>)
    BY <1>1 DEF Got
  <2>2. Wrapped(a.n) \in Int
    BY <1>0, Bounds DEF Wrapped
  <2>. QED
    BY <1>e, <2>1, <2>2 DEF Atom, Received
<1>2. CASE a.k = "float" /\ dec = "rust" /\ a.n \in NonFinite
  <2>1. Got(a) = Atom("nil", 0, <<>>)
    BY <1>2 DEF Got
  <2>. QED
    BY <1>e, <2>1 DEF Atom, Received
<1>3. CASE a.k # "int" /\ ~(a.k = "float" /\ dec = "rust" /\ a.n \in NonFinite)
  <2>1. Got(a) = a
    BY <1>3 DEF Got
  <2>2. a.s \in Seq(Digit)
    BY <1>e DEF Arrives
  <2>3. Atom(a.k, a.n, a.s) \in Received
    BY <1>0, <2>2 DEF Atom, Received
  <2>. QED
    BY <1>0, <2>1, <2>3
<1>. QED
  BY <1>1, <1>2, <1>3

\* The bytes at hand are those of the input from the cursor on.
LEMMA HandFacts ==
    ASSUME Window, Laid, NEW n \in Nat, AtHand >= n
    PROVE  /\ Cursor \in Nat /\ Cursor + n <= read /\ Cursor + n <= Len(input) /\ pos + n \in 0..Len(buf)
           /\ \A x \in 1..n : buf[pos + x] = input[Cursor + x]
<1>1. /\ read \in Nat /\ read <= Len(input) /\ Len(buf) \in Nat /\ Len(buf) <= read
      /\ pos \in Nat /\ pos <= Len(buf) /\ Len(input) \in Nat
      /\ \A x \in 1..Len(buf) : buf[x] = input[(read - Len(buf)) + x]
  BY DEF Window, Laid
<1>2. Len(buf) - pos >= n
  BY DEF AtHand
<1>3. /\ Cursor \in Nat /\ Cursor + n <= read /\ Cursor + n <= Len(input)
      /\ pos + n \in 0..Len(buf)
  BY <1>1, <1>2 DEF Cursor
<1>4. ASSUME NEW x \in 1..n PROVE buf[pos + x] = input[Cursor + x]
  <2>1. pos + x \in 1..Len(buf) /\ (read - Len(buf)) + (pos + x) = Cursor + x
    BY <1>1, <1>2 DEF Cursor
  <2>. QED
    BY <1>1, <2>1
<1>. QED
  BY <1>3, <1>4

\* What a reader takes is the bytes of the input from its cursor on.
LEMMA TakenFacts ==
    ASSUME Window, Laid, need \in Nat \ {0}, AtHand >= need
    PROVE  Len(Taken) = need /\ \A x \in 1..need : Taken[x] = input[Cursor + x]
<1>1. buf \in Seq(Byte) /\ pos \in Nat /\ pos + need \in 0..Len(buf) /\ pos + need \in pos..Len(buf)
      /\ \A x \in 1..need : buf[pos + x] = input[Cursor + x]
  <2>1. need \in Nat /\ pos \in Nat /\ buf \in Seq(Byte) /\ Len(buf) \in Nat
    BY DEF Window
  <2>2. pos + need \in 0..Len(buf) /\ \A x \in 1..need : buf[pos + x] = input[Cursor + x]
    BY <2>1, HandFacts
  <2>. QED
    BY <2>1, <2>2
<1>2. /\ Len(SubSeq(buf, pos + 1, pos + need)) = (pos + need) - pos
      /\ \A x \in 1..((pos + need) - pos) : SubSeq(buf, pos + 1, pos + need)[x] = buf[pos + x]
  BY <1>1, Part
<1>3. (pos + need) - pos = need
  BY <1>1
<1>. QED
  BY <1>1, <1>2, <1>3 DEF Taken

\* Taking moves the cursor over what is taken, and holds no more.
LEMMA TakeMoves ==
    ASSUME Window, Laid, need \in Nat \ {0}, AtHand >= need, Take, input' = input
    PROVE  /\ Window' /\ Cursor' = Cursor + need /\ Cursor' <= Len(input)
           /\ AtHand' = AtHand - need /\ Len(buf') <= Len(buf)
           /\ dec = "python" => pos' <= ChunkSize
<1>0. /\ read \in Nat /\ read <= Len(input) /\ Len(buf) \in Nat /\ Len(buf) <= read
      /\ pos \in Nat /\ pos <= Len(buf) /\ Len(input) \in Nat /\ buf \in Seq(Byte)
      /\ \A x \in 1..Len(buf) : buf[x] = input[(read - Len(buf)) + x]
  BY DEF Window, Laid
<1>1. /\ Cursor + need <= Len(input) /\ pos + need \in Nat /\ pos + need <= Len(buf)
  BY <1>0, HandFacts
<1>2. read' = read /\ ChunkSize \in Nat
  BY ReaderAssumption DEF Take
<1>3. CASE dec = "python" /\ pos + need > ChunkSize
  <2>. DEFINE b == SubSeq(buf, (pos + need) + 1, Len(buf))
  <2>1. buf' = b /\ pos' = 0
    BY <1>3 DEF Take
  <2>2. /\ b \in Seq(Byte) /\ Len(b) = Len(buf) - (pos + need)
        /\ \A x \in 1..(Len(buf) - (pos + need)) : b[x] = buf[(pos + need) + x]
    <3>1. Len(buf) \in (pos + need)..Len(buf)
      BY <1>0, <1>1
    <3>. QED
      BY <1>0, <1>1, <3>1, Part
  <2>. HIDE DEF b
  <2>3. ASSUME NEW x \in 1..Len(b) PROVE b[x] = input[(read - Len(b)) + x]
    <3>1. /\ (pos + need) + x \in 1..Len(buf)
          /\ (read - Len(buf)) + ((pos + need) + x) = (read - Len(b)) + x
      BY <1>0, <1>1, <2>2
    <3>2. buf[(pos + need) + x] = input[(read - Len(buf)) + ((pos + need) + x)]
      BY <1>0, <3>1
    <3>. QED
      BY <2>2, <3>1, <3>2
  <2>4. Len(b) \in Nat /\ Len(b) <= read /\ Len(b) <= Len(buf) /\ 0 \in 0..Len(b)
    BY <1>0, <1>1, <2>2
  <2>5. Window'
    <3>1. read' = read /\ input' = input /\ buf' = b /\ pos' = 0
      BY <1>2, <2>1
    <3>2. \A x \in 1..Len(buf') : buf'[x] = input'[(read' - Len(buf')) + x]
      BY <2>3, <3>1
    <3>3. /\ read' \in 0..Len(input') /\ buf' \in Seq(Byte) /\ Len(buf') <= read'
          /\ pos' \in 0..Len(buf')
      BY <1>0, <2>2, <2>4, <3>1
    <3>. QED
      BY <3>2, <3>3 DEF Window
  <2>6. Cursor' = Cursor + need /\ AtHand' = AtHand - need
    <3>. DEFINE l == Len(b)  h == Len(buf)
    <3>1. /\ read \in Nat /\ h \in Nat /\ pos \in Nat /\ need \in Nat
          /\ l = h - (pos + need)
      BY <1>0, <2>2
    <3>2. Cursor' = (read - l) + 0 /\ AtHand' = l - 0
      BY <1>2, <2>1 DEF Cursor, AtHand
    <3>3. Cursor = (read - h) + pos /\ AtHand = h - pos
      BY DEF Cursor, AtHand
    <3>. HIDE DEF l, h
    <3>4. (read - l) + 0 = ((read - h) + pos) + need /\ l - 0 = (h - pos) - need
      BY ONLY <3>1
    <3>. QED
      BY <3>2, <3>3, <3>4
  <2>. QED
    BY <1>1, <1>2, <2>1, <2>4, <2>5, <2>6
<1>4. CASE ~(dec = "python" /\ pos + need > ChunkSize)
  <2>1. pos' = pos + need /\ buf' = buf
    BY <1>4 DEF Take
  <2>2. pos' \in 0..Len(buf')
    BY <1>0, <1>1, <2>1
  <2>3. Window'
    BY <1>0, <1>2, <2>1, <2>2 DEF Window
  <2>4. Cursor' = Cursor + need /\ AtHand' = AtHand - need
    BY <1>0, <1>1, <1>2, <2>1 DEF Cursor, AtHand
  <2>5. dec = "python" => pos' <= ChunkSize
    BY <1>1, <1>2, <1>4, <2>1
  <2>. QED
    BY <1>0, <1>1, <2>1, <2>3, <2>4, <2>5
<1>. QED
  BY <1>3, <1>4

-----------------------------------------------------------------------------
(***************************************************************************)
(* What a port makes of an argument.                                       *)
(***************************************************************************)
\* An integer's argument is read as the integer, or as what it wraps to.
LEMMA ResultIs ==
    ASSUME NEW k, NEW w, NEW m \in Int, NEW n \in Int, Counts(k, w, m, n),
           k = "sint" => w # 0
    PROVE  Result(k, w, m) = Wrapped(n)
<1>. DEFINE q == Power[8] \div 2  p == Power[8]  jd == dec \in {"java", "dotnet"}
            go == dec = "go"
<1>1. /\ p \in Nat /\ q \in Nat /\ 2 * q = p /\ Range64 = p
      /\ MinInt64 = -q /\ MaxInt64 = q - 1
  BY Bounds
<1>2. \A x : Signed(x, 8) = IF x >= q THEN x - p ELSE x
  BY DEF Signed
<1>3. Wrapped(n) = IF n > MaxInt64 /\ jd THEN n - Range64
                   ELSE IF n < MinInt64 /\ (jd \/ go) THEN n + Range64 ELSE n
  BY DEF Wrapped
<1>. HIDE DEF p, q
<1>4. CASE k = "uint"
  <2>1. m = n /\ n \in 0 .. p - 1 /\ (w # 8 => n <= MaxInt64)
    BY <1>4 DEF Counts, p
  <2>2. Result(k, w, m) = IF w = 8 /\ jd THEN Signed(m, 8) ELSE m
    BY <1>4 DEF Result, Wraps
  <2>. HIDE DEF jd, go
  <2>. QED
    BY <1>1, <1>2, <1>3, <2>1, <2>2
<1>5. CASE k = "sint"
  <2>1. n < 0 /\ n >= MinInt64 /\ Signed(m, w) = n
    BY <1>5 DEF Counts
  <2>2. Result(k, w, m) = Signed(m, w)
    BY <1>5 DEF Result
  <2>. HIDE DEF jd, go
  <2>. QED
    BY <1>1, <1>3, <2>1, <2>2
<1>6. CASE k = "nint"
  <2>1. m = -1 - n /\ m \in 0 .. p - 1 /\ (w # 8 => n >= MinInt64)
    BY <1>6 DEF Counts, p
  <2>2. Result(k, w, m) = -1 - (IF w = 8 /\ (jd \/ go) THEN Signed(m, 8) ELSE m)
    BY <1>6 DEF Result, Wraps
  <2>. HIDE DEF jd, go
  <2>. QED
    BY <1>1, <1>2, <1>3, <2>1, <2>2
<1>. QED
  BY <1>4, <1>5, <1>6 DEF Counts

\* How the reading of an atom goes on once its argument is known.
Settles(a, w) ==
    \/ Barred(a) /\ Stop("refused") /\ UNCHANGED <<valueVars, yielded>>
    \/ /\ ~Barred(a) /\ a.k \in {"str", "bin"} /\ a.n # 0
       /\ stage' = "data" /\ kind' = a.k /\ width' = w /\ need' = a.n
       /\ UNCHANGED <<todo, atoms, yielded, outcome>>
    \/ ~Barred(a) /\ Body(a) = 0 /\ Give(Got(a), Inside(a.k, a.n))

\* An argument and what was sent.
Reads(k, w, m, a) ==
    /\ Arrives(a) /\ Means(k, w, m, a) /\ m \in Int /\ w \in Widths
    /\ k = "sint" => w # 0
    /\ k = "bin" => dec \notin {"go", "rust", "java"}

\* A reader that knows the argument refuses the atom, goes on to its text, or
\* has it whole: as the port makes it of what was sent.
LEMMA ArgumentSettles ==
    ASSUME NEW k, NEW w, NEW m, NEW a, Reads(k, w, m, a), Argument(k, w, m)
    PROVE  Settles(a, w)
<1>0. /\ Arrives(a) /\ Means(k, w, m, a) /\ m \in Int /\ (k = "sint" => w # 0)
      /\ k = "bin" => dec \notin {"go", "rust", "java"}
      /\ a = Atom(a.k, a.n, a.s) /\ a.n \in Int
  BY DEF Reads, Arrives
<1>1. CASE a.k \in {"str", "bin"}
  <2>1. k = a.k /\ m = a.n /\ a.s \in Seq(Digit) /\ a.n = Len(a.s)
    BY <1>0, <1>1 DEF Means, Arrives
  <2>2. ~Barred(a)
    BY <1>0, <1>1, <2>1 DEF Barred
  <2>3. CASE m = 0
    <3>1. Give(Atom(k, 0, <<>>), 0)
      BY <1>1, <2>1, <2>3 DEF Argument
    <3>2. a.s = <<>>
      BY <2>1, <2>3
    <3>3. Got(a) = a /\ a = Atom(k, 0, <<>>) /\ Inside(a.k, a.n) = 0 /\ Body(a) = 0
      BY <1>0, <1>1, <2>1, <2>3, <3>2 DEF Got, Inside, Body
    <3>4. Give(Got(a), Inside(a.k, a.n))
      BY <3>1, <3>3
    <3>. QED
      BY <2>2, <3>3, <3>4 DEF Settles
  <2>4. CASE m # 0
    <3>1. /\ stage' = "data" /\ kind' = k /\ width' = w /\ need' = m
          /\ UNCHANGED <<todo, atoms, yielded, outcome>>
      BY <1>1, <2>1, <2>4 DEF Argument
    <3>. QED
      BY <1>1, <2>1, <2>2, <2>4, <3>1 DEF Settles
  <2>. QED
    BY <2>3, <2>4
<1>2. CASE a.k = "int"
  <2>1. Counts(k, w, m, a.n)
    BY <1>0, <1>2 DEF Means
  <2>2. k \in {"uint", "sint", "nint"}
    BY <2>1 DEF Counts
  <2>3. k = "nint" => a.n = -1 - m
    <3>1. k = "nint" => m = -1 - a.n
      BY <2>1 DEF Counts
    <3>. QED
      BY <1>0, <3>1
  <2>4. k # "nint" => a.n >= MinInt64
    BY <2>1, Bounds DEF Counts
  <2>5. Barred(a) <=> dec = "rust" /\ a.n < MinInt64
    BY <1>2 DEF Barred
  <2>6. CASE k = "nint" /\ dec = "rust" /\ -1 - m < MinInt64
    <3>1. Stop("refused") /\ UNCHANGED <<valueVars, yielded>>
      BY <2>6 DEF Argument
    <3>2. Barred(a)
      BY <2>3, <2>5, <2>6
    <3>. QED
      BY <3>1, <3>2 DEF Settles
  <2>7. CASE ~(k = "nint" /\ dec = "rust" /\ -1 - m < MinInt64)
    <3>1. Give(Atom("int", Result(k, w, m), <<>>), 0)
      BY <2>2, <2>7 DEF Argument
    <3>2. Result(k, w, m) = Wrapped(a.n)
      BY <1>0, <2>1, ResultIs
    <3>3. Got(a) = Atom("int", Wrapped(a.n), <<>>) /\ Inside(a.k, a.n) = 0 /\ Body(a) = 0
      BY <1>2 DEF Got, Inside, Body
    <3>4. ~Barred(a)
      <4>1. MinInt64 \in Int
        BY Bounds
      <4>. QED
        BY <1>0, <2>3, <2>4, <2>5, <2>7, <4>1
    <3>5. Give(Got(a), Inside(a.k, a.n))
      BY <3>1, <3>2, <3>3
    <3>. QED
      BY <3>3, <3>4, <3>5 DEF Settles
  <2>. QED
    BY <2>6, <2>7
<1>3. CASE a.k \in {"nil", "true", "false", "float", "array", "map"}
  <2>1. k = a.k /\ m = a.n /\ a.s = <<>> /\ Body(a) = 0 /\ ~Barred(a)
    BY <1>0, <1>3 DEF Means, Arrives, Body, Barred
  <2>2. CASE k = "float" /\ dec = "rust" /\ m \in NonFinite
    <3>1. Give(Atom("nil", 0, <<>>), 0)
      BY <2>2 DEF Argument
    <3>2. Got(a) = Atom("nil", 0, <<>>) /\ Inside(a.k, a.n) = 0
      BY <2>1, <2>2 DEF Got, Inside
    <3>3. Give(Got(a), Inside(a.k, a.n))
      BY <3>1, <3>2
    <3>. QED
      BY <2>1, <3>3 DEF Settles
  <2>3. CASE ~(k = "float" /\ dec = "rust" /\ m \in NonFinite)
    <3>1. Give(Atom(k, m, <<>>), Inside(k, m))
      BY <1>3, <2>1, <2>3 DEF Argument
    <3>2. Got(a) = a /\ a = Atom(k, m, <<>>)
      BY <1>0, <1>3, <2>1, <2>3 DEF Got
    <3>3. Give(Got(a), Inside(a.k, a.n))
      BY <2>1, <3>1, <3>2
    <3>. QED
      BY <2>1, <3>3 DEF Settles
  <2>. QED
    BY <2>2, <2>3
<1>. QED
  BY <1>0, <1>1, <1>2, <1>3 DEF Arrives

-----------------------------------------------------------------------------
(***************************************************************************)
(* The reader inside an element.                                           *)
(***************************************************************************)
\* The atom that comes next, and its bytes.
NextAtom == Sent[Here][Due]
Bytes == Pieces(Here)[Due]

\* The invariant of a reader that has not ended, inside an element.
Inner ==
    /\ Sending /\ Laid /\ Typed /\ Given /\ Within
    /\ stage \in {"head", "argument", "data"}

\* Inside an element there is an atom to come, which lies where Laid says.
LEMMA InnerFacts ==
    ASSUME Inner
    PROVE  /\ Here \in 1..Len(items) /\ Due \in 1..Len(Sent[Here]) /\ Here \in Nat
           /\ Due \in Nat /\ Len(Sent[Here]) \in Nat
           /\ Len(yielded) = Here - 1 /\ Len(atoms) = Due - 1
           /\ LaidAt(Here) /\ Lies(Here, Due)
           /\ Arrives(NextAtom) /\ Shape(Bytes, NextAtom)
           /\ outcome = "none"
<1>1. Len(yielded) \in Nat /\ Len(atoms) \in Nat /\ outcome = "none"
  BY DEF Inner, Typed
<1>2. Here \in 1..Len(items) /\ Here \in Nat /\ Len(yielded) = Here - 1
  <2>1. Len(items) \in Nat /\ Here <= Len(items)
    BY DEF Inner, Laid, Within
  <2>. QED
    BY <1>1, <2>1 DEF Here
<1>3. LaidAt(Here)
  BY <1>2 DEF Inner, Laid
<1>4. Len(Sent[Here]) \in Nat
  BY <1>3 DEF LaidAt
<1>5. Due \in 1..Len(Sent[Here]) /\ Due \in Nat /\ Len(atoms) = Due - 1
  <2>1. Due <= Len(Sent[Here])
    BY DEF Inner, Within
  <2>. QED
    BY <1>1, <1>4, <2>1 DEF Due
<1>6. Lies(Here, Due)
  BY <1>3, <1>5 DEF LaidAt
<1>7. Arrives(NextAtom) /\ Shape(Bytes, NextAtom)
  BY <1>6 DEF Lies, NextAtom, Bytes
<1>. QED
  BY <1>1, <1>2, <1>3, <1>4, <1>5, <1>6, <1>7

\* An atom that is whole.
AtomWhole ==
    /\ Unmoved /\ ~Barred(NextAtom) /\ Give(Got(NextAtom), Inside(NextAtom.k, NextAtom.n))
    /\ Cursor' = Spot(Here, Due + 1) /\ Cursor' <= Len(input)

\* The reader is where it should be behind a whole atom.
LEMMA GivePlace ==
    ASSUME Inner, AtomWhole
    PROVE  Typed' /\ Given' /\ Place' /\ Judged' /\ need' = 1
<1>. DEFINE i == Here  j == Due  a == NextAtom  g == Got(NextAtom)  n == Inside(NextAtom.k, NextAtom.n)
            L == Len(Sent[Here])  N == Len(items)
<1>1. /\ i \in 1..N /\ j \in 1..L /\ i \in Nat /\ j \in Nat /\ L \in Nat
      /\ Len(yielded) = i - 1 /\ Len(atoms) = j - 1
      /\ LaidAt(i) /\ Lies(i, j) /\ Arrives(a) /\ outcome = "none"
  BY InnerFacts
<1>2. /\ Typed /\ Given /\ Within /\ Laid /\ N \in Nat /\ ~Barred(a) /\ Give(g, n)
      /\ Cursor' = Spot(i, j + 1) /\ Cursor' <= Len(input)
  BY DEF Inner, Laid, AtomWhole
<1>3. g \in Received
  BY <1>1, GotFacts
<1>4. /\ Sent' = Sent /\ items' = items /\ input' = input
      /\ \A x : Extent(x)' = Extent(x)
      /\ \A x, y : Spot(x, y)' = Spot(x, y) /\ Owed(x, y)' = Owed(x, y)
      /\ \A x : Barred(x)' = Barred(x) /\ Got(x)' = Got(x)
  BY SameSending DEF AtomWhole
<1>5. /\ atoms \in Seq(Received) /\ yielded \in Seq(Seq(Received)) /\ todo \in Nat
  BY <1>2 DEF Typed
<1>. DEFINE at == Append(atoms, g)
<1>6. /\ at \in Seq(Received) /\ Len(at) = j /\ at[j] = g
      /\ \A x \in 1..(j - 1) : at[x] = atoms[x]
  BY <1>1, <1>3, <1>5
<1>7. \A x \in 1..j : at[x] = Got(Sent[i][x]) /\ ~Barred(Sent[i][x])
  <2>1. \A x \in 1..(j - 1) : atoms[x] = Got(Sent[i][x]) /\ ~Barred(Sent[i][x])
    BY <1>1, <1>2 DEF Within
  <2>2. at[j] = Got(Sent[i][j]) /\ ~Barred(Sent[i][j])
    BY <1>2, <1>6 DEF NextAtom
  <2>3. \A x \in 1..j : x = j \/ x \in 1..(j - 1)
    BY <1>1
  <2>. QED
    BY <1>6, <2>1, <2>2, <2>3
<1>8. Owed(i, j) = (todo - 1) + n /\ Owed(i, j) \in Nat /\ (Owed(i, j) = 0 <=> j = L)
  <2>1. todo = Owed(i, j - 1)
    BY <1>1, <1>2 DEF Within
  <2>2. Owed(i, j) = Owed(i, j - 1) - 1 + n
    BY <1>1 DEF Lies, NextAtom
  <2>3. j \in 0..L
    BY <1>1
  <2>4. Owed(i, j) \in Nat /\ (Owed(i, j) = 0 <=> j = L)
    BY <1>1, <2>3 DEF LaidAt
  <2>. QED
    BY <2>1, <2>2, <2>4
<1>n. n \in Int
  <2>1. a.n \in Int
    BY <1>1 DEF Arrives
  <2>. QED
    BY <2>1 DEF Inside
<1>9. /\ kind' = "none" /\ width' = 0 /\ need' = 1 /\ outcome' = "none"
      /\ IF todo + n = 1
           THEN /\ stage' = "boundary" /\ todo' = 1 /\ atoms' = <<>>
                /\ yielded' = Append(yielded, at)
           ELSE /\ stage' = "head" /\ todo' = todo - 1 + n /\ atoms' = at /\ yielded' = yielded
  BY <1>1, <1>2 DEF Give
<1>10. Judged'
  BY <1>9 DEF Judged
<1>. HIDE DEF i, j, a, g, n, L, N, at
<1>11. CASE todo + n = 1
  <2>1. /\ stage' = "boundary" /\ todo' = 1 /\ atoms' = <<>>
        /\ yielded' = Append(yielded, at)
    BY <1>9, <1>11
  <2>2. j = L
    BY <1>5, <1>8, <1>11, <1>n
  <2>3. /\ yielded' \in Seq(Seq(Received)) /\ Len(yielded') = i /\ yielded'[i] = at
        /\ \A x \in 1..(i - 1) : yielded'[x] = yielded[x]
    BY <1>1, <1>5, <1>6, <2>1
  <2>4. Typed'
    BY <1>9, <2>1, <2>3 DEF Typed, Widths
  <2>5. Cursor' = Extent(i)
    BY <1>1, <1>2, <2>2 DEF LaidAt, L, i
  <2>6. Given'
    <3>1. ASSUME NEW x \in 1..i
          PROVE  /\ Len(yielded'[x]) = Len(Sent[x])
                 /\ \A y \in 1..Len(Sent[x]) : yielded'[x][y] = Got(Sent[x][y]) /\ ~Barred(Sent[x][y])
      <4>1. CASE x = i
        BY <1>6, <1>7, <2>2, <2>3, <4>1 DEF L, i
      <4>2. CASE x # i
        <5>1. x \in 1..(i - 1)
          BY <1>1, <4>2
        <5>. QED
          BY <1>1, <1>2, <2>3, <5>1 DEF Given
      <4>. QED
        BY <4>1, <4>2
    <3>2. i <= N /\ Extent(i) <= Len(input)
      BY <1>1, <1>2, <2>5
    <3>. QED
      BY <1>4, <2>3, <3>1, <3>2 DEF Given, N
  <2>7. Place'
    <3>1. Between'
      BY <1>4, <1>9, <2>1, <2>3, <2>5 DEF Between
    <3>. QED
      BY <2>1, <3>1 DEF Place
  <2>. QED
    BY <1>9, <1>10, <2>4, <2>6, <2>7
<1>12. CASE todo + n # 1
  <2>1. /\ stage' = "head" /\ todo' = todo - 1 + n /\ atoms' = at /\ yielded' = yielded
    BY <1>9, <1>12
  <2>2. todo' = Owed(i, j) /\ todo' \in Nat \ {0} /\ j < L
    <3>1. todo' = Owed(i, j) /\ Owed(i, j) # 0
      BY <1>5, <1>8, <1>12, <1>n, <2>1
    <3>. QED
      BY <1>1, <1>8, <3>1
  <2>3. Typed'
    BY <1>5, <1>6, <1>9, <2>1, <2>2 DEF Typed, Widths
  <2>4. Given'
    BY <1>2, <1>4, <2>1 DEF Given
  <2>5. Here' = i /\ Due' = j + 1 /\ Len(atoms') = j
    BY <1>1, <1>6, <2>1 DEF Here, Due, i
  <2>6. Within'
    <3>1. Here' <= Len(items') /\ (Extent(Len(yielded)) < Len(input))'
      BY <1>2, <1>4, <2>1, <2>5 DEF Within, i
    <3>2. (Due <= Len(Sent[Here]))'
      BY <1>1, <1>4, <2>2, <2>5 DEF L, i
    <3>3. (\A x \in 1..Len(atoms) : atoms[x] = Got(Sent[Here][x]) /\ ~Barred(Sent[Here][x]))'
      BY <1>4, <1>7, <2>1, <2>5
    <3>4. (todo = Owed(Here, Len(atoms)))'
      BY <1>4, <2>2, <2>5
    <3>. QED
      BY <3>1, <3>2, <3>3, <3>4 DEF Within
  <2>7. AtHead'
    <3>1. Cursor' = Spot(i, j + 1)
      BY <1>2
    <3>2. Spot(Here, Due)' = Spot(i, j + 1)
      BY <1>4, <2>5
    <3>. QED
      BY <1>9, <3>1, <3>2 DEF AtHead
  <2>8. Place'
    BY <2>1, <2>6, <2>7 DEF Place
  <2>. QED
    BY <1>9, <1>10, <2>3, <2>4, <2>8
<1>. QED
  BY <1>11, <1>12

\* What the reader is at, and how long it is.
LEMMA BytesFacts ==
    ASSUME Inner
    PROVE  /\ Spot(Here, Due) \in Nat /\ Bytes[1].width \in Nat /\ Bytes[1].width \in Widths
           /\ Body(NextAtom) \in Nat /\ Len(Bytes) = 1 + Bytes[1].width + Body(NextAtom)
           /\ Spot(Here, Due + 1) = Spot(Here, Due) + Len(Bytes)
           /\ Spot(Here, Due + 1) <= Extent(Here)
           /\ \A x \in 1..Len(Bytes) : Spot(Here, Due) + x <= Len(input)
                                         => input[Spot(Here, Due) + x] = Bytes[x]
           /\ Bytes \in Seq(Byte) /\ Bytes[1].kind \in LeadKinds /\ Arg(Bytes) \in Int
           /\ Means(Bytes[1].kind, Bytes[1].width, Arg(Bytes), NextAtom)
           /\ Extent(Here) \in Nat /\ Len(input) \in Nat
<1>1. Lies(Here, Due) /\ Arrives(NextAtom) /\ Shape(Bytes, NextAtom) /\ Here \in 1..Len(items)
  BY InnerFacts
<1>2. /\ Spot(Here, Due) \in Nat
      /\ Spot(Here, Due + 1) = Spot(Here, Due) + Len(Bytes)
      /\ Spot(Here, Due + 1) <= Extent(Here)
      /\ \A x \in 1..Len(Bytes) : Spot(Here, Due) + x <= Len(input)
                                    => input[Spot(Here, Due) + x] = Bytes[x]
  BY <1>1 DEF Lies, Bytes
<1>3. /\ Bytes[1].width \in Nat /\ Bytes[1].width \in Widths
      /\ Body(NextAtom) \in Nat /\ Len(Bytes) = 1 + Bytes[1].width + Body(NextAtom)
  BY <1>1, CodeLength
<1>4. /\ Bytes \in Seq(Byte) /\ Bytes[1].kind \in LeadKinds /\ Arg(Bytes) \in Int
      /\ Means(Bytes[1].kind, Bytes[1].width, Arg(Bytes), NextAtom)
  BY <1>1 DEF Shape
<1>5. Here \in 0..Len(items) /\ Len(items) \in Nat /\ Len(input) \in Nat
      /\ \A i \in 0..Len(items) : Extent(i) \in Nat
  BY <1>1 DEF Inner, Laid
<1>. QED
  BY <1>2, <1>3, <1>4, <1>5

\* A refusal is for cause.
LEMMA RefusalKeeps ==
    ASSUME Inner, Unmoved, Barred(NextAtom), Stop("refused"), UNCHANGED <<valueVars, yielded>>
    PROVE  Typed' /\ Given' /\ Place' /\ Judged'
<1>1. /\ stage' = "done" /\ outcome' = "refused" /\ yielded' = yielded /\ atoms' = atoms
      /\ kind' = kind /\ width' = width /\ need' = need /\ todo' = todo
  BY DEF Stop, valueVars
<1>2. /\ Sent' = Sent /\ items' = items /\ input' = input
      /\ \A x : Extent(x)' = Extent(x)
      /\ \A x : Barred(x)' = Barred(x) /\ Got(x)' = Got(x) /\ Refuses(x)' = Refuses(x)
  BY SameSending
<1>3. Typed /\ Given
  BY DEF Inner
<1>4. Typed'
  BY <1>1, <1>3 DEF Typed
<1>5. Given'
  BY <1>1, <1>2, <1>3 DEF Given
<1>6. Place'
  BY <1>1 DEF Place
<1>7. Refuses(Here) /\ Here <= Len(items)
  <2>1. Here \in 1..Len(items) /\ Due \in 1..Len(Sent[Here]) /\ Len(items) \in Nat
    BY InnerFacts DEF Inner, Laid
  <2>2. NextAtom \in Range(Sent[Here])
    <3>1. DOMAIN Sent[Here] = 1..Len(Sent[Here])
      BY <2>1, SentIs DEF Inner
    <3>. QED
      BY <2>1, <3>1 DEF Range, NextAtom
  <2>3. Refuses(Here)
    BY <2>2 DEF Refuses, Barred
  <2>. QED
    BY <2>1, <2>3
<1>8. Judged'
  <2>1. Here' = Here
    BY <1>1 DEF Here
  <2>2. Refuses(Here)'
    BY <1>2, <1>7, <2>1
  <2>3. (Here <= Len(items))'
    BY <1>2, <1>7, <2>1
  <2>4. (Extent(Len(yielded)) < Len(input))'
    BY <1>1, <1>2 DEF Inner, Within
  <2>. QED
    BY <1>1, <2>2, <2>3, <2>4 DEF Judged
<1>. QED
  BY <1>4, <1>5, <1>6, <1>8

\* An argument whose value is known leaves the reader where it should be.
LEMMA SettlesKeeps ==
    ASSUME Inner, Unmoved, need <= LongestTake, Settles(NextAtom, Bytes[1].width),
           Cursor' = Spot(Here, Due) + 1 + Bytes[1].width, Cursor' <= Len(input)
    PROVE  Typed' /\ Given' /\ Place' /\ Judged' /\ need' <= LongestTake
<1>. DEFINE a == NextAtom  w == Bytes[1].width
<1>0. Sending /\ Laid /\ Typed /\ Given /\ Within
  BY DEF Inner
<1>1. /\ Spot(Here, Due) \in Nat /\ w \in Nat /\ w \in Widths
      /\ Body(a) \in Nat /\ Len(Bytes) = 1 + w + Body(a)
      /\ Spot(Here, Due + 1) = Spot(Here, Due) + Len(Bytes)
  BY BytesFacts
<1>2. /\ Here \in 1..Len(items) /\ Due \in 1..Len(Sent[Here]) /\ Arrives(a)
      /\ outcome = "none" /\ Len(yielded) = Here - 1 /\ Len(atoms) = Due - 1
  BY InnerFacts
<1>3. LongestTake \in Nat /\ LongestTake >= 8
      /\ (a.k \in {"str", "bin"} => a.n <= LongestTake)
  BY <1>0, <1>2, LongestFacts DEF NextAtom
<1>4. CASE Barred(a) /\ Stop("refused") /\ UNCHANGED <<valueVars, yielded>>
  <2>1. Typed' /\ Given' /\ Place' /\ Judged'
    BY <1>4, RefusalKeeps
  <2>2. need' = need
    BY <1>4 DEF valueVars
  <2>. QED
    BY <2>1, <2>2
<1>5. CASE ~Barred(a) /\ Body(a) = 0 /\ Give(Got(a), Inside(a.k, a.n))
  <2>1. Cursor' = Spot(Here, Due + 1)
    BY <1>1, <1>5
  <2>2. AtomWhole
    BY <1>5, <2>1 DEF AtomWhole
  <2>3. Typed' /\ Given' /\ Place' /\ Judged' /\ need' = 1
    BY <2>2, GivePlace
  <2>. QED
    BY <1>3, <2>3
<1>6. CASE /\ ~Barred(a) /\ a.k \in {"str", "bin"} /\ a.n # 0
           /\ stage' = "data" /\ kind' = a.k /\ width' = w /\ need' = a.n
           /\ UNCHANGED <<todo, atoms, yielded, outcome>>
  <2>1. /\ stage' = "data" /\ kind' = a.k /\ width' = w /\ need' = a.n
        /\ todo' = todo /\ atoms' = atoms /\ yielded' = yielded /\ outcome' = "none"
    BY <1>2, <1>6
  <2>2. a.n \in Nat \ {0}
    <3>1. a.s \in Seq(Digit) /\ a.n = Len(a.s)
      BY <1>2, <1>6 DEF Arrives
    <3>. QED
      BY <1>6, <3>1
  <2>3. /\ Sent' = Sent /\ items' = items /\ input' = input
        /\ \A x : Extent(x)' = Extent(x) /\ Pieces(x)' = Pieces(x)
        /\ \A x, y : Spot(x, y)' = Spot(x, y) /\ Owed(x, y)' = Owed(x, y)
        /\ \A x : Barred(x)' = Barred(x) /\ Got(x)' = Got(x)
    BY SameSending
  <2>4. Here' = Here /\ Due' = Due
    BY <2>1 DEF Here, Due
  <2>. HIDE DEF a, w
  <2>5. Typed'
    BY <1>0, <1>1, <2>1, <2>2 DEF Typed
  <2>6. Given'
    BY <1>0, <2>1, <2>3 DEF Given
  <2>7. Within'
    <3>1. (Here <= Len(items) /\ Extent(Len(yielded)) < Len(input))'
      BY <1>0, <2>1, <2>3, <2>4 DEF Within
    <3>2. (Due <= Len(Sent[Here]))'
      BY <1>0, <2>3, <2>4 DEF Within
    <3>3. (\A x \in 1..Len(atoms) : atoms[x] = Got(Sent[Here][x]) /\ ~Barred(Sent[Here][x]))'
      BY <1>0, <2>1, <2>3, <2>4 DEF Within
    <3>4. (todo = Owed(Here, Len(atoms)))'
      BY <1>0, <2>1, <2>3, <2>4 DEF Within
    <3>. QED
      BY <3>1, <3>2, <3>3, <3>4 DEF Within
  <2>8. AtData'
    <3>1. (Sent[Here][Due])' = a
      BY <2>3, <2>4 DEF NextAtom, a
    <3>2. (Spot(Here, Due))' = Spot(Here, Due)
      BY <2>3, <2>4
    <3>3. (Pieces(Here)[Due][1].width)' = w
      BY <2>3, <2>4 DEF w, Bytes
    <3>4. Cursor' = Spot(Here, Due) + 1 + w
      BY DEF w
    <3>5. (~Barred(Sent[Here][Due]))'
      BY <1>6, <2>3, <2>4 DEF NextAtom, a
    <3>6. a.k \in {"str", "bin"}
      BY <1>6
    <3>. QED
      BY <2>1, <3>1, <3>2, <3>3, <3>4, <3>5, <3>6 DEF AtData
  <2>9. Place'
    BY <2>1, <2>7, <2>8 DEF Place
  <2>10. Judged'
    BY <2>1 DEF Judged
  <2>11. need' <= LongestTake
    BY <1>3, <1>6, <2>1
  <2>. QED
    BY <2>5, <2>6, <2>9, <2>10, <2>11
<1>. QED
  BY <1>4, <1>5, <1>6 DEF Settles

\* Taking leaves the reader within its bound.
LEMMA TakeBounded ==
    ASSUME Sending, Laid, Window, Bounded, need \in Nat \ {0}, AtHand >= need, Take, Unmoved,
           need' <= LongestTake
    PROVE  Window' /\ Bounded'
<1>1. LongestTake' = LongestTake /\ dec' = dec /\ input' = input
  BY SameSending
<1>2. /\ Window' /\ AtHand' = AtHand - need /\ Len(buf') <= Len(buf)
      /\ dec = "python" => pos' <= ChunkSize
  BY <1>1, TakeMoves
<1>3. LongestTake \in Nat /\ ChunkSize \in Nat
  BY LongestFacts, ReaderAssumption
<1>4. Len(buf) \in Nat /\ Len(buf') \in Nat /\ AtHand \in Int
  <2>1. pos \in Nat /\ buf \in Seq(Byte) /\ buf' \in Seq(Byte)
    BY <1>2 DEF Window
  <2>. QED
    BY <2>1 DEF AtHand
<1>5. AtHand' <= LongestTake + ChunkSize - 1
  BY <1>2, <1>3, <1>4 DEF Bounded
<1>6. dec # "python" => Len(buf') <= LongestTake + ChunkSize - 1
  BY <1>2, <1>3, <1>4 DEF Bounded
<1>. QED
  BY <1>1, <1>2, <1>5, <1>6 DEF Bounded

-----------------------------------------------------------------------------
(***************************************************************************)
(* Every step keeps the invariant.                                         *)
(***************************************************************************)
\* The invariant, and where every byte of the wire lies with it.
LEMMA InvFacts ==
    ASSUME Inv
    PROVE  /\ Sending /\ Laid /\ Typed /\ Window /\ Given /\ Place /\ Judged /\ Bounded
           /\ stage \in {"head", "argument", "data"} => Inner
<1>1. Sending /\ Typed /\ Window /\ Given /\ Place /\ Judged /\ Bounded
  BY DEF Inv
<1>2. Laid
  BY <1>1, WireLaid
<1>3. stage \in {"head", "argument", "data"} => Within
  BY <1>1 DEF Place
<1>. QED
  BY <1>1, <1>2, <1>3 DEF Inner

\* The reader takes something inside an element.
Takes ==
    /\ Inv /\ Unmoved /\ stage \in {"head", "argument", "data"}
    /\ AtHand >= need /\ Take

\* What it takes is what lies at its place.
LEMMA TakesFacts ==
    ASSUME Takes
    PROVE  /\ Inner /\ need \in Nat \ {0} /\ need <= LongestTake
           /\ Cursor \in Nat /\ Cursor + need <= Len(input)
           /\ Cursor' = Cursor + need /\ Cursor' <= Len(input)
           /\ \A x \in 1..need : Taken[x] = input[Cursor + x]
           /\ Len(Taken) = need /\ buf[pos + 1] = input[Cursor + 1]
           /\ (stage = "head" => AtHead) /\ (stage = "argument" => AtArgument)
           /\ (stage = "data" => AtData)
<1>1. /\ Inv /\ Unmoved /\ AtHand >= need /\ Take /\ Inner /\ Window /\ Laid /\ Typed /\ Bounded
      /\ Place
  BY InvFacts DEF Takes
<1>2. need \in Nat \ {0} /\ need \in Nat /\ 1 \in 1..need
  BY <1>1 DEF Typed
<1>3. need <= LongestTake
  BY <1>1 DEF Bounded
<1>4. /\ Cursor \in Nat /\ Cursor + need <= Len(input)
      /\ \A x \in 1..need : buf[pos + x] = input[Cursor + x]
  BY <1>1, <1>2, HandFacts
<1>5. Len(Taken) = need /\ \A x \in 1..need : Taken[x] = input[Cursor + x]
  BY <1>1, <1>2, TakenFacts
<1>6. input' = input
  BY <1>1, SameSending
<1>7. Cursor' = Cursor + need /\ Cursor' <= Len(input)
  BY <1>1, <1>2, <1>6, TakeMoves
<1>8. /\ (stage = "head" => AtHead) /\ (stage = "argument" => AtArgument)
      /\ (stage = "data" => AtData)
  BY <1>1 DEF Place
<1>9. buf[pos + 1] = input[Cursor + 1]
  BY <1>2, <1>4
<1>. QED
  BY <1>1, <1>2, <1>3, <1>4, <1>5, <1>7, <1>8, <1>9

\* What is left to show of such a step.
LEMMA TakesKeeps ==
    ASSUME Takes, Typed' /\ Given' /\ Place' /\ Judged', need' <= LongestTake
    PROVE  Inv'
<1>1. Sending /\ Laid /\ Window /\ Bounded /\ AtHand >= need /\ Take /\ Unmoved
  BY InvFacts DEF Takes
<1>2. need \in Nat \ {0}
  BY TakesFacts
<1>3. Window' /\ Bounded'
  BY <1>1, <1>2, TakeBounded
<1>4. Sending'
  BY <1>1, SameSending
<1>. QED
  BY <1>3, <1>4 DEF Inv

\* The text of a string or a byte string is read as it was sent.
LEMMA TakeDataKeeps ==
    ASSUME Inv, TakeData, Unmoved
    PROVE  Inv'
<1>. DEFINE a == NextAtom  c == Bytes  w == Bytes[1].width  s == Spot(Here, Due)
<1>0. Takes
  BY DEF TakeData, Takes
<1>1. /\ Inner /\ need \in Nat \ {0} /\ need <= LongestTake
      /\ Cursor + need <= Len(input)
      /\ Cursor' = Cursor + need /\ Cursor' <= Len(input)
      /\ \A x \in 1..need : Taken[x] = input[Cursor + x]
      /\ AtData
  BY <1>0, TakesFacts DEF TakeData
<1>2. /\ Cursor = s + 1 + w /\ kind = a.k /\ need = a.n /\ a.k \in {"str", "bin"} /\ ~Barred(a)
  BY <1>1 DEF AtData, NextAtom, Bytes
<1>3. /\ s \in Nat /\ w \in Nat /\ Len(c) = 1 + w + Body(a) /\ Body(a) = a.n
      /\ Spot(Here, Due + 1) = s + Len(c)
      /\ \A x \in 1..Len(c) : s + x <= Len(input) => input[s + x] = c[x]
      /\ Len(input) \in Nat
  BY <1>1, <1>2, BytesFacts DEF Body
<1>4. Arrives(a) /\ Shape(c, a) /\ LongestTake \in Nat /\ LongestTake >= 8
  BY <1>1, InnerFacts, LongestFacts DEF Inner
<1>5. a = Atom(a.k, a.n, a.s) /\ a.s \in Seq(Digit) /\ a.n = Len(a.s)
  BY <1>2, <1>4 DEF Arrives
<1>6. \A x \in 1..need : c[1 + w + x].n = a.s[x]
  BY <1>2, <1>3, <1>4 DEF Shape
<1>7. Give(Atom(kind, need, [x \in 1..need |-> Taken[x].n]), 0)
  BY DEF TakeData
<1>. HIDE DEF a, c, w, s
<1>8. ASSUME NEW x \in 1..need PROVE Taken[x].n = a.s[x]
  <2>0. /\ need \in Nat /\ Cursor + need <= Len(input) /\ Cursor = s + 1 + w
        /\ s \in Nat /\ w \in Nat /\ Len(c) = 1 + w + need /\ Len(input) \in Nat
        /\ x \in 1..need
    BY <1>1, <1>2, <1>3
  <2>1. /\ 1 + w + x \in 1..Len(c) /\ s + (1 + w + x) = Cursor + x
        /\ s + (1 + w + x) <= Len(input)
    BY ONLY <2>0
  <2>2. input[Cursor + x] = c[1 + w + x]
    BY <1>3, <2>1
  <2>. QED
    BY <1>1, <1>6, <2>2
<1>9. [x \in 1..need |-> Taken[x].n] = a.s
  <2>1. a.s = [x \in 1..need |-> a.s[x]]
    BY <1>2, <1>5
  <2>2. [x \in 1..need |-> Taken[x].n] = [x \in 1..need |-> a.s[x]]
    BY <1>8
  <2>. QED
    BY <2>1, <2>2
<1>10. Atom(kind, need, [x \in 1..need |-> Taken[x].n]) = a
  BY <1>2, <1>5, <1>9
<1>11. Got(a) = a /\ Inside(a.k, a.n) = 0
  BY <1>2 DEF Got, Inside
<1>12. Give(Got(a), Inside(a.k, a.n))
  BY <1>7, <1>10, <1>11
<1>13. Cursor' = Spot(Here, Due + 1)
  BY <1>1, <1>2, <1>3
<1>14. AtomWhole
  BY <1>1, <1>2, <1>12, <1>13 DEF AtomWhole, a
<1>15. Typed' /\ Given' /\ Place' /\ Judged' /\ need' = 1
  BY <1>1, <1>14, GivePlace
<1>16. need' <= LongestTake
  BY <1>4, <1>15
<1>. QED
  BY <1>0, <1>15, <1>16, TakesKeeps

\* The argument that follows a first byte is read as it was written.
LEMMA TakeArgumentKeeps ==
    ASSUME Inv, TakeArgument, Unmoved
    PROVE  Inv'
<1>. DEFINE a == NextAtom  c == Bytes  b == Bytes[1]  w == Bytes[1].width  s == Spot(Here, Due)
            t == Taken
<1>0. Takes
  BY DEF TakeArgument, Takes
<1>1. /\ Inner /\ need \in Nat \ {0} /\ need <= LongestTake
      /\ Cursor + need <= Len(input)
      /\ Cursor' = Cursor + need /\ Cursor' <= Len(input)
      /\ Len(t) = need /\ \A x \in 1..need : t[x] = input[Cursor + x]
      /\ AtArgument
  BY <1>0, TakesFacts DEF TakeArgument
<1>2. /\ Cursor = s + 1 /\ kind = b.kind /\ width = w /\ need = w
      /\ kind = "bin" => dec \notin {"go", "rust", "java"}
  BY <1>1 DEF AtArgument, Bytes
<1>3. /\ s \in Nat /\ w \in Nat /\ w \in Widths /\ Body(a) \in Nat /\ Len(c) = 1 + w + Body(a)
      /\ \A x \in 1..Len(c) : s + x <= Len(input) => input[s + x] = c[x]
      /\ c \in Seq(Byte) /\ Arg(c) \in Int /\ Means(b.kind, w, Arg(c), a)
      /\ Len(input) \in Nat
  BY <1>1, BytesFacts
<1>4. Arrives(a)
  BY <1>1, InnerFacts
<1>5. Argument(kind, width, Number(t))
  BY DEF TakeArgument
<1>p. input \in Seq(Byte) /\ buf \in Seq(Byte) /\ t = SubSeq(buf, pos + 1, pos + need)
      /\ pos \in Nat /\ pos + need \in pos..Len(buf)
  <2>1. Laid /\ Window /\ AtHand >= need
    BY <1>0, InvFacts DEF Takes
  <2>2. pos \in Nat /\ buf \in Seq(Byte) /\ input \in Seq(Byte)
    BY <2>1 DEF Window, Laid
  <2>3. need \in Nat
    BY <1>1
  <2>4. pos + need \in 0..Len(buf)
    BY <2>1, <2>3, HandFacts
  <2>5. pos + need \in pos..Len(buf)
    BY <2>2, <2>3, <2>4
  <2>. QED
    BY <2>2, <2>5 DEF Taken
<1>. HIDE DEF a, c, w, s, t
<1>6. t = SubSeq(c, 2, 1 + w)
  <2>1. 1 + w \in 1..Len(c) /\ 1 \in Nat /\ 1 + 1 = 2 /\ (1 + w) - 1 = w
    BY <1>3
  <2>2. /\ SubSeq(c, 1 + 1, 1 + w) \in Seq(Byte) /\ Len(SubSeq(c, 1 + 1, 1 + w)) = (1 + w) - 1
        /\ \A j \in 1..((1 + w) - 1) : SubSeq(c, 1 + 1, 1 + w)[j] = c[1 + j]
    BY <1>3, <2>1, Part
  <2>3. t \in Seq(Byte)
    BY <1>p, Part
  <2>4. ASSUME NEW x \in 1..w PROVE t[x] = SubSeq(c, 2, 1 + w)[x]
    <3>1. 1 + x \in 1..Len(c) /\ s + (1 + x) = Cursor + x /\ s + (1 + x) <= Len(input)
      BY <1>1, <1>2, <1>3
    <3>2. t[x] = c[1 + x]
      BY <1>1, <1>2, <1>3, <3>1
    <3>. QED
      BY <2>1, <2>2, <3>2
  <2>. QED
    BY <1>1, <1>2, <2>1, <2>2, <2>3, <2>4, SeqEqual
<1>7. w # 0 /\ Number(t) = Arg(c)
  <2>1. w # 0
    BY <1>1, <1>2
  <2>2. Arg(c) = Number(SubSeq(c, 2, 1 + w))
    BY <2>1 DEF Arg, c, w
  <2>. QED
    BY <1>6, <2>1, <2>2
<1>8. Reads(b.kind, w, Arg(c), a)
  BY <1>2, <1>3, <1>4, <1>7 DEF Reads
<1>9. Argument(b.kind, w, Arg(c))
  BY <1>2, <1>5, <1>7
<1>10. Settles(a, w)
  BY <1>8, <1>9, ArgumentSettles
<1>11. Cursor' = s + 1 + w
  BY <1>1, <1>2
<1>12. Typed' /\ Given' /\ Place' /\ Judged' /\ need' <= LongestTake
  BY <1>1, <1>10, <1>11, SettlesKeeps DEF a, w, s
<1>. QED
  BY <1>0, <1>12, TakesKeeps

\* The first byte is that of the atom due, whose kind and width it tells.
LEMMA TakeHeadKeeps ==
    ASSUME Inv, TakeHead, Unmoved
    PROVE  Inv'
<1>. DEFINE a == NextAtom  c == Bytes  b == Bytes[1]  w == Bytes[1].width  k == Bytes[1].kind
            s == Spot(Here, Due)  d == buf[pos + 1]
            R == d.kind = "raw" \/ (d.kind = "bin" /\ dec \in {"go", "rust", "java"})
<1>0. Takes
  BY DEF TakeHead, Takes
<1>1. /\ Inner /\ need \in Nat \ {0} /\ need <= LongestTake
      /\ Cursor + need <= Len(input)
      /\ Cursor' = Cursor + need /\ Cursor' <= Len(input)
      /\ d = input[Cursor + 1] /\ AtHead
  BY <1>0, TakesFacts DEF TakeHead
<1>2. Cursor = s /\ need = 1
  BY <1>1 DEF AtHead
<1>3. /\ s \in Nat /\ w \in Nat /\ w \in Widths /\ Body(a) \in Nat /\ Len(c) = 1 + w + Body(a)
      /\ \A x \in 1..Len(c) : s + x <= Len(input) => input[s + x] = c[x]
      /\ k \in LeadKinds /\ Arg(c) \in Int /\ Means(k, w, Arg(c), a)
      /\ Len(input) \in Nat
  BY <1>1, BytesFacts
<1>4. d = b
  <2>1. 1 \in 1..Len(c) /\ s + 1 <= Len(input)
    BY <1>1, <1>2, <1>3
  <2>. QED
    BY <1>1, <1>2, <1>3, <2>1
<1>5. Arrives(a) /\ outcome = "none" /\ LongestTake \in Nat /\ LongestTake >= 8
      /\ Here \in 1..Len(items) /\ Due \in 1..Len(Sent[Here])
  BY <1>1, InnerFacts, LongestFacts DEF Inner
<1>6. Cursor' = s + 1
  BY <1>1, <1>2
<1>7. /\ R => Stop("refused") /\ UNCHANGED <<valueVars, yielded>>
      /\ ~R /\ d.width > 0 =>
            /\ stage' = "argument" /\ kind' = d.kind /\ width' = d.width /\ need' = d.width
            /\ UNCHANGED <<todo, atoms, yielded, outcome>>
      /\ ~R /\ ~(d.width > 0) /\ d.kind = "sint" => Give(Atom("int", d.n, <<>>), 0)
      /\ ~R /\ ~(d.width > 0) /\ d.kind # "sint" => Argument(d.kind, 0, d.n)
  <2>1. IF R THEN Stop("refused") /\ UNCHANGED <<valueVars, yielded>>
        ELSE IF d.width > 0
          THEN /\ stage' = "argument" /\ kind' = d.kind /\ width' = d.width /\ need' = d.width
               /\ UNCHANGED <<todo, atoms, yielded, outcome>>
        ELSE IF d.kind = "sint" THEN Give(Atom("int", d.n, <<>>), 0)
        ELSE Argument(d.kind, 0, d.n)
    BY Zenon DEF TakeHead
  <2>. HIDE DEF R, d
  <2>. QED
    BY <2>1, Zenon
<1>8. R <=> k = "bin" /\ dec \in {"go", "rust", "java"}
  <2>1. k # "raw"
    BY <1>3 DEF LeadKinds
  <2>. QED
    BY <1>4, <2>1
<1>9. k = "bin" => a.k = "bin"
  BY <1>3 DEF Means, Counts
<1>10. CASE R
  <2>1. Barred(a)
    BY <1>8, <1>9, <1>10 DEF Barred
  <2>2. Stop("refused") /\ UNCHANGED <<valueVars, yielded>>
    BY <1>7, <1>10
  <2>3. Typed' /\ Given' /\ Place' /\ Judged'
    BY <1>1, <2>1, <2>2, RefusalKeeps DEF TakeHead
  <2>4. need' <= LongestTake
    BY <1>1, <2>2 DEF valueVars
  <2>. QED
    BY <1>0, <2>3, <2>4, TakesKeeps
<1>11. CASE ~R /\ w > 0
  <2>1. /\ stage' = "argument" /\ kind' = k /\ width' = w /\ need' = w
        /\ todo' = todo /\ atoms' = atoms /\ yielded' = yielded /\ outcome' = "none"
    BY <1>4, <1>5, <1>7, <1>11
  <2>2. /\ Sent' = Sent /\ items' = items /\ input' = input /\ dec' = dec
        /\ \A x : Extent(x)' = Extent(x) /\ Pieces(x)' = Pieces(x)
        /\ \A x, y : Spot(x, y)' = Spot(x, y) /\ Owed(x, y)' = Owed(x, y)
        /\ \A x : Barred(x)' = Barred(x) /\ Got(x)' = Got(x)
    BY SameSending
  <2>3. Here' = Here /\ Due' = Due
    BY <2>1 DEF Here, Due
  <2>4. Typed /\ Given /\ Within /\ Bytes = Pieces(Here)[Due]
    BY <1>1 DEF Inner, Bytes
  <2>5. k = "bin" => dec \notin {"go", "rust", "java"}
    BY <1>8, <1>11
  <2>. HIDE DEF a, c, b, w, k, s, d, R
  <2>6. Typed'
    BY <1>3, <1>11, <2>1, <2>4 DEF Typed
  <2>7. Given'
    BY <2>1, <2>2, <2>4 DEF Given
  <2>8. Within'
    <3>1. (Here <= Len(items) /\ Extent(Len(yielded)) < Len(input))'
      BY <2>1, <2>2, <2>3, <2>4 DEF Within
    <3>2. (Due <= Len(Sent[Here]))'
      BY <2>2, <2>3, <2>4 DEF Within
    <3>3. (\A x \in 1..Len(atoms) : atoms[x] = Got(Sent[Here][x]) /\ ~Barred(Sent[Here][x]))'
      BY <2>1, <2>2, <2>3, <2>4 DEF Within
    <3>4. (todo = Owed(Here, Len(atoms)))'
      BY <2>1, <2>2, <2>3, <2>4 DEF Within
    <3>. QED
      BY <3>1, <3>2, <3>3, <3>4 DEF Within
  <2>9. AtArgument'
    <3>1. (Spot(Here, Due))' = s
      BY <2>2, <2>3 DEF s
    <3>2. (Pieces(Here)[Due][1])' = b
      BY <2>2, <2>3, <2>4 DEF b
    <3>3. b.kind = k /\ b.width = w
      BY DEF b, k, w
    <3>. QED
      BY <1>6, <2>1, <2>2, <2>5, <3>1, <3>2, <3>3 DEF AtArgument
  <2>10. Place'
    BY <2>1, <2>8, <2>9 DEF Place
  <2>11. Judged'
    BY <2>1 DEF Judged
  <2>12. need' <= LongestTake
    <3>1. w <= 8
      BY <1>3 DEF Widths
    <3>. QED
      BY <1>3, <1>5, <2>1, <3>1
  <2>. QED
    BY <1>0, <2>6, <2>7, <2>10, <2>11, <2>12, TakesKeeps
<1>12. CASE ~R /\ ~(w > 0)
  <2>1. w = 0
    BY <1>3, <1>12
  <2>2. Arg(c) = b.n
    BY <2>1 DEF Arg
  <2>3. Settles(a, w)
    <3>1. CASE k = "sint"
      <4>1. Give(Atom("int", b.n, <<>>), 0)
        BY <1>4, <1>7, <1>12, <3>1
      <4>2. a.k = "int" /\ Counts("sint", w, Arg(c), a.n)
        BY <1>3, <3>1 DEF Means
      <4>3. a.n < 0 /\ a.n >= MinInt64 /\ b.n = a.n
        BY <2>1, <2>2, <4>2 DEF Counts
      <4>4. Wrapped(a.n) = a.n
        <5>1. a.n \in Int /\ MaxInt64 \in Int /\ MinInt64 \in Int /\ MaxInt64 >= -1
          <6>1. /\ MaxInt64 \in Int /\ MinInt64 \in Int /\ MaxInt64 = (Power[8] \div 2) - 1
                /\ Power[8] \div 2 \in Nat
            BY Bounds
          <6>. DEFINE q == Power[8] \div 2
          <6>. HIDE DEF q
          <6>2. MaxInt64 = q - 1 /\ q \in Nat
            BY <6>1 DEF q
          <6>3. MaxInt64 >= -1
            BY <6>2
          <6>. QED
            BY <1>5, <6>1, <6>3 DEF Arrives
        <5>2. ~(a.n > MaxInt64) /\ ~(a.n < MinInt64)
          BY <4>3, <5>1
        <5>. QED
          BY <5>2 DEF Wrapped
      <4>5. Got(a) = Atom("int", a.n, <<>>) /\ Inside(a.k, a.n) = 0 /\ Body(a) = 0
        BY <4>2, <4>4 DEF Got, Inside, Body
      <4>6. ~Barred(a)
        <5>1. ~(a.n < MinInt64)
          <6>1. a.n \in Int /\ MinInt64 \in Int
            BY <1>5, Bounds DEF Arrives
          <6>. QED
            BY <4>3, <6>1
        <5>. QED
          BY <4>2, <5>1 DEF Barred
      <4>7. Give(Got(a), Inside(a.k, a.n))
        BY <4>1, <4>3, <4>5
      <4>. QED
        BY <4>5, <4>6, <4>7 DEF Settles
    <3>2. CASE k # "sint"
      <4>1. Argument(k, w, Arg(c))
        BY <1>4, <1>7, <1>12, <2>1, <2>2, <3>2
      <4>2. k = "bin" => dec \notin {"go", "rust", "java"}
        BY <1>8, <1>12
      <4>3. Reads(k, w, Arg(c), a)
        BY <1>3, <1>5, <3>2, <4>2 DEF Reads
      <4>. QED
        BY <4>1, <4>3, ArgumentSettles
    <3>. QED
      BY <3>1, <3>2
  <2>4. Cursor' = s + 1 + w
    BY <1>3, <1>6, <2>1
  <2>5. Typed' /\ Given' /\ Place' /\ Judged' /\ need' <= LongestTake
    BY <1>1, <2>3, <2>4, SettlesKeeps
  <2>. QED
    BY <1>0, <2>5, TakesKeeps
<1>13. w > 0 \/ ~(w > 0)
  OBVIOUS
<1>. HIDE DEF R
<1>. QED
  BY <1>10, <1>11, <1>12, <1>13

\* What the invariant says of the sender's side and of what was handed over
\* does not depend on the buffer.
LEMMA SamePlace ==
    ASSUME Unmoved, Given, UNCHANGED <<valueVars, yielded>>, Cursor' = Cursor
    PROVE  /\ Given' /\ (Between => Between') /\ (Within => Within') /\ (AtHead => AtHead')
           /\ (AtArgument => AtArgument') /\ (AtData => AtData')
           /\ Here' = Here /\ Due' = Due /\ yielded' = yielded
           /\ (Refuses(Here))' = Refuses(Here)
<1>1. /\ yielded' = yielded /\ atoms' = atoms /\ kind' = kind /\ width' = width
      /\ need' = need /\ todo' = todo
  BY DEF valueVars
<1>2. /\ Sent' = Sent /\ items' = items /\ input' = input /\ dec' = dec
      /\ \A x : Extent(x)' = Extent(x)
      /\ \A x : Pieces(x)' = Pieces(x) /\ Refuses(x)' = Refuses(x)
      /\ \A x, y : Spot(x, y)' = Spot(x, y) /\ Owed(x, y)' = Owed(x, y)
      /\ \A x : Barred(x)' = Barred(x) /\ Got(x)' = Got(x)
  BY SameSending
<1>3. Here' = Here /\ Due' = Due
  BY <1>1 DEF Here, Due
<1>4. Given'
  BY <1>1, <1>2 DEF Given
<1>5. Between => Between'
  BY <1>1, <1>2 DEF Between
<1>6. Within => Within'
  <2>. SUFFICES ASSUME Within PROVE Within'
    OBVIOUS
  <2>1. (Here <= Len(items) /\ Extent(Len(yielded)) < Len(input))'
    BY <1>1, <1>2, <1>3 DEF Within
  <2>2. (Due <= Len(Sent[Here]))'
    BY <1>2, <1>3 DEF Within
  <2>3. (\A x \in 1..Len(atoms) : atoms[x] = Got(Sent[Here][x]) /\ ~Barred(Sent[Here][x]))'
    BY <1>1, <1>2, <1>3 DEF Within
  <2>4. (todo = Owed(Here, Len(atoms)))'
    BY <1>1, <1>2, <1>3 DEF Within
  <2>. QED
    BY <2>1, <2>2, <2>3, <2>4 DEF Within
<1>7. (Spot(Here, Due))' = Spot(Here, Due)
  BY <1>2, <1>3
<1>8. AtHead => AtHead'
  BY <1>1, <1>7 DEF AtHead
<1>9. (Pieces(Here)[Due][1])' = Pieces(Here)[Due][1]
  BY <1>2, <1>3
<1>10. AtArgument => AtArgument'
  BY <1>1, <1>2, <1>7, <1>9 DEF AtArgument
<1>11. (Sent[Here][Due])' = Sent[Here][Due]
  BY <1>2, <1>3
<1>12. (Barred(Sent[Here][Due]))' = Barred(Sent[Here][Due])
  BY <1>2, <1>3
<1>13. AtData => AtData'
  BY <1>1, <1>7, <1>9, <1>11, <1>12 DEF AtData
<1>14. (Refuses(Here))' = Refuses(Here)
  BY <1>2, <1>3
<1>. QED
  BY <1>1, <1>3, <1>4, <1>5, <1>6, <1>8, <1>10, <1>13, <1>14

\* The place follows from the stage alone.
LEMMA PlaceStays ==
    ASSUME Unmoved, Given, Place, UNCHANGED <<valueVars, yielded>>, Cursor' = Cursor,
           stage' = stage
    PROVE  Place'
  BY SamePlace DEF Place

\* A read of any length moves what is held and not the place.
LEMMA FillKeeps ==
    ASSUME Inv, Fill, Unmoved
    PROVE  Inv'
<1>1. Sending /\ Laid /\ Typed /\ Window /\ Given /\ Place /\ Judged /\ Bounded
  BY InvFacts
<1>2. PICK n \in 1..ChunkSize :
          /\ read + n <= Len(input)
          /\ read' = read + n
          /\ buf' = (IF dec = "python" THEN buf ELSE SubSeq(buf, pos + 1, Len(buf)))
                      \o SubSeq(input, read + 1, read + n)
          /\ pos' = IF dec = "python" THEN pos ELSE 0
  BY DEF Fill
<1>3. /\ stage # "done" /\ AtHand < need /\ stage' = stage /\ UNCHANGED <<valueVars, yielded>>
      /\ outcome' = outcome /\ kind' = kind /\ width' = width /\ need' = need
      /\ todo' = todo /\ atoms' = atoms /\ yielded' = yielded
  BY DEF Fill, valueVars
<1>4. /\ LongestTake' = LongestTake /\ dec' = dec /\ input' = input /\ Sending' = Sending
      /\ items' = items /\ \A x : Extent(x)' = Extent(x)
  BY SameSending
<1>5. /\ read \in Nat /\ read <= Len(input) /\ Len(buf) \in Nat /\ Len(buf) <= read
      /\ pos \in Nat /\ pos <= Len(buf) /\ Len(input) \in Nat /\ buf \in Seq(Byte)
      /\ input \in Seq(Byte)
      /\ \A x \in 1..Len(buf) : buf[x] = input[(read - Len(buf)) + x]
  BY <1>1 DEF Window, Laid
<1>6. ChunkSize \in Nat /\ n \in Nat /\ n <= ChunkSize /\ n >= 1
  BY ReaderAssumption
<1>. DEFINE o == IF dec = "python" THEN 0 ELSE pos
            h == IF dec = "python" THEN buf ELSE SubSeq(buf, pos + 1, Len(buf))
            t == SubSeq(input, read + 1, read + n)
<1>7. /\ o \in Nat /\ o <= pos /\ (dec # "python" => o = pos) /\ (dec = "python" => o = 0)
      /\ pos' = pos - o
  BY <1>2, <1>5
<1>8. /\ h \in Seq(Byte) /\ Len(h) = Len(buf) - o
      /\ \A x \in 1..Len(h) : h[x] = buf[o + x]
  <2>1. CASE dec = "python"
    BY <1>5, <2>1
  <2>2. CASE dec # "python"
    <3>. DEFINE e == SubSeq(buf, pos + 1, Len(buf))
    <3>1. Len(buf) \in pos..Len(buf)
      BY <1>5
    <3>2. e \in Seq(Byte) /\ Len(e) = Len(buf) - pos
          /\ \A x \in 1..(Len(buf) - pos) : e[x] = buf[pos + x]
      BY <1>5, <3>1, Part
    <3>3. h = e /\ o = pos
      BY <2>2
    <3>. HIDE DEF e, h, o
    <3>. QED
      BY <3>2, <3>3
  <2>. QED
    BY <2>1, <2>2
<1>9. /\ t \in Seq(Byte) /\ Len(t) = n /\ \A x \in 1..n : t[x] = input[read + x]
  <2>1. read + n \in read..Len(input) /\ (read + n) - read = n
    BY <1>2, <1>5, <1>6
  <2>. QED
    BY <1>5, <2>1, Part
<1>10. buf' = h \o t
  BY <1>2
<1>. HIDE DEF h, t, o
<1>11. /\ buf' \in Seq(Byte) /\ Len(buf') = Len(h) + n
       /\ \A x \in 1..Len(h) : buf'[x] = h[x]
       /\ \A x \in 1..n : buf'[Len(h) + x] = t[x]
  <2>1. h \in Seq(Byte) /\ t \in Seq(Byte)
    BY <1>8, <1>9
  <2>2. /\ h \o t \in Seq(Byte) /\ Len(h \o t) = Len(h) + Len(t)
        /\ \A x \in 1..Len(h) : (h \o t)[x] = h[x]
        /\ \A x \in 1..Len(t) : (h \o t)[Len(h) + x] = t[x]
    BY ONLY <2>1, ConcatGrows
  <2>. QED
    BY <1>9, <1>10, <2>2
<1>12. Len(buf') = (Len(buf) - o) + n /\ Len(buf') \in Nat /\ Len(h) \in Nat
  BY <1>5, <1>6, <1>7, <1>8, <1>11
<1>12a. /\ read' = read + n /\ read \in Nat /\ n \in Nat /\ o \in Nat /\ Len(buf) \in Nat
        /\ pos \in Nat /\ pos' = pos - o
        /\ Len(buf') = (Len(buf) - o) + n /\ Len(buf') \in Nat
  BY <1>2, <1>5, <1>6, <1>7, <1>12
<1>13. ASSUME NEW x \in 1..Len(buf') PROVE buf'[x] = input[(read' - Len(buf')) + x]
  <2>0. (read' - Len(buf')) + x = ((read - Len(buf)) + o) + x /\ x \in Nat
    BY ONLY <1>12a, x \in 1..Len(buf')
  <2>1. CASE x <= Len(h)
    <3>1. x \in 1..Len(h) /\ o + x \in 1..Len(buf)
          /\ (read - Len(buf)) + (o + x) = ((read - Len(buf)) + o) + x
      BY <1>5, <1>7, <1>8, <1>12, <2>1
    <3>2. buf'[x] = h[x] /\ h[x] = buf[o + x]
      BY <1>8, <1>11, <3>1
    <3>3. buf[o + x] = input[(read - Len(buf)) + (o + x)]
      BY <1>5, <3>1
    <3>. QED
      BY <2>0, <3>1, <3>2, <3>3
  <2>2. CASE x > Len(h)
    <3>. DEFINE y == x - Len(h)
    <3>1. y \in 1..n /\ x = Len(h) + y /\ read + y = ((read - Len(buf)) + o) + x
      BY <1>5, <1>6, <1>7, <1>8, <1>11, <1>12, <2>2
    <3>. HIDE DEF y
    <3>2. buf'[Len(h) + y] = t[y] /\ t[y] = input[read + y]
      BY <1>9, <1>11, <3>1
    <3>. QED
      BY <2>0, <3>1, <3>2
  <2>. QED
    BY <1>12, <2>0, <2>1, <2>2
<1>14. read' \in 0..Len(input') /\ Len(buf') <= read' /\ pos' \in 0..Len(buf')
  BY <1>2, <1>4, <1>5, <1>6, <1>7, <1>12
<1>15. Window'
  BY <1>4, <1>11, <1>13, <1>14 DEF Window
<1>16. Cursor' = Cursor /\ AtHand' = AtHand + n /\ AtHand \in Int
  BY ONLY <1>12a DEF Cursor, AtHand
<1>17. Given' /\ Place'
  BY <1>1, <1>3, <1>16, SamePlace, PlaceStays
<1>18. Typed'
  BY <1>1, <1>3 DEF Typed
<1>19. Judged'
  BY <1>1, <1>3 DEF Judged, Typed
<1>20. Bounded'
  <2>1. LongestTake \in Nat /\ need \in Nat /\ need <= LongestTake
    BY <1>1, LongestFacts DEF Typed, Bounded
  <2>2. AtHand' <= LongestTake + ChunkSize - 1
    BY <1>3, <1>6, <1>16, <2>1
  <2>3. dec # "python" => Len(buf') <= LongestTake + ChunkSize - 1
    <3>1. dec # "python" => Len(buf') = AtHand'
      BY <1>5, <1>6, <1>7, <1>12, <1>16 DEF AtHand
    <3>. QED
      BY <2>2, <3>1
  <2>4. pos' <= ChunkSize \/ dec # "python"
    BY <1>1, <1>5, <1>7 DEF Bounded
  <2>. QED
    BY <1>3, <1>4, <2>1, <2>2, <2>3, <2>4 DEF Bounded
<1>. QED
  BY <1>1, <1>4, <1>15, <1>17, <1>18, <1>19, <1>20 DEF Inv

\* A step that touches neither buffer nor element, only stage and verdict.
LEMMA StopKeeps ==
    ASSUME Inv, Unmoved, UNCHANGED <<bufVars, valueVars, yielded>>, stage' = "done",
           outcome' \in {"complete", "truncated", "eof", "stopped"},
           outcome' = "complete" => Extent(Len(yielded)) = Len(input),
           outcome' \in {"truncated", "eof"} =>
              /\ Here <= Len(items)
              /\ Extent(Len(yielded)) < Len(input) /\ Len(input) < Extent(Here)
    PROVE  Inv'
<1>1. Sending /\ Laid /\ Typed /\ Window /\ Given /\ Place /\ Judged /\ Bounded
  BY InvFacts
<1>2. /\ kind' = kind /\ width' = width /\ need' = need /\ todo' = todo /\ atoms' = atoms
      /\ yielded' = yielded /\ read' = read /\ buf' = buf /\ pos' = pos
  BY DEF valueVars, bufVars
<1>3. /\ LongestTake' = LongestTake /\ dec' = dec /\ input' = input /\ Sending' = Sending
      /\ items' = items /\ \A x : Extent(x)' = Extent(x)
  BY SameSending
<1>4. Cursor' = Cursor /\ AtHand' = AtHand
  BY <1>2 DEF Cursor, AtHand
<1>5. Given' /\ Here' = Here
  BY <1>1, <1>4, SamePlace
<1>6. Typed'
  BY <1>1, <1>2 DEF Typed
<1>7. Window'
  BY <1>1, <1>2, <1>3 DEF Window
<1>8. Place'
  BY DEF Place
<1>9. Bounded'
  BY <1>1, <1>2, <1>3, <1>4 DEF Bounded
<1>10. Judged'
  <2>1. Extent(Len(yielded))' = Extent(Len(yielded))
    BY <1>2, <1>3
  <2>2. Extent(Here)' = Extent(Here)
    BY <1>3, <1>5
  <2>. QED
    BY <1>2, <1>3, <1>5, <2>1, <2>2 DEF Judged
<1>. QED
  BY <1>1, <1>3, <1>5, <1>6, <1>7, <1>8, <1>9, <1>10 DEF Inv

\* The caller stops between two elements.
LEMMA CallerStopsKeeps ==
    ASSUME Inv, CallerStops, Unmoved
    PROVE  Inv'
<1>1. stage' = "done" /\ outcome' = "stopped" /\ UNCHANGED <<bufVars, valueVars, yielded>>
  BY DEF CallerStops, Stop
<1>. QED
  BY <1>1, StopKeeps

\* An input that ends inside an element ends before that element does.
LEMMA FillFailsKeeps ==
    ASSUME Inv, FillFails, Unmoved
    PROVE  Inv'
<1>0. Sending /\ Laid /\ Typed /\ Window /\ Given /\ Place
  BY InvFacts
<1>1. /\ stage # "done" /\ AtHand < need /\ read = Len(input)
      /\ stage' = "done" /\ UNCHANGED <<bufVars, valueVars, yielded>>
      /\ outcome' = IF stage = "boundary" THEN "complete"
                    ELSE IF dec = "go" /\ AtHand = 0 THEN "eof" ELSE "truncated"
  BY DEF FillFails, Stop, AtEnd
<1>2. /\ read \in Nat /\ Len(buf) \in Nat /\ pos \in Nat /\ pos <= Len(buf) /\ Len(buf) <= read
      /\ Len(input) \in Nat /\ need \in Nat
  BY <1>0 DEF Window, Laid, Typed
<1>3. Cursor + need > Len(input) /\ Cursor <= Len(input) /\ Cursor \in Nat
  BY <1>1, <1>2 DEF AtHand, Cursor
<1>4. CASE stage = "boundary"
  <2>1. outcome' = "complete"
    BY <1>1, <1>4
  <2>2. Cursor = Extent(Len(yielded)) /\ need = 1
    BY <1>0, <1>4 DEF Place, Between
  <2>3. Extent(Len(yielded)) = Len(input)
    BY <1>2, <1>3, <2>2
  <2>. QED
    BY <1>1, <2>1, <2>3, StopKeeps
<1>5. CASE stage # "boundary"
  <2>1. stage \in {"head", "argument", "data"} /\ Inner
    BY <1>0, <1>1, <1>5, InvFacts DEF Typed
  <2>2. outcome' \in {"truncated", "eof"}
    BY <1>1, <1>5
  <2>. DEFINE s == Spot(Here, Due)  w == Bytes[1].width  b == Body(NextAtom)
  <2>3. /\ s \in Nat /\ w \in Nat /\ b \in Nat /\ Len(Bytes) = 1 + w + b
        /\ Spot(Here, Due + 1) = s + Len(Bytes)
        /\ Spot(Here, Due + 1) <= Extent(Here) /\ Extent(Here) \in Nat
    BY <2>1, BytesFacts
  <2>4. stage = "head" => Cursor = s /\ need = 1
    BY <1>0 DEF Place, AtHead
  <2>5. stage = "argument" => Cursor = s + 1 /\ need = w
    BY <1>0 DEF Place, AtArgument, Bytes
  <2>6. stage = "data" => Cursor = s + 1 + w /\ need = b
    <3>1. stage = "data" => AtData
      BY <1>0 DEF Place
    <3>2. AtData => Cursor = s + 1 + w /\ need = b
      BY DEF AtData, Bytes, NextAtom, Body
    <3>. QED
      BY <3>1, <3>2
  <2>. HIDE DEF s, w, b
  <2>7. Cursor + need <= s + (1 + w + b)
    BY <1>2, <2>1, <2>3, <2>4, <2>5, <2>6
  <2>8. Len(input) < Extent(Here)
    BY <1>2, <1>3, <2>3, <2>7
  <2>9. Here <= Len(items) /\ Extent(Len(yielded)) < Len(input)
    BY <2>1 DEF Inner, Within
  <2>. QED
    BY <1>1, <2>2, <2>8, <2>9, StopKeeps
<1>. QED
  BY <1>4, <1>5

\* A byte behind the elements handed over begins another one.
LEMMA BeginKeeps ==
    ASSUME Inv, Begin, Unmoved
    PROVE  Inv'
<1>1. Sending /\ Laid /\ Typed /\ Window /\ Given /\ Place /\ Judged /\ Bounded
  BY InvFacts
<1>2. /\ stage = "boundary" /\ AtHand >= need /\ stage' = "head"
      /\ UNCHANGED <<bufVars, valueVars, yielded, outcome>>
  BY DEF Begin
<1>3. /\ kind' = kind /\ width' = width /\ need' = need /\ todo' = todo /\ atoms' = atoms
      /\ yielded' = yielded /\ read' = read /\ buf' = buf /\ pos' = pos /\ outcome' = outcome
  BY <1>2 DEF valueVars, bufVars
<1>4. /\ LongestTake' = LongestTake /\ dec' = dec /\ input' = input /\ Sending' = Sending
  BY SameSending
<1>5. Cursor' = Cursor /\ AtHand' = AtHand
  BY <1>3 DEF Cursor, AtHand
<1>6. Cursor = Extent(Len(yielded)) /\ atoms = <<>> /\ todo = 1 /\ need = 1
  BY <1>1, <1>2 DEF Place, Between
<1>7. /\ read \in Nat /\ Len(buf) \in Nat /\ pos \in Nat /\ Len(input) \in Nat /\ read <= Len(input)
      /\ Len(items) \in Nat /\ Len(yielded) \in Nat /\ Len(yielded) <= Len(items)
  BY <1>1 DEF Window, Laid, Typed, Given
<1>8. Extent(Len(yielded)) < Len(input)
  BY <1>2, <1>6, <1>7 DEF AtHand, Cursor
<1>9. Here <= Len(items) /\ Here \in 1..Len(items)
  <2>1. Len(input) <= Extent(Len(items)) /\ Extent(Len(items)) \in Nat
        /\ Extent(Len(yielded)) \in Nat
    BY <1>1, <1>7 DEF Laid
  <2>2. Len(yielded) # Len(items)
    BY <1>7, <1>8, <2>1
  <2>. QED
    BY <1>7, <2>2 DEF Here
<1>10. Due = 1 /\ Len(atoms) = 0
  BY <1>6 DEF Due
<1>11. /\ Len(Sent[Here]) \in Nat \ {0} /\ Spot(Here, 1) = Extent(Here - 1) /\ Owed(Here, 0) = 1
  BY <1>1, <1>9 DEF Laid, LaidAt
<1>12. Within
  BY <1>6, <1>8, <1>9, <1>10, <1>11 DEF Within
<1>13. AtHead
  <2>1. Here - 1 = Len(yielded)
    BY <1>7 DEF Here
  <2>. QED
    BY <1>6, <1>10, <1>11, <2>1 DEF AtHead
<1>14. Given' /\ Within' /\ AtHead'
  BY <1>1, <1>2, <1>5, <1>12, <1>13, SamePlace
<1>15. Typed'
  BY <1>1, <1>2, <1>3 DEF Typed
<1>16. Window'
  BY <1>1, <1>3, <1>4 DEF Window
<1>17. Place'
  BY <1>2, <1>14 DEF Place
<1>18. Judged'
  BY <1>1, <1>2, <1>3 DEF Judged, Typed
<1>19. Bounded'
  BY <1>1, <1>3, <1>4, <1>5 DEF Bounded
<1>. QED
  BY <1>1, <1>4, <1>14, <1>15, <1>16, <1>17, <1>18, <1>19 DEF Inv

\* A step of the reader leaves the sender's side alone.
LEMMA StepUnmoved ==
    ASSUME Next
    PROVE  Unmoved /\ ReaderStep
  BY DEF Next, sentVars, ReaderStep, Fill, FillFails, Begin, CallerStops, TakeHead,
         TakeArgument, TakeData, Unmoved

\* A step that changes nothing keeps the invariant.
LEMMA StutterKeeps ==
    ASSUME Inv, UNCHANGED vars
    PROVE  Inv'
<1>1. Sending /\ Laid /\ Typed /\ Window /\ Given /\ Place /\ Judged /\ Bounded
  BY InvFacts
<1>2. /\ UNCHANGED <<valueVars, yielded>> /\ Unmoved
      /\ kind' = kind /\ width' = width /\ need' = need /\ todo' = todo /\ atoms' = atoms
      /\ yielded' = yielded /\ read' = read /\ buf' = buf /\ pos' = pos
      /\ outcome' = outcome /\ stage' = stage
  BY DEF vars, sentVars, readerVars, valueVars, bufVars, Unmoved
<1>3. /\ LongestTake' = LongestTake /\ dec' = dec /\ input' = input /\ Sending' = Sending
      /\ items' = items /\ \A x : Extent(x)' = Extent(x)
  BY <1>2, SameSending
<1>4. Cursor' = Cursor /\ AtHand' = AtHand
  BY <1>2 DEF Cursor, AtHand
<1>5. Given' /\ Here' = Here /\ Place' /\ (Refuses(Here))' = Refuses(Here)
  BY <1>1, <1>2, <1>4, SamePlace, PlaceStays
<1>6. Typed'
  BY <1>1, <1>2 DEF Typed
<1>7. Window'
  BY <1>1, <1>2, <1>3 DEF Window
<1>8. Bounded'
  BY <1>1, <1>2, <1>3, <1>4 DEF Bounded
<1>9. Judged'
  <2>1. Extent(Len(yielded))' = Extent(Len(yielded))
    BY <1>2, <1>3
  <2>2. Extent(Here)' = Extent(Here)
    BY <1>3, <1>5
  <2>. QED
    BY <1>1, <1>2, <1>3, <1>5, <2>1, <2>2 DEF Judged
<1>. QED
  BY <1>1, <1>3, <1>5, <1>6, <1>7, <1>8, <1>9 DEF Inv

\* The invariant holds at first.
LEMMA InitInv ==
    ASSUME Init
    PROVE  Inv
<1>1. Sending
  BY DEF Init, ReaderInit, Sending
<1>2. Laid
  BY <1>1, WireLaid
<1>3. /\ stage = "boundary" /\ read = 0 /\ buf = <<>> /\ pos = 0 /\ width = 0 /\ need = 1
      /\ todo = 1 /\ atoms = <<>> /\ yielded = <<>> /\ outcome = "none"
  BY DEF Init, ReaderInit
<1>4. /\ Len(buf) = 0 /\ Len(atoms) = 0 /\ Len(yielded) = 0 /\ buf \in Seq(Byte)
      /\ atoms \in Seq(Received) /\ yielded \in Seq(Seq(Received))
  BY <1>3
<1>5. Len(input) \in Nat /\ Len(items) \in Nat /\ Extent(0) = 0
  BY <1>2 DEF Laid
<1>6. Typed
  BY <1>3, <1>4 DEF Typed, Widths
<1>7. Window
  BY <1>3, <1>4, <1>5 DEF Window
<1>8. Given
  BY <1>4, <1>5 DEF Given
<1>9. Place
  BY <1>3, <1>4, <1>5 DEF Place, Between, Cursor
<1>10. Judged
  BY <1>3 DEF Judged
<1>11. Bounded
  <2>1. LongestTake \in Nat /\ LongestTake >= 8 /\ ChunkSize \in Nat \ {0}
    BY <1>1, <1>2, LongestFacts, ReaderAssumption
  <2>2. AtHand = 0
    BY <1>3, <1>4 DEF AtHand
  <2>. QED
    BY <1>3, <1>4, <2>1, <2>2 DEF Bounded
<1>. QED
  BY <1>1, <1>6, <1>7, <1>8, <1>9, <1>10, <1>11 DEF Inv

\* The invariant is inductive.
LEMMA StepInv ==
    ASSUME Inv, [Next]_vars
    PROVE  Inv'
<1>1. CASE Next
  <2>1. Unmoved /\ ReaderStep
    BY <1>1, StepUnmoved
  <2>2. CASE Fill
    BY <2>1, <2>2, FillKeeps
  <2>3. CASE FillFails
    BY <2>1, <2>3, FillFailsKeeps
  <2>4. CASE Begin
    BY <2>1, <2>4, BeginKeeps
  <2>5. CASE CallerStops
    BY <2>1, <2>5, CallerStopsKeeps
  <2>6. CASE TakeHead
    BY <2>1, <2>6, TakeHeadKeeps
  <2>7. CASE TakeArgument
    BY <2>1, <2>7, TakeArgumentKeeps
  <2>8. CASE TakeData
    BY <2>1, <2>8, TakeDataKeeps
  <2>. QED
    BY <2>1, <2>2, <2>3, <2>4, <2>5, <2>6, <2>7, <2>8 DEF ReaderStep
<1>2. CASE UNCHANGED vars
  BY <1>2, StutterKeeps
<1>. QED
  BY <1>1, <1>2

\* In every reachable state the reader stands where the encoder put the next
\* byte it needs, and holds nothing but the input around it.
THEOREM BinaryInv == Spec => []Inv
<1>1. Init => Inv
  BY InitInv
<1>2. Inv /\ [Next]_vars => Inv'
  BY StepInv
<1>. QED
  BY <1>1, <1>2, PTL DEF Spec

-----------------------------------------------------------------------------
(***************************************************************************)
(* What the invariant gives.                                               *)
(***************************************************************************)
\* TypeOK: every variable keeps its type.
THEOREM BinaryTyped == Spec => []TypeOK
<1>1. Inv => TypeOK
  <2>. SUFFICES ASSUME Inv PROVE TypeOK
    OBVIOUS
  <2>1. Sending /\ Typed /\ Window
    BY InvFacts
  <2>2. enc \in Encoders /\ items \in Streams /\ fmt \in Formats /\ dec \in Readers
    BY <2>1 DEF Sending
  <2>3. width \in {0, 1, 2, 4, 8}
    BY <2>1 DEF Typed, Widths
  <2>. QED
    BY <2>1, <2>2, <2>3 DEF TypeOK, ReaderTypeOK, Typed, Window
<1>. QED
  BY <1>1, BinaryInv, PTL

\* What a decoder can represent comes out as it is.
LEMMA LosslessGot ==
    ASSUME NEW a, Arrives(a), Lossless(a), dec \in Ports
    PROVE  Got(a) = a
<1>0. a = Atom(a.k, a.n, a.s) /\ a.n \in Int
  BY DEF Arrives
<1>1. CASE a.k = "int"
  <2>1. /\ a.n <= MaxInt64 \/ dec \notin {"java", "dotnet"}
        /\ a.n >= MinInt64 \/ dec \in {"python", "node"}
    BY <1>1 DEF Lossless
  <2>2. dec \in {"java", "dotnet"} => ~(a.n > MaxInt64)
    <3>1. MaxInt64 \in Int
      BY Bounds
    <3>. QED
      BY <1>0, <2>1, <3>1
  <2>3. dec \in {"java", "dotnet", "go"} => ~(a.n < MinInt64)
    <3>1. MinInt64 \in Int
      BY Bounds
    <3>2. dec \in {"java", "dotnet", "go"} => a.n >= MinInt64
      BY <2>1
    <3>. QED
      BY <1>0, <3>1, <3>2
  <2>4. Wrapped(a.n) = a.n
    BY <2>2, <2>3 DEF Wrapped
  <2>5. a.s = <<>>
    BY <1>1 DEF Arrives
  <2>. QED
    BY <1>0, <1>1, <2>4, <2>5 DEF Got
<1>2. CASE a.k # "int"
  <2>1. ~(a.k = "float" /\ dec = "rust" /\ a.n \in NonFinite)
    BY <1>2 DEF Lossless
  <2>. QED
    BY <1>2, <2>1 DEF Got
<1>. QED
  BY <1>1, <1>2

\* Faithful: what is handed over is what was streamed, element for element,
\* between any two ports, however the input is cut and read.
THEOREM BinaryFaithful == Spec => []Faithful
<1>1. Inv => Faithful
  <2>. SUFFICES ASSUME Inv PROVE Faithful
    OBVIOUS
  <2>1. Sending /\ Laid /\ Typed /\ Given /\ dec \in Ports
    BY InvFacts, SendingFacts
  <2>2. Len(yielded) \in Nat /\ Len(yielded) <= Len(items) /\ Len(items) \in Nat
        /\ DOMAIN yielded = 1..Len(yielded)
    BY <2>1 DEF Typed, Given, Laid
  <2>3. ASSUME NEW i \in 1..Len(yielded), Faithfully(i) PROVE yielded[i] = Sent[i]
    <3>0. i \in 1..Len(items)
      BY <2>2
    <3>. DEFINE L == Len(Sent[i])
    <3>1. Len(yielded[i]) = L /\ \A j \in 1..L : yielded[i][j] = Got(Sent[i][j])
      BY <2>1 DEF Given
    <3>2. L \in Nat /\ \A j \in 1..L : Arrives(Sent[i][j])
      BY <2>1, <3>0 DEF Laid, LaidAt, Lies
    <3>3. DOMAIN Sent[i] = 1..L
      BY <2>1, <3>0, SentIs
    <3>4. \A j \in 1..L : Lossless(Sent[i][j])
      BY <2>3, <3>3 DEF Faithfully, Range
    <3>5. \A j \in 1..L : yielded[i][j] = Sent[i][j]
      BY <2>1, <3>1, <3>2, <3>4, LosslessGot
    <3>6. yielded[i] \in Seq(Received)
      BY <2>1, ElementOfSeq DEF Typed
    <3>7. Sent[i] \in Seq(Received)
      <4>1. \A j \in 1..L : Sent[i][j] \in Received
        BY <3>2, <3>4, <2>1, LosslessGot, GotFacts
      <4>2. Sent[i] = [j \in 1..L |-> Sent[i][j]]
        <5>1. Sent[i] = [j \in DOMAIN Sent[i] |-> Sent[i][j]]
          <6>1. i \in DOMAIN items
            BY <2>1, <3>0, SendingFacts
          <6>. DEFINE parts == Flat(items[i], ByUnits(enc, fmt))
          <6>2. Sent[i] = [j \in DOMAIN parts |-> Arriving(parts[j])]
            BY <6>1 DEF Sent
          <6>. HIDE DEF parts
          <6>. QED
            BY <6>2
        <5>. QED
          BY <3>3, <5>1
      <4>3. Sent[i] \in [1..L -> Received]
        BY <4>1, <4>2
      <4>. QED
        BY <3>2, <4>3
    <3>. HIDE DEF L
    <3>8. Len(yielded[i]) = Len(Sent[i]) /\ \A j \in 1..Len(yielded[i]) : yielded[i][j] = Sent[i][j]
      BY <3>1, <3>5 DEF L
    <3>. QED
      BY <3>6, <3>7, <3>8, SeqEqual
  <2>. QED
    BY <2>2, <2>3 DEF Faithful
<1>. QED
  BY <1>1, BinaryInv, PTL

\* RefusedForCause: a decoder refuses nothing an encoder writes but a type or
\* a range its port does not have.
THEOREM BinaryRefusals == Spec => []RefusedForCause
<1>1. Inv => RefusedForCause
  <2>. SUFFICES ASSUME Inv, outcome = "refused"
                PROVE  Len(yielded) < Len(items) /\ Refuses(Len(yielded) + 1)
    BY DEF RefusedForCause
  <2>1. Judged /\ Typed /\ Laid
    BY InvFacts
  <2>2. Here <= Len(items) /\ Refuses(Here)
    BY <2>1 DEF Judged
  <2>3. Len(yielded) \in Nat /\ Len(items) \in Nat
    BY <2>1 DEF Typed, Laid
  <2>. QED
    BY <2>2, <2>3 DEF Here
<1>. QED
  BY <1>1, BinaryInv, PTL

\* BufferBounded: what a reader holds is bounded by the longest text and the
\* length of a read, never by the stream.
THEOREM BinaryBounded == Spec => []BufferBounded
<1>1. Inv => BufferBounded
  <2>. SUFFICES ASSUME Inv PROVE BufferBounded
    OBVIOUS
  <2>1. Sending /\ Laid /\ Window /\ Bounded
    BY InvFacts
  <2>2. LongestTake \in Nat /\ ChunkSize \in Nat /\ Len(buf) \in Nat /\ pos \in Nat
    BY <2>1, LongestFacts, ReaderAssumption DEF Window
  <2>3. CASE dec = "python"
    <3>1. AtHand <= LongestTake + ChunkSize - 1 /\ pos <= ChunkSize
      BY <2>1, <2>3 DEF Bounded
    <3>2. Len(buf) <= LongestTake + ChunkSize - 1 + ChunkSize
      BY <2>2, <3>1 DEF AtHand
    <3>. QED
      BY <2>3, <3>2 DEF BufferBounded
  <2>4. CASE dec # "python"
    <3>1. Len(buf) <= LongestTake + ChunkSize - 1
      BY <2>1, <2>4 DEF Bounded
    <3>2. Len(buf) <= LongestTake + ChunkSize - 1 + 0
      BY <2>2, <3>1
    <3>. QED
      BY <2>4, <3>2 DEF BufferBounded
  <2>. QED
    BY <2>3, <2>4
<1>. QED
  BY <1>1, BinaryInv, PTL

\* The bytes of a value depend on the port for three reasons only.
LEMMA SameElement ==
    ASSUME NEW p, NEW q, NEW v, fmt = "cbor" \/ (fmt = "msgpack" /\ ~PortSpecific(v))
    PROVE  Encoded(p, fmt, v) = Encoded(q, fmt, v)
<1>1. CASE fmt = "cbor"
  <2>1. ByUnits(p, fmt) = FALSE /\ ByUnits(q, fmt) = FALSE
    BY <1>1 DEF ByUnits
  <2>. DEFINE parts == Flat(v, FALSE)  s == [i \in DOMAIN parts |-> CborAtom(parts[i])]
  <2>2. Encoded(p, fmt, v) = FlattenSeq(s)
    BY <1>1, <2>1 DEF Encoded
  <2>3. Encoded(q, fmt, v) = FlattenSeq(s)
    BY <1>1, <2>1 DEF Encoded
  <2>. QED
    BY <2>2, <2>3
<1>2. CASE fmt = "msgpack" /\ ~PortSpecific(v)
  <2>. DEFINE parts == Flat(v, TRUE)  S(r) == [i \in DOMAIN parts |-> MsgPackAtom(r, parts[i])]
  <2>1. Flat(v, FALSE) = parts
        /\ \A a \in Range(parts) : a.k \notin {"float32", "bigint"}
    BY <1>2 DEF PortSpecific
  <2>2. ASSUME NEW r PROVE Encoded(r, fmt, v) = FlattenSeq(S(r))
    <3>1. Flat(v, ByUnits(r, fmt)) = parts
      <4>1. ByUnits(r, fmt) \in BOOLEAN
        BY DEF ByUnits
      <4>. QED
        BY <2>1, <4>1
    <3>. HIDE DEF parts
    <3>2. fmt # "cbor"
      BY <1>2
    <3>. QED
      BY <3>1, <3>2 DEF Encoded
  <2>. HIDE DEF parts
  <2>3. ASSUME NEW i \in DOMAIN parts PROVE MsgPackAtom(p, parts[i]) = MsgPackAtom(q, parts[i])
    <3>. DEFINE a == parts[i]
    <3>1. a.k \notin {"float32", "bigint"}
      BY <2>1 DEF Range
    <3>2. FloatWidth(p, a.k) = 8 /\ FloatWidth(q, a.k) = 8
      BY <3>1 DEF FloatWidth
    <3>. HIDE DEF a
    <3>3. MsgPackAtom(p, a) = MsgPackAtom(q, a)
      BY <3>2 DEF MsgPackAtom
    <3>. QED
      BY <3>3 DEF a
  <2>4. S(p) = S(q)
    BY <2>3
  <2>. QED
    BY <2>2, <2>4
<1>. QED
  BY <1>1, <1>2

\* SameBytes: the ports write the same bytes, in CBOR always, in MessagePack
\* but for keys the two orders sort differently, .NET's float32 and Node's
\* BigInt.
THEOREM BinarySameBytes == Spec => []SameBytes
<1>1. Inv => SameBytes
  <2>. SUFFICES ASSUME Inv, fmt = "cbor" \/ \A i \in DOMAIN items : ~PortSpecific(items[i])
                PROVE  SameWire
    BY DEF SameBytes
  <2>1. fmt = "cbor" \/ (fmt = "msgpack" /\ \A i \in DOMAIN items : ~PortSpecific(items[i]))
    BY InvFacts, SendingFacts DEF Formats
  <2>2. ASSUME NEW p \in Encoders PROVE Wire(p) = Wire(enc)
    <3>1. \A i \in DOMAIN items : Encoded(p, fmt, items[i]) = Encoded(enc, fmt, items[i])
      BY <2>1, SameElement
    <3>2. [i \in DOMAIN items |-> Encoded(p, fmt, items[i])]
            = [i \in DOMAIN items |-> Encoded(enc, fmt, items[i])]
      BY <3>1
    <3>. QED
      BY <3>2, Zenon DEF Wire, EncodedArray
  <2>. QED
    BY <2>2 DEF SameWire
<1>. QED
  BY <1>1, BinaryInv, PTL

-----------------------------------------------------------------------------
(***************************************************************************)
(* The promise of ArrayDelivery.                                           *)
(***************************************************************************)
\* More elements take no fewer bytes.
LEMMA ExtentGrows ==
    ASSUME Laid, NEW m \in 0..Len(items), NEW n \in m..Len(items)
    PROVE  Extent(m) <= Extent(n)
<1>. DEFINE N == Len(items)  E == [i \in 0..N |-> Extent(i)]
<1>1. /\ N \in Nat /\ \A i \in 0..N : E[i] \in Nat
      /\ \A i \in 1..N : E[i - 1] < E[i]
  <2>1. N \in Nat /\ \A i \in 0..N : Extent(i) \in Nat
    BY DEF Laid
  <2>2. \A i \in 1..N : Extent(i - 1) < Extent(i)
    BY DEF Laid, LaidAt
  <2>3. ASSUME NEW i \in 1..N PROVE i - 1 \in 0..N /\ i \in 0..N
    BY <2>1
  <2>. QED
    BY <2>1, <2>2, <2>3
<1>2. m \in 0..N /\ n \in m..N /\ E[m] = Extent(m) /\ E[n] = Extent(n)
  BY <1>1
<1>. HIDE DEF E, N
<1>. DEFINE S == {i \in 0..N : i < m \/ E[m] <= E[i]}
<1>3. ASSUME NEW i \in 0..n - 1, i \in S PROVE i + 1 \in S
  <2>1. i + 1 \in 1..N /\ (i + 1) - 1 = i /\ i \in 0..N /\ i + 1 \in 0..N
    BY <1>1, <1>2
  <2>2. E[i] < E[i + 1] /\ E[i] \in Nat /\ E[i + 1] \in Nat /\ E[m] \in Nat
    BY <1>1, <1>2, <2>1
  <2>3. i < m \/ E[m] <= E[i]
    BY <1>3
  <2>4. i + 1 < m \/ i + 1 = m \/ E[m] <= E[i]
    BY <1>2, <2>1, <2>3
  <2>5. i + 1 < m \/ E[m] <= E[i + 1]
    BY <2>2, <2>4
  <2>. QED
    BY <2>1, <2>5
<1>4. 0 \in S
  BY <1>1, <1>2
<1>. HIDE DEF S
<1>5. n \in S
  <2>1. n \in Nat /\ n \in 0..n
    BY <1>1, <1>2
  <2>2. \A i \in 0..n : i \in S
    BY <1>3, <1>4, <2>1, InductionUpTo
  <2>. QED
    BY <2>1, <2>2
<1>. QED
  BY <1>2, <1>5 DEF S

\* A port refuses an element when it refuses one of its atoms.
LEMMA RefusesIs ==
    ASSUME Sending, NEW i \in 1..Len(items),
           \A j \in 1..Len(Sent[i]) : ~Barred(Sent[i][j])
    PROVE  ~Refuses(i)
<1>1. DOMAIN Sent[i] = 1..Len(Sent[i])
  BY SentIs
<1>2. \A a \in Range(Sent[i]) : ~Barred(a)
  BY <1>1 DEF Range
<1>. QED
  BY <1>2 DEF Refuses, Barred

\* How many elements arrived, seen from one that did when the next did not.
LEMMA ArrivedIs ==
    ASSUME Sending, Laid, NEW t \in 0..Len(items), Arrived(t)
    PROVE  /\ arrived \in 0..Len(items) /\ t <= arrived
           /\ t = Len(items) \/ ~Arrived(t + 1) => arrived = t
<1>. DEFINE N == Len(items)  S == {n \in 0..N : Arrived(n)}
<1>1. N \in Nat /\ arrived = Max(S)
  BY DEF Sending, Laid
<1>2. S \in SUBSET Nat /\ t \in S /\ \A x \in S : x <= N
  BY <1>1
<1>3. arrived \in S /\ t <= arrived
  <2>. HIDE DEF S
  <2>. QED
    BY <1>1, <1>2, GreatestOf
<1>4. ASSUME t < N, ~Arrived(t + 1) PROVE arrived = t
  <2>. SUFFICES ASSUME t + 1 <= arrived PROVE FALSE
    BY <1>1, <1>2, <1>3
  <2>1. Extent(arrived) <= Len(input) /\ \A i \in 1..arrived : ~Refuses(i)
    BY <1>3 DEF Arrived
  <2>2. t + 1 \in 0..N /\ arrived \in (t + 1)..N
    BY <1>1, <1>3, <1>4
  <2>3. Extent(t + 1) <= Extent(arrived)
    BY <2>2, ExtentGrows
  <2>4. Extent(t + 1) \in Nat /\ Extent(arrived) \in Nat /\ Len(input) \in Nat
    BY <1>3, <2>2 DEF Laid
  <2>5. Extent(t + 1) <= Len(input)
    BY <2>1, <2>3, <2>4
  <2>6. \A i \in 1..(t + 1) : ~Refuses(i)
    BY <1>1, <2>1, <2>2
  <2>. QED
    BY <1>4, <2>5, <2>6 DEF Arrived
<1>5. t = N => arrived = t
  BY <1>1, <1>2, <1>3
<1>6. t # N => t < N
  BY <1>1
<1>. QED
  BY <1>3, <1>4, <1>5, <1>6

\* What the caller was told, against what arrived.
Verdict == IF outcome \in {"truncated", "eof", "refused"} THEN "failed" ELSE outcome
Told ==
    /\ arrived \in Nat /\ whole \in BOOLEAN
    /\ Len(yielded) \in Nat /\ Len(yielded) <= arrived
    /\ Verdict \in {"none", "complete", "failed", "stopped"}
    /\ Verdict = "complete" => whole /\ Len(yielded) = arrived
    /\ Verdict = "failed" => ~whole /\ Len(yielded) = arrived

\* The verdict, and how many elements were handed over before it.
LEMMA InvTold ==
    ASSUME Inv
    PROVE  Told
<1>. DEFINE t == Len(yielded)  N == Len(items)  M == Len(input)
<1>1. Sending /\ Laid /\ Typed /\ Given /\ Judged
  BY InvFacts
<1>2. /\ t \in Nat /\ t <= N /\ N \in Nat /\ M \in Nat /\ t \in 0..N
      /\ Extent(t) <= M /\ Extent(t) \in Nat /\ Here = t + 1
  BY <1>1 DEF Typed, Given, Laid, Here
<1>3. Arrived(t)
  <2>1. ASSUME NEW i \in 1..t PROVE ~Refuses(i)
    <3>1. i \in 1..N /\ \A j \in 1..Len(Sent[i]) : ~Barred(Sent[i][j])
      BY <1>1, <1>2 DEF Given
    <3>. QED
      BY <1>1, <3>1, RefusesIs
  <2>. QED
    BY <1>2, <2>1 DEF Arrived
<1>4. /\ arrived \in 0..N /\ t <= arrived
      /\ t = N \/ ~Arrived(t + 1) => arrived = t
  BY <1>1, <1>2, <1>3, ArrivedIs
<1>5. whole = (Extent(arrived) = M)
  BY <1>1 DEF Sending
<1>6. t # N => t + 1 \in 1..N /\ Extent(t) < Extent(t + 1) /\ Extent(t + 1) \in Nat
  <2>1. t # N => t + 1 \in 1..N /\ (t + 1) - 1 = t /\ t + 1 \in 0..N
    BY <1>2
  <2>. QED
    BY <1>1, <2>1 DEF Laid, LaidAt
<1>7. ASSUME outcome = "complete" PROVE whole /\ t = arrived
  <2>1. Extent(t) = M
    BY <1>1, <1>7 DEF Judged
  <2>2. t # N => ~(Extent(t + 1) <= M)
    BY <1>2, <1>6, <2>1
  <2>3. t # N => ~Arrived(t + 1)
    BY <2>2 DEF Arrived
  <2>. QED
    BY <1>4, <1>5, <2>1, <2>3
<1>8. ASSUME outcome \in {"truncated", "eof", "refused"} PROVE ~whole /\ t = arrived
  <2>1. Here <= N /\ Extent(t) < M
    BY <1>1, <1>8 DEF Judged
  <2>2. t # N
    BY <1>2, <2>1
  <2>3. ~Arrived(t + 1)
    <3>1. CASE outcome \in {"truncated", "eof"}
      <4>1. M < Extent(t + 1)
        BY <1>1, <1>2, <3>1 DEF Judged
      <4>2. ~(Extent(t + 1) <= M)
        BY <1>2, <1>6, <2>2, <4>1
      <4>. QED
        BY <4>2 DEF Arrived
    <3>2. CASE outcome = "refused"
      <4>1. Refuses(t + 1) /\ t + 1 \in 1..(t + 1)
        BY <1>1, <1>2, <3>2 DEF Judged
      <4>. QED
        BY <4>1 DEF Arrived
    <3>. QED
      BY <1>8, <3>1, <3>2
  <2>4. arrived = t
    BY <1>4, <2>3
  <2>5. Extent(arrived) # M
    BY <1>2, <2>1, <2>4
  <2>. QED
    BY <1>5, <2>4, <2>5
<1>9. outcome \in {"none", "complete", "truncated", "eof", "refused", "stopped"}
  BY <1>1 DEF Typed
<1>10. arrived \in Nat /\ whole \in BOOLEAN
  BY <1>4, <1>5
<1>. QED
  BY <1>2, <1>4, <1>7, <1>8, <1>9, <1>10 DEF Told, Verdict

\* A step hands over one element at most, and none follows the verdict.
LEMMA OneMore ==
    ASSUME Typed, Next
    PROVE  outcome = "none" /\ (Len(yielded') = Len(yielded) \/ Len(yielded') = Len(yielded) + 1)
<1>1. ReaderStep
  BY DEF Next
<1>2. stage # "done"
  BY <1>1 DEF ReaderStep, Fill, FillFails, Begin, CallerStops, TakeHead, TakeArgument, TakeData
<1>3. ASSUME NEW a, NEW n, Give(a, n)
      PROVE  yielded' = yielded \/ \E t : yielded' = Append(yielded, t)
  BY <1>3 DEF Give
<1>4. ASSUME NEW k, NEW w, NEW n, Argument(k, w, n)
      PROVE  yielded' = yielded \/ \E t : yielded' = Append(yielded, t)
  BY <1>3, <1>4 DEF Argument
<1>5. yielded' = yielded \/ \E t : yielded' = Append(yielded, t)
  <2>1. CASE Fill \/ FillFails \/ Begin \/ CallerStops
    BY <2>1 DEF Fill, FillFails, Begin, CallerStops
  <2>2. CASE TakeHead
    BY <1>3, <1>4, <2>2 DEF TakeHead
  <2>3. CASE TakeArgument
    BY <1>4, <2>3 DEF TakeArgument
  <2>4. CASE TakeData
    BY <1>3, <2>4 DEF TakeData
  <2>. QED
    BY <1>1, <2>1, <2>2, <2>3, <2>4 DEF ReaderStep
<1>6. yielded \in Seq(Seq(Received))
  BY DEF Typed
<1>7. ASSUME NEW t, yielded' = Append(yielded, t) PROVE Len(yielded') = Len(yielded) + 1
  BY <1>6, <1>7, AppendProperties
<1>. QED
  BY <1>2, <1>5, <1>7 DEF Typed

\* Between any two ports, and wherever the connection broke, every element
\* that arrived is handed over before the verdict, and the verdict is the one
\* the input calls for: every safety property of ArrayDelivery is one of the
\* decoders.
THEOREM BinaryDelivers == Spec => Delivery!Init /\ [][Delivery!Next]_Delivery!vars
<1>1. Init => Inv /\ Delivery!Init
  <2>. SUFFICES ASSUME Init PROVE Inv /\ Delivery!Init
    OBVIOUS
  <2>1. Inv /\ Told
    BY InitInv, InvTold
  <2>2. Len(yielded) = 0 /\ outcome = "none"
    BY DEF Init, ReaderInit
  <2>. QED
    BY <2>1, <2>2 DEF Delivery!Init, Told
<1>2. Inv /\ [Next]_vars => Inv'
  BY StepInv
<1>3. Inv => Told
  BY InvTold
<1>4. Inv' => Told'
  BY <1>3, PTL
<1>5. Inv /\ Inv' /\ [Next]_vars => [Delivery!Next]_Delivery!vars
  <2>. SUFFICES ASSUME Inv, Inv', [Next]_vars
                PROVE  [Delivery!Next]_Delivery!vars
    OBVIOUS
  <2>1. CASE UNCHANGED vars
    BY <2>1 DEF vars, sentVars, readerVars, Delivery!vars
  <2>2. CASE Next
    <3>. DEFINE k == Len(yielded)  m == Len(yielded')  v == Verdict'
    <3>0. arrived' = arrived /\ whole' = whole
      BY <2>2 DEF Next, sentVars
    <3>1. outcome = "none" /\ Verdict = "none" /\ (m = k \/ m = k + 1)
      BY <2>2, OneMore DEF Inv, Verdict
    <3>2. /\ arrived \in Nat /\ k \in Nat /\ k <= arrived /\ m \in Nat /\ m <= arrived
          /\ v \in {"none", "complete", "failed", "stopped"}
          /\ v = "complete" => whole /\ m = arrived
          /\ v = "failed" => ~whole /\ m = arrived
      BY <1>3, <1>4, <3>0 DEF Told
    <3>3. m = k + 1 => k < arrived
      <4>1. arrived \in Nat /\ k \in Nat /\ m <= arrived
        BY <3>2
      <4>. HIDE DEF k, m
      <4>. QED
        BY ONLY <4>1
    <3>4. [Delivery!Next]_Delivery!vars
      <4>1. \/ v = "none" /\ m = k
            \/ v = "none" /\ m = k + 1
            \/ v # "none"
        BY <3>1
      <4>2. CASE v = "none" /\ m = k
        <5>1. UNCHANGED <<arrived, whole, Len(yielded), Verdict>>
          BY <3>0, <3>1, <4>2
        <5>. QED
          BY <5>1 DEF Delivery!vars, Verdict
      <4>3. CASE v = "none" /\ m = k + 1
        <5>1. Delivery!Hand /\ Verdict = "none" /\ Verdict' = Verdict
          BY <3>1, <3>3, <4>3, Zenon DEF Delivery!Hand
        <5>. QED
          BY <3>0, <5>1, Zenon DEF Delivery!Next, Verdict
      <4>4. CASE v # "none"
        <5>1. Delivery!End
          BY <3>2, <4>4, Zenon DEF Delivery!End, Verdict
        <5>2. Delivery!Hand \/ UNCHANGED Len(yielded)
          BY <3>1, <3>3, Zenon DEF Delivery!Hand
        <5>. QED
          BY <3>0, <3>1, <5>1, <5>2, Zenon DEF Delivery!Next, Verdict
      <4>. QED
        BY <4>1, <4>2, <4>3, <4>4
    <3>. QED
      BY <3>4
  <2>. QED
    BY <2>1, <2>2
<1>. QED
  BY <1>1, <1>2, <1>5, PTL DEF Spec
=============================================================================
