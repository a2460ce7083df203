--------------------------- MODULE XmlStreamProofs ---------------------------
(***************************************************************************)
(* What the XML decoders guarantee for any values, documents of any length *)
(* and nesting, cut anywhere, and any chunking.                            *)
(*                                                                         *)
(* The symbols of a document are laid out first: each item where Extent    *)
(* says, each of its nodes where Spot says, with the one tag it has; the   *)
(* walk over a value opens and closes elements so that only the first and  *)
(* the last tag of an item stand beside the root.  The invariant says what *)
(* a decoder holds of that document, or before which tag it stands.        *)
(***************************************************************************)
EXTENDS XmlStream, SequenceTheorems, FiniteSetTheorems, WellFoundedInduction, TLAPS

-----------------------------------------------------------------------------
(***************************************************************************)
(* Induction, and functions defined by it.                                 *)
(***************************************************************************)
\* A set of numbers that is not empty has a least element.
LEMMA LeastOf ==
    ASSUME NEW T \in SUBSET Nat, T # {}
    PROVE  \E m \in T : \A k \in T : m <= k
<1>. DEFINE Below == OpToRel(<, Nat)
<1>1. IsWellFoundedOn(Below, Nat)
  BY NatLessThanWellFounded
<1>2. \A x, y \in Nat : <<x, y>> \in Below <=> x < y
  BY DEF OpToRel
<1>. HIDE DEF Below
<1>3. PICK m \in T : \A y \in T : ~(<<y, m>> \in Below)
  BY <1>1, WFMin
<1>4. ASSUME NEW y \in T
      PROVE  m <= y
  <2>1. y \in Nat /\ m \in Nat /\ ~(y < m)
    BY <1>2, <1>3
  <2>. QED
    BY <2>1
<1>. QED
  BY <1>3, <1>4

\* A set of numbers with 0 and the successors of its members has them all.
LEMMA Induction ==
    ASSUME NEW G \in SUBSET Nat, 0 \in G, \A n \in G : n + 1 \in G
    PROVE  G = Nat
<1>. SUFFICES ASSUME Nat \ G # {} PROVE FALSE
  OBVIOUS
<1>1. PICK m \in Nat \ G : \A k \in Nat \ G : m <= k
  BY LeastOf
<1>2. m - 1 \in Nat
  BY <1>1
<1>3. m - 1 \in G
  BY <1>1, <1>2
<1>4. (m - 1) + 1 = m
  BY <1>1
<1>. QED
  BY <1>1, <1>3, <1>4

\* The same up to a bound.
LEMMA InductionUpTo ==
    ASSUME NEW n \in Nat, NEW G, 0 \in G, \A k \in 0..n - 1 : k \in G => k + 1 \in G
    PROVE  \A k \in 0..n : k \in G
<1>. DEFINE H == {k \in Nat : k <= n => k \in G}
<1>1. 0 \in H
  OBVIOUS
<1>2. ASSUME NEW k \in H PROVE k + 1 \in H
  <2>1. k \in Nat /\ k + 1 \in Nat
    OBVIOUS
  <2>2. ASSUME k + 1 <= n PROVE k + 1 \in G
    <3>1. k \in 0..n - 1 /\ k <= n
      BY <2>1, <2>2
    <3>2. k \in G
      BY <3>1
    <3>. QED
      BY <3>1, <3>2
  <2>. QED
    BY <2>1, <2>2
<1>3. H = Nat
  <2>1. H \in SUBSET Nat
    OBVIOUS
  <2>. HIDE DEF H
  <2>. QED
    BY <1>1, <1>2, <2>1, Induction
<1>4. ASSUME NEW k \in 0..n PROVE k \in G
  <2>1. k \in H /\ k <= n
    BY <1>3
  <2>. QED
    BY <2>1
<1>. QED
  BY <1>4

\* A function can be defined by what its first value is and how each follows
\* from the one before.
Follows(n, X, x, step) ==
    n \in Nat /\ x \in X /\ step \in [(1..n) \X X -> X]
Unfolds(g, n, X, x, step) ==
    /\ g \in [0..n -> X] /\ g[0] = x
    /\ \A i \in 1..n : g[i] = step[<<i, g[i - 1]>>]

\* There is such a function.
LEMMA Recursion ==
    ASSUME NEW n, NEW X, NEW x, NEW step, Follows(n, X, x, step)
    PROVE  \E g : Unfolds(g, n, X, x, step)
<1>. n \in Nat /\ x \in X /\ step \in [(1..n) \X X -> X]
  BY DEF Follows
<1>. DEFINE Good(g, k) == /\ g \in [0..k -> X] /\ g[0] = x
                          /\ \A i \in 1..k : g[i] = step[<<i, g[i - 1]>>]
<1>. DEFINE G == {k \in Nat : \E g : Good(g, k)}
<1>1. 0 \in G
  <2>. DEFINE g == [i \in 0..0 |-> x]
  <2>1. g \in [0..0 -> X] /\ g[0] = x /\ 1..0 = {}
    OBVIOUS
  <2>2. Good(g, 0)
    BY <2>1
  <2>. QED
    BY <2>2
<1>2. ASSUME NEW k \in 0..n - 1, k \in G PROVE k + 1 \in G
  <2>1. PICK g : Good(g, k)
    BY <1>2
  <2>2. k \in Nat /\ k + 1 \in 1..n /\ k \in 0..k
    OBVIOUS
  <2>3. g[k] \in X /\ <<k + 1, g[k]>> \in (1..n) \X X
    BY <2>1, <2>2
  <2>4. step[<<k + 1, g[k]>>] \in X
    BY <2>3
  <2>. DEFINE y == step[<<k + 1, g[k]>>]
              h == [i \in 0..k + 1 |-> IF i = k + 1 THEN y ELSE g[i]]
  <2>5. h \in [0..k + 1 -> X]
    <3>1. ASSUME NEW i \in 0..k + 1, i # k + 1 PROVE g[i] \in X
      <4>1. i \in 0..k
        BY <2>2, <3>1
      <4>. QED
        BY <2>1, <4>1
    <3>. QED
      BY <2>4, <3>1
  <2>6. h[0] = x
    BY <2>1, <2>2
  <2>7. ASSUME NEW i \in 1..k + 1 PROVE h[i] = step[<<i, h[i - 1]>>]
    <3>1. i \in 0..k + 1 /\ i - 1 \in 0..k + 1 /\ i - 1 # k + 1
      BY <2>2
    <3>2. h[i - 1] = g[i - 1]
      BY <3>1
    <3>3. CASE i = k + 1
      <4>1. i - 1 = k
        BY <2>2, <3>3
      <4>. QED
        BY <3>1, <3>2, <3>3, <4>1
    <3>4. CASE i # k + 1
      <4>1. i \in 1..k
        BY <2>2, <3>4
      <4>2. h[i] = g[i] /\ g[i] = step[<<i, g[i - 1]>>]
        BY <2>1, <3>1, <3>4, <4>1
      <4>. QED
        BY <3>2, <4>2
    <3>. QED
      BY <3>3, <3>4
  <2>. HIDE DEF h
  <2>8. Good(h, k + 1)
    BY <2>5, <2>6, <2>7
  <2>. QED
    BY <2>2, <2>8
<1>3. \A k \in 0..n : k \in G
  <2>. HIDE DEF G
  <2>. QED
    BY <1>1, <1>2, InductionUpTo
<1>4. n \in G
  BY <1>3
<1>. QED
  BY <1>4 DEF Unfolds


\* What is written behind a sequence leaves it as it is.
LEMMA ConcatGrows ==
    ASSUME NEW S, NEW s \in Seq(S), NEW t \in Seq(S)
    PROVE  /\ s \o t \in Seq(S) /\ Len(s \o t) = Len(s) + Len(t)
           /\ Len(s \o t) \in Nat /\ Len(s) <= Len(s \o t)
           /\ \A i \in 1..Len(s) : (s \o t)[i] = s[i]
           /\ \A i \in 1..Len(t) : (s \o t)[Len(s) + i] = t[i]
<1>1. Len(s) \in Nat /\ Len(t) \in Nat
  BY LenProperties
<1>2. s \o t \in Seq(S) /\ Len(s \o t) = Len(s) + Len(t)
      /\ \A i \in 1..(Len(s) + Len(t)) :
            (s \o t)[i] = IF i <= Len(s) THEN s[i] ELSE t[i - Len(s)]
  BY ConcatProperties
<1>. QED
  BY <1>1, <1>2

\* The part of a sequence from the (i+1)-th element to the n-th.
LEMMA Part ==
    ASSUME NEW S, NEW s \in Seq(S), NEW i \in Nat, NEW n \in i..Len(s)
    PROVE  /\ SubSeq(s, i + 1, n) \in Seq(S)
           /\ Len(SubSeq(s, i + 1, n)) = n - i /\ n - i \in Nat
           /\ \A j \in 1..(n - i) : SubSeq(s, i + 1, n)[j] = s[i + j]
<1>1. Len(s) \in Nat /\ n \in Nat /\ i <= n /\ n <= Len(s)
  BY LenProperties
<1>2. \A j \in (i + 1)..n : s[j] \in S
  BY <1>1, ElementOfSeq
<1>. DEFINE p == SubSeq(s, i + 1, n)
<1>3. /\ p \in Seq(S)
      /\ Len(p) = IF i + 1 <= n THEN n - (i + 1) + 1 ELSE 0
      /\ \A j \in 1..(n - (i + 1) + 1) : p[j] = s[(i + 1) + j - 1]
  BY <1>1, <1>2, SubSeqProperties
<1>. HIDE DEF p
<1>4. Len(p) = n - i /\ n - i \in Nat
  BY <1>1, <1>3
<1>5. ASSUME NEW j \in 1..(n - i) PROVE p[j] = s[i + j]
  <2>1. j \in 1..(n - (i + 1) + 1) /\ (i + 1) + j - 1 = i + j
    BY <1>1
  <2>. QED
    BY <1>3, <2>1
<1>. QED
  BY <1>3, <1>4, <1>5 DEF p

\* The same for the part at the beginning.
LEMMA FirstPart ==
    ASSUME NEW S, NEW s \in Seq(S), NEW n \in 0..Len(s),
           NEW p, p = SubSeq(s, 1, n)
    PROVE  /\ p \in Seq(S) /\ Len(p) = n
           /\ \A j \in 1..n : p[j] = s[j]
<1>1. n \in Nat /\ n <= Len(s) /\ Len(s) \in Nat
  BY LenProperties
<1>2. \A j \in 1..n : s[j] \in S
  BY <1>1, ElementOfSeq
<1>3. /\ SubSeq(s, 1, n) \in Seq(S)
      /\ Len(SubSeq(s, 1, n)) = IF 1 <= n THEN n - 1 + 1 ELSE 0
      /\ \A j \in 1..(n - 1 + 1) : SubSeq(s, 1, n)[j] = s[1 + j - 1]
  BY <1>1, <1>2, SubSeqProperties
<1>4. p \in Seq(S) /\ Len(p) = n
  BY <1>1, <1>3
<1>5. ASSUME NEW j \in 1..n PROVE p[j] = s[j]
  <2>1. j \in 1..(n - 1 + 1) /\ 1 + j - 1 = j
    BY <1>1
  <2>. QED
    BY <1>3, <2>1
<1>. QED
  BY <1>4, <1>5


-----------------------------------------------------------------------------
(***************************************************************************)
(* Sequences joined to one.                                                *)
(***************************************************************************)
\* How long the first n of them are together.
Size(parts, n) == Len(FlattenSeq(SubSeq(parts, 1, n)))

\* What joining gives, part after part.
Joins(h, parts, X) ==
    /\ h \in [0..Len(parts) -> Seq(X)] /\ h[0] = <<>>
    /\ \A i \in 1..Len(parts) : h[i] = h[i - 1] \o parts[i]

\* The joined sequences, one part more each time, are a function.
LEMMA JoinsExists ==
    ASSUME NEW X, NEW parts \in Seq(Seq(X))
    PROVE  \E h : Joins(h, parts, X)
<1>. DEFINE n == Len(parts)  S == Seq(X)
            step == [p \in (1..n) \X S |-> p[2] \o parts[p[1]]]
<1>1. n \in Nat /\ <<>> \in S
  OBVIOUS
<1>2. \A i \in 1..n : parts[i] \in S
  BY ElementOfSeq
<1>3. \A s, t \in S : s \o t \in S
  BY ConcatProperties
<1>. HIDE DEF S, n
<1>4. step \in [(1..n) \X S -> S]
  <2>1. ASSUME NEW p \in (1..n) \X S PROVE p[2] \o parts[p[1]] \in S
    <3>1. p[2] \in S /\ p[1] \in 1..n
      OBVIOUS
    <3>. QED
      BY <1>2, <1>3, <3>1
  <2>. QED
    BY <2>1
<1>5. PICK h : Unfolds(h, n, S, <<>>, step)
  <2>. HIDE DEF step
  <2>1. Follows(n, S, <<>>, step)
    BY <1>1, <1>4 DEF Follows
  <2>. QED
    BY ONLY <2>1, Recursion
<1>6. h \in [0..n -> S] /\ h[0] = <<>>
  BY <1>5 DEF Unfolds
<1>7. ASSUME NEW i \in 1..n PROVE h[i] = h[i - 1] \o parts[i]
  <2>1. i - 1 \in 0..n
    BY <1>1
  <2>2. <<i, h[i - 1]>> \in (1..n) \X S
    BY <1>6, <2>1
  <2>. QED
    BY <1>5, <2>2 DEF Unfolds
<1>. QED
  BY <1>6, <1>7 DEF Joins, n, S

\* Joined parts are what FlattenSeq makes of them.
LEMMA JoinsFlatten ==
    ASSUME NEW X, NEW parts, Len(parts) \in Nat,
           Len(parts) = 0 => parts = <<>>,
           NEW h, Joins(h, parts, X)
    PROVE  FlattenSeq(parts) = h[Len(parts)]
<1>. DEFINE n == Len(parts)
<1>1. n \in Nat /\ h \in [0..n -> Seq(X)] /\ h[0] = <<>>
      /\ \A i \in 1..n : h[i] = h[i - 1] \o parts[i]
  BY DEF Joins
<1>2. CASE n = 0
  BY <1>1, <1>2 DEF FlattenSeq
<1>3. CASE n # 0
  <2>. DEFINE IsF(f) == f = [i \in 1..n |-> IF i = 1 THEN parts[i] ELSE f[i - 1] \o parts[i]]
              f == CHOOSE f : IsF(f)
              g == [i \in 1..n |-> h[i]]
  <2>1. n >= 1 /\ 1 \in 1..n
    BY <1>1, <1>3
  <2>2. h[1] = parts[1]
    <3>1. h[1] = h[0] \o parts[1]
      <4>1. \A i \in 1..n : h[i] = h[i - 1] \o parts[i]
        BY <1>1
      <4>2. h[1] = h[1 - 1] \o parts[1]
        BY <2>1, <4>1
      <4>3. 1 - 1 = 0
        OBVIOUS
      <4>. QED
        BY ONLY <4>2, <4>3
    <3>2. h[1] \in Seq(X)
      BY <1>1, <2>1
    <3>3. <<>> \o parts[1] = parts[1]
      OBVIOUS
    <3>. QED
      BY <1>1, <3>1, <3>3
  <2>3. IsF(g)
    <3>1. ASSUME NEW i \in 1..n
          PROVE  g[i] = IF i = 1 THEN parts[i] ELSE g[i - 1] \o parts[i]
      <4>1. CASE i = 1
        BY <2>2, <4>1
      <4>2. CASE i # 1
        <5>1. i - 1 \in 1..n
          BY <1>1, <4>2
        <5>. QED
          BY <1>1, <4>2, <5>1
      <4>. QED
        BY <4>1, <4>2
    <3>2. g = [i \in 1..n |-> IF i = 1 THEN parts[i] ELSE g[i - 1] \o parts[i]]
      BY <3>1
    <3>. QED
      BY <3>2
  <2>4. IsF(f)
    <3>. HIDE DEF IsF, g
    <3>. QED
      BY <2>3
  <2>5. FlattenSeq(parts) = f[n]
    BY <1>3, Zenon DEF FlattenSeq
  <2>6. \A i \in 1..n : f[i] = IF i = 1 THEN parts[i] ELSE f[i - 1] \o parts[i]
    BY <2>4
  <2>. HIDE DEF f
  <2>. DEFINE G == {i \in 0..n : i > 0 => f[i] = h[i]}
  <2>7. 0 \in G
    BY <1>1
  <2>8. ASSUME NEW i \in 0..n - 1, i \in G PROVE i + 1 \in G
    <3>1. i + 1 \in 1..n /\ (i + 1) - 1 = i
      BY <1>1
    <3>2. h[i + 1] = h[i] \o parts[i + 1]
      BY <1>1, <3>1
    <3>3. CASE i = 0
      BY <2>2, <2>6, <3>1, <3>3
    <3>4. CASE i # 0
      <4>1. f[i] = h[i]
        BY <2>8, <3>4
      <4>2. i + 1 # 1
        BY <3>1, <3>4
      <4>3. f[i + 1] = f[(i + 1) - 1] \o parts[i + 1]
        BY <2>6, <3>1, <4>2
      <4>4. f[i + 1] = h[i + 1]
        BY ONLY <3>1, <3>2, <4>1, <4>3
      <4>5. i + 1 \in 0..n
        BY <1>1, <3>1
      <4>. QED
        BY <4>4, <4>5
    <3>. QED
      BY <3>3, <3>4
  <2>9. \A i \in 0..n : i \in G
    <3>. HIDE DEF G
    <3>. QED
      BY <1>1, <2>7, <2>8, InductionUpTo
  <2>10. n \in 0..n /\ n > 0
    BY <1>1, <1>3
  <2>. QED
    BY <2>5, <2>9, <2>10
<1>. QED
  BY <1>2, <1>3

\* The parts lie one behind the other.
LEMMA Flattened ==
    ASSUME NEW X, NEW parts \in Seq(Seq(X))
    PROVE  /\ FlattenSeq(parts) \in Seq(X) /\ Len(FlattenSeq(parts)) \in Nat
           /\ Size(parts, 0) = 0 /\ Size(parts, Len(parts)) = Len(FlattenSeq(parts))
           /\ \A n \in 0..Len(parts) : /\ Size(parts, n) \in Nat
                                       /\ Size(parts, n) <= Len(FlattenSeq(parts))
           /\ \A n \in 1..Len(parts) :
                 /\ Size(parts, n) = Size(parts, n - 1) + Len(parts[n])
                 /\ \A j \in 1..Len(parts[n]) :
                       FlattenSeq(parts)[Size(parts, n - 1) + j] = parts[n][j]
<1>. DEFINE N == Len(parts)  F == FlattenSeq(parts)
<1>1. N \in Nat /\ \A i \in 1..N : parts[i] \in Seq(X)
  BY ElementOfSeq
<1>2. PICK h : Joins(h, parts, X)
  BY JoinsExists
<1>3. /\ h \in [0..N -> Seq(X)] /\ h[0] = <<>>
      /\ \A i \in 1..N : h[i] = h[i - 1] \o parts[i]
  BY <1>2 DEF Joins
<1>4. ASSUME NEW n \in 0..N PROVE FlattenSeq(SubSeq(parts, 1, n)) = h[n]
  <2>. DEFINE p == SubSeq(parts, 1, n)  g == [i \in 0..n |-> h[i]]
  <2>1. p \in Seq(Seq(X)) /\ Len(p) = n /\ \A j \in 1..n : p[j] = parts[j]
    BY FirstPart
  <2>2. n \in Nat /\ n <= N
    BY <1>1
  <2>. HIDE DEF p
  <2>3. Joins(g, p, X)
    <3>1. g \in [0..n -> Seq(X)] /\ g[0] = <<>>
      BY <1>1, <1>3, <2>2
    <3>2. ASSUME NEW i \in 1..n PROVE g[i] = g[i - 1] \o p[i]
      <4>1. i \in 0..n /\ i - 1 \in 0..n /\ i \in 1..N
        BY <1>1, <2>2
      <4>2. g[i] = h[i] /\ g[i - 1] = h[i - 1]
        BY <4>1
      <4>. QED
        BY <1>3, <2>1, <4>1, <4>2
    <3>. QED
      BY <2>1, <3>1, <3>2 DEF Joins
  <2>4. Len(p) \in Nat /\ (Len(p) = 0 => p = <<>>)
    BY <2>1, <2>2
  <2>5. g[n] = h[n]
    BY <2>2
  <2>. HIDE DEF g
  <2>6. FlattenSeq(p) = g[Len(p)]
    BY <2>3, <2>4, JoinsFlatten
  <2>. QED
    BY <2>1, <2>5, <2>6 DEF p
<1>5. F = h[N]
  <2>1. Len(parts) \in Nat /\ (Len(parts) = 0 => parts = <<>>)
    BY <1>1
  <2>. QED
    BY <1>2, <2>1, JoinsFlatten
<1>. HIDE DEF F
<1>6. ASSUME NEW n \in 0..N
      PROVE  Size(parts, n) = Len(h[n]) /\ Size(parts, n) \in Nat /\ h[n] \in Seq(X)
  BY <1>3, <1>4 DEF Size
<1>7. ASSUME NEW n \in 1..N
      PROVE  /\ Size(parts, n) = Size(parts, n - 1) + Len(parts[n])
             /\ \A j \in 1..Len(h[n - 1]) : h[n][j] = h[n - 1][j]
             /\ \A j \in 1..Len(parts[n]) : h[n][Size(parts, n - 1) + j] = parts[n][j]
             /\ Size(parts, n - 1) <= Size(parts, n)
  <2>1. n \in 0..N /\ n - 1 \in 0..N
    BY <1>1
  <2>2. h[n] = h[n - 1] \o parts[n] /\ h[n - 1] \in Seq(X) /\ parts[n] \in Seq(X)
    BY <1>1, <1>3, <2>1
  <2>. DEFINE a == h[n - 1]  b == parts[n]
  <2>3. /\ Len(a \o b) = Len(a) + Len(b) /\ Len(a) <= Len(a \o b)
        /\ \A i \in 1..Len(a) : (a \o b)[i] = a[i]
        /\ \A i \in 1..Len(b) : (a \o b)[Len(a) + i] = b[i]
    <3>1. a \in Seq(X) /\ b \in Seq(X)
      BY <2>2
    <3>. HIDE DEF a, b
    <3>. QED
      BY <3>1, ConcatGrows
  <2>4. Size(parts, n) = Len(h[n]) /\ Size(parts, n - 1) = Len(h[n - 1])
    BY <1>6, <2>1
  <2>. QED
    BY <2>2, <2>3, <2>4
\* What is laid once stays.
<1>8. ASSUME NEW n \in 0..N
      PROVE  /\ Len(h[n]) <= Len(h[N])
             /\ \A j \in 1..Len(h[n]) : h[N][j] = h[n][j]
  <2>. DEFINE G == {k \in 0..(N - n) : /\ Len(h[n]) <= Len(h[n + k])
                                     /\ \A j \in 1..Len(h[n]) : h[n + k][j] = h[n][j]}
  <2>0. n \in Nat /\ N - n \in Nat /\ Len(h[n]) \in Nat
    BY <1>1, <1>6
  <2>1. 0 \in G
    <3>1. n + 0 = n /\ 0 \in 0..(N - n)
      BY <2>0
    <3>. QED
      BY <2>0, <3>1
  <2>2. ASSUME NEW k \in 0..(N - n) - 1, k \in G PROVE k + 1 \in G
    <3>1. /\ n + (k + 1) \in 1..N /\ (n + (k + 1)) - 1 = n + k /\ k + 1 \in 0..(N - n)
          /\ n + k \in 0..N
      BY <1>1, <2>0
    <3>2. Len(h[n]) <= Len(h[n + k]) /\ \A j \in 1..Len(h[n]) : h[n + k][j] = h[n][j]
      BY <2>2
    <3>3. /\ \A j \in 1..Len(h[n + k]) : h[n + (k + 1)][j] = h[n + k][j]
          /\ Size(parts, n + k) <= Size(parts, n + (k + 1))
      BY <1>7, <3>1
    <3>4. /\ Size(parts, n + k) = Len(h[n + k]) /\ Len(h[n + k]) \in Nat
          /\ Size(parts, n + (k + 1)) = Len(h[n + (k + 1)]) /\ Len(h[n + (k + 1)]) \in Nat
      <4>1. n + (k + 1) \in 0..N
        BY <1>1, <3>1
      <4>. QED
        BY <1>6, <3>1, <4>1
    <3>5. Len(h[n]) <= Len(h[n + (k + 1)])
      BY <2>0, <3>2, <3>3, <3>4
    <3>6. ASSUME NEW j \in 1..Len(h[n]) PROVE h[n + (k + 1)][j] = h[n][j]
      <4>1. j \in 1..Len(h[n + k])
        BY <2>0, <3>2, <3>4
      <4>. QED
        BY <3>2, <3>3, <4>1
    <3>. QED
      BY <3>1, <3>5, <3>6
  <2>3. \A k \in 0..(N - n) : k \in G
    <3>. HIDE DEF G
    <3>. QED
      BY <2>0, <2>1, <2>2, InductionUpTo
  <2>4. N - n \in 0..(N - n) /\ n + (N - n) = N
    BY <1>1, <2>0
  <2>. QED
    BY <2>3, <2>4
<1>9. N \in 0..N /\ 0 \in 0..N
  BY <1>1
<1>10. F \in Seq(X) /\ Len(F) \in Nat /\ Size(parts, N) = Len(F)
  BY <1>5, <1>6, <1>9
<1>11. Size(parts, 0) = 0
  BY <1>3, <1>6, <1>9
<1>12. ASSUME NEW n \in 0..N PROVE Size(parts, n) \in Nat /\ Size(parts, n) <= Len(F)
  BY <1>5, <1>6, <1>8
<1>13. ASSUME NEW n \in 1..N, NEW j \in 1..Len(parts[n])
       PROVE  F[Size(parts, n - 1) + j] = parts[n][j]
  <2>1. n \in 0..N /\ n - 1 \in 0..N
    BY <1>1
  <2>2. h[n][Size(parts, n - 1) + j] = parts[n][j]
    BY <1>7
  <2>3. /\ Size(parts, n) = Len(h[n]) /\ Size(parts, n) = Size(parts, n - 1) + Len(parts[n])
        /\ Size(parts, n - 1) \in Nat /\ Len(parts[n]) \in Nat
    <3>1. Len(parts[n]) \in Nat
      BY <1>1
    <3>. QED
      BY <1>6, <1>7, <2>1, <3>1
  <2>4. Size(parts, n - 1) + j \in 1..Len(h[n])
    BY <2>3
  <2>. QED
    BY <1>5, <1>8, <2>1, <2>2, <2>4
<1>. QED
  BY <1>7, <1>10, <1>11, <1>12, <1>13 DEF F


\* A bounded set of numbers has a greatest.
LEMMA GreatestOf ==
    ASSUME NEW S \in SUBSET Nat, S # {}, NEW b \in Nat, \A x \in S : x <= b
    PROVE  Max(S) \in S /\ \A x \in S : x <= Max(S)
<1>. DEFINE T == {b - x : x \in S}
<1>1. T \in SUBSET Nat /\ T # {}
  <2>1. ASSUME NEW x \in S PROVE b - x \in Nat
    <3>1. x \in Nat /\ x <= b
      OBVIOUS
    <3>. QED
      BY ONLY <3>1, b \in Nat
  <2>. QED
    BY <2>1
<1>2. PICK m \in T : \A k \in T : m <= k
  <2>. HIDE DEF T
  <2>. QED
    BY <1>1, LeastOf
<1>3. PICK y \in S : m = b - y
  BY <1>2
<1>4. \A x \in S : x <= y
  <2>. TAKE x \in S
  <2>1. m <= b - x
    BY <1>2
  <2>. QED
    BY <1>3, <2>1
<1>. DEFINE P(x) == \A z \in S : x >= z
<1>5. P(y)
  BY <1>4
<1>6. Max(S) = CHOOSE x \in S : P(x)
  BY DEF Max
<1>. HIDE DEF P
<1>7. Max(S) \in S /\ P(Max(S))
  BY <1>5, <1>6, Zenon
<1>8. \A x \in S : x <= Max(S)
  <2>1. \A x \in S : Max(S) >= x
    BY <1>7 DEF P
  <2>2. Max(S) \in Nat
    BY <1>7
  <2>. QED
    BY <2>1, <2>2
<1>. QED
  BY <1>7, <1>8

\* The parts of the parts of what is joined.
LEMMA Nested ==
    ASSUME NEW X, NEW e \in Seq(Seq(X)), NEW i \in 1..Len(e),
           NEW p \in Seq(Seq(X)), e[i] = FlattenSeq(p)
    PROVE  /\ Size(e, i - 1) \in Nat /\ Size(p, 0) = 0
           /\ Size(e, i - 1) + Size(p, Len(p)) = Size(e, i)
           /\ \A j \in 1..Len(p) :
                 /\ Size(e, i - 1) + Size(p, j - 1) \in Nat
                 /\ Size(e, i - 1) + Size(p, j) = (Size(e, i - 1) + Size(p, j - 1)) + Len(p[j])
                 /\ Size(e, i - 1) + Size(p, j) <= Size(e, i)
                 /\ \A x \in 1..Len(p[j]) :
                       FlattenSeq(e)[(Size(e, i - 1) + Size(p, j - 1)) + x] = p[j][x]
<1>. DEFINE F == FlattenSeq(e)  G == FlattenSeq(p)  s == Size(e, i - 1)  Z(j) == Size(p, j)
            L == Len(p)
<1>1. i - 1 \in 0..Len(e) /\ i \in 0..Len(e) /\ Len(e) \in Nat /\ L \in Nat
  OBVIOUS
<1>2. /\ s \in Nat /\ Size(e, i) = s + Len(e[i])
      /\ \A y \in 1..Len(e[i]) : F[s + y] = e[i][y]
  BY <1>1, Flattened
<1>3. /\ Len(G) \in Nat /\ Z(0) = 0 /\ Z(L) = Len(G)
      /\ \A n \in 0..L : Z(n) \in Nat /\ Z(n) <= Len(G)
      /\ \A n \in 1..L : /\ Z(n) = Z(n - 1) + Len(p[n])
                         /\ \A y \in 1..Len(p[n]) : G[Z(n - 1) + y] = p[n][y]
  BY Flattened
<1>4. \A n \in 1..L : Len(p[n]) \in Nat
  <2>1. \A n \in 1..L : p[n] \in Seq(X)
    BY ElementOfSeq
  <2>. QED
    BY <2>1
<1>. HIDE DEF F, G, s, Z, L
<1>4a. s \in Nat /\ Size(e, i) = s + Len(G) /\ Len(G) \in Nat /\ e[i] = G
  BY <1>2, <1>3 DEF G
<1>5. ASSUME NEW j \in 1..L
      PROVE  /\ s + Z(j - 1) \in Nat /\ s + Z(j) = (s + Z(j - 1)) + Len(p[j])
             /\ s + Z(j) <= Size(e, i)
             /\ \A x \in 1..Len(p[j]) : F[(s + Z(j - 1)) + x] = p[j][x]
  <2>. DEFINE a == Z(j - 1)  b == Z(j)  c == Len(p[j])  g == Len(G)
  <2>1. j - 1 \in 0..L /\ j \in 0..L
    BY <1>1
  <2>2. a \in Nat /\ b \in Nat /\ b <= g /\ b = a + c /\ c \in Nat /\ g \in Nat
    BY <1>3, <1>4, <2>1
  <2>3. \A x \in 1..c : G[a + x] = p[j][x]
    BY <1>3
  <2>4. \A y \in 1..g : F[s + y] = G[y]
    BY <1>2, <1>4a
  <2>5. Size(e, i) = s + g
    BY <1>4a
  <2>. HIDE DEF a, b, c, g
  <2>6. s + a \in Nat /\ s + b = (s + a) + c /\ s + b <= Size(e, i)
    BY <1>4a, <2>2, <2>5
  <2>7. ASSUME NEW x \in 1..c PROVE F[(s + a) + x] = p[j][x]
    <3>1. a + x \in 1..g /\ (s + a) + x = s + (a + x)
      BY <1>4a, <2>2
    <3>. QED
      BY <2>3, <2>4, <3>1
  <2>. QED
    BY <2>6, <2>7 DEF a, b, c
<1>6. s + Z(L) = Size(e, i)
  BY <1>3, <1>4a
<1>. QED
  BY <1>2, <1>3, <1>5, <1>6 DEF F, G, s, Z, L

-----------------------------------------------------------------------------
(***************************************************************************)
(* What is written for a node: a tag, and the text behind it.              *)
(***************************************************************************)
\* The types of values, and what can be due and done in a walk over one.
Types  == {"null", "object", "array", "bool", "int", "float", "str"}
Begins == [tag : {"items", "item", "f", "e"}, key : Seq(STRING), v : Values]
Ends   == {Closing(tag) : tag \in {"items", "item", "f", "e"}}

\* What the wire is made of.
Name   == STRING \cup Types
              \cup {"items", "item", "f", "e", "type", "k", "quote", "escaped",
                    "illegal", "inf", "Infinity", ""}
Symbol == [c : {"open", "close", "attr", "raw", "entity", "number", "gt",
                "slash", "prolog", "plural"}, v : Name]
Inner  == {"attr", "raw", "entity", "number"}

\* The symbol that no XML document may hold.
Illegal == Raw("illegal")

\* The names of the symbols.
LEMMA Symbols ==
    /\ \A tag \in Name : Open(tag) \in Symbol /\ Close(tag) \in Symbol
    /\ \A ch \in Name : /\ Attr(ch) \in Symbol /\ Raw(ch) \in Symbol
                          /\ Entity(ch) \in Symbol /\ Number(ch) \in Symbol
    /\ Gt \in Symbol /\ Slash \in Symbol /\ Prolog \in Symbol /\ Plural \in Symbol
    /\ Quote \in Symbol /\ Quote.c = "raw"
BY DEF Symbol, Name, Open, Close, Attr, Raw, Entity, Number, Gt, Slash, Prolog, Plural, Quote, Sym

\* A value has a type, and what a value of that type is made of.
LEMMA ValueTypes ==
    ASSUME NEW v \in Values
    PROVE  /\ v.t \in Types
           /\ v.t \notin {"null", "object", "array"} => v.text \in Seq(STRING)
           /\ v.t = "array" => v.items \in Seq(Values)
           /\ v.t = "object" => /\ IsFiniteSet(DOMAIN v.fields)
                                /\ v.fields \in [DOMAIN v.fields -> Values]
                                /\ DOMAIN v.fields \subseteq Seq(STRING)
<1>1. Streamable(v)
  BY ValuesAssumption
<1>. QED
  BY <1>1 DEF Streamable, Types

\* A run of attributes, whether a quote in it is not followed by another
\* attribute, and whether it holds what no document may.
Run(a) ==
    /\ a \in Seq(Symbol) /\ Len(a) > 0 /\ a[1].c = "attr" /\ a[Len(a)] = Quote
    /\ \A i \in 1..Len(a) : a[i].c \in Inner
Broken(a) == \E i \in 1..Len(a) - 1 : a[i] = Quote /\ a[i + 1].c # "attr"
Soiled(a) == \E i \in 1..Len(a) : a[i] = Illegal

\* One attribute behind the other.
LEMMA RunJoin ==
    ASSUME NEW a, NEW b, Run(a), Run(b)
    PROVE  /\ Run(a \o b) /\ (Broken(a \o b) <=> Broken(a) \/ Broken(b))
           /\ Soiled(a \o b) <=> Soiled(a) \/ Soiled(b)
<1>. DEFINE k == Len(a)  l == Len(b)  s == a \o b
<1>1. /\ s \in Seq(Symbol) /\ Len(s) = k + l
      /\ \A i \in 1..k : s[i] = a[i]
      /\ \A i \in 1..l : s[k + i] = b[i]
  BY ConcatGrows DEF Run
<1>2. k \in Nat \ {0} /\ l \in Nat \ {0}
  BY DEF Run
<1>3. \A i \in 1..k + l : i \in 1..k \/ (i - k \in 1..l /\ k + (i - k) = i)
  BY <1>2
<1>. HIDE DEF s, k, l
<1>4. /\ a[1].c = "attr" /\ a[k] = Quote /\ \A i \in 1..k : a[i].c \in Inner
      /\ b[1].c = "attr" /\ b[l] = Quote /\ \A i \in 1..l : b[i].c \in Inner
  BY DEF Run, k, l
<1>5. Run(s)
  <2>1. s[1].c = "attr"
    BY <1>1, <1>2, <1>4
  <2>2. s[Len(s)] = Quote
    <3>1. l \in 1..l /\ Len(s) = k + l
      BY <1>1, <1>2
    <3>. QED
      BY <1>1, <1>4, <3>1
  <2>3. ASSUME NEW i \in 1..Len(s) PROVE s[i].c \in Inner
    BY <1>1, <1>3, <1>4
  <2>. QED
    BY <1>1, <1>2, <2>1, <2>2, <2>3 DEF Run
<1>6. ASSUME Broken(s) PROVE Broken(a) \/ Broken(b)
  <2>1. PICK i \in 1..(k + l) - 1 : s[i] = Quote /\ s[i + 1].c # "attr"
    BY <1>1, <1>6 DEF Broken
  <2>2. CASE i \in 1..k - 1
    <3>1. i \in 1..k /\ i + 1 \in 1..k
      BY <1>2, <2>2
    <3>2. a[i] = Quote /\ a[i + 1].c # "attr"
      BY <1>1, <2>1, <3>1
    <3>. QED
      BY <2>2, <3>2 DEF Broken, k
  <2>3. CASE i = k
    <3>1. 1 \in 1..l
      BY <1>2
    <3>. QED
      BY <1>1, <1>4, <2>1, <2>3, <3>1
  <2>4. CASE i > k
    <3>1. i - k \in 1..l - 1 /\ i - k \in 1..l /\ (i - k) + 1 \in 1..l
          /\ k + (i - k) = i /\ k + ((i - k) + 1) = i + 1
      BY <1>2, <2>4
    <3>2. b[i - k] = Quote /\ b[(i - k) + 1].c # "attr"
      BY <1>1, <2>1, <3>1
    <3>. QED
      BY <3>1, <3>2 DEF Broken, l
  <2>. QED
    BY <1>2, <2>2, <2>3, <2>4
<1>7. ASSUME Broken(a) PROVE Broken(s)
  <2>1. PICK i \in 1..k - 1 : a[i] = Quote /\ a[i + 1].c # "attr"
    BY <1>7 DEF Broken, k
  <2>2. i \in 1..k /\ i + 1 \in 1..k /\ i \in 1..Len(s) - 1
    BY <1>1, <1>2
  <2>. QED
    BY <1>1, <2>1, <2>2 DEF Broken
<1>8. ASSUME Broken(b) PROVE Broken(s)
  <2>1. PICK i \in 1..l - 1 : b[i] = Quote /\ b[i + 1].c # "attr"
    BY <1>8 DEF Broken, l
  <2>2. i \in 1..l /\ i + 1 \in 1..l /\ k + i \in 1..Len(s) - 1 /\ (k + i) + 1 = k + (i + 1)
    BY <1>1, <1>2
  <2>3. s[k + i] = Quote /\ s[(k + i) + 1].c # "attr"
    BY <1>1, <2>1, <2>2
  <2>. QED
    BY <2>2, <2>3 DEF Broken
<1>9. ASSUME Soiled(s) PROVE Soiled(a) \/ Soiled(b)
  <2>1. PICK i \in 1..k + l : s[i] = Illegal
    BY <1>1, <1>9 DEF Soiled
  <2>2. CASE i \in 1..k
    BY <1>1, <2>1, <2>2 DEF Soiled, k
  <2>3. CASE i - k \in 1..l /\ k + (i - k) = i
    <3>1. b[i - k] = Illegal
      BY <1>1, <2>1, <2>3
    <3>. QED
      BY <2>3, <3>1 DEF Soiled, l
  <2>. QED
    BY <1>3, <2>2, <2>3
<1>10. ASSUME Soiled(a) \/ Soiled(b) PROVE Soiled(s)
  <2>1. \A i \in 1..k : i \in 1..Len(s)
    BY <1>1, <1>2
  <2>2. \A i \in 1..l : k + i \in 1..Len(s)
    BY <1>1, <1>2
  <2>. QED
    BY <1>1, <1>10, <2>1, <2>2 DEF Soiled, k, l
<1>. QED
  BY <1>5, <1>6, <1>7, <1>8, <1>9, <1>10 DEF s

\* The attribute that tells the type.
LEMMA TypeRun ==
    ASSUME NEW t \in Types
    PROVE  Run(TypeAttr(t)) /\ ~Broken(TypeAttr(t)) /\ ~Soiled(TypeAttr(t))
<1>. DEFINE a == TypeAttr(t)
<1>1. a = <<Attr("type"), Raw(t), Quote>> /\ t \in Name /\ "type" \in Name
  BY DEF TypeAttr, Types, Name
<1>2. a \in Seq(Symbol) /\ Len(a) = 3
  BY <1>1, Symbols
<1>3. a[1].c = "attr" /\ a[2].c = "raw" /\ a[3] = Quote /\ a[2] # Quote /\ a[3].c = "raw"
  BY <1>1 DEF Attr, Raw, Quote, Sym, Types
<1>3a. a[1] # Illegal /\ a[2] # Illegal /\ a[3] # Illegal
  BY <1>1 DEF Attr, Raw, Quote, Illegal, Sym, Types
<1>. HIDE DEF a
<1>4. Run(a)
  BY <1>2, <1>3 DEF Run, Inner
<1>5. ~Broken(a)
  BY <1>2, <1>3, Symbols DEF Broken, Quote, Raw, Sym
<1>6. ~Soiled(a)
  BY <1>2, <1>3a DEF Soiled
<1>. QED
  BY <1>4, <1>5, <1>6 DEF a

\* The characters of a key, escaped: a double quote stays one in Python alone,
\* and what is illegal stays so in all ports but Go.
LEMMA KeyChars ==
    ASSUME NEW port, NEW key \in Seq(STRING)
    PROVE  LET q == EscapeAttr(port, key)
               bare == port = "python" /\ ~({"quote", "apos"} \subseteq Range(key))
           IN  /\ q \in Seq(Symbol) /\ Len(q) = Len(key)
               /\ \A i \in 1..Len(key) : /\ q[i].c \in {"raw", "entity", "number"}
                                         /\ q[i] = Quote <=> key[i] = "quote" /\ bare
                                         /\ q[i] = Illegal <=> key[i] = "illegal" /\ port # "go"
<1>. DEFINE bare == port = "python" /\ ~({"quote", "apos"} \subseteq Range(key))
            C(c) == CASE c \in {"lt", "gt", "amp"} -> Entity(c)
                      [] c = "quote" -> IF bare THEN Raw(c) ELSE Entity(c)
                      [] port = "python" /\ c \in {"nl", "cr", "tab"} -> Number(c)
                      [] port = "go" /\ c \in {"nl", "cr", "tab", "backslash", "unprintable",
                                              "illegal"} -> Raw("escaped")
                      [] OTHER -> Raw(c)
            q == EscapeAttr(port, key)  n == Len(key)
<1>1. q = [i \in DOMAIN key |-> C(key[i])]
  BY DEF EscapeAttr
<1>2. n \in Nat /\ DOMAIN key = 1..n /\ \A i \in 1..n : key[i] \in STRING
  BY ElementOfSeq
<1>. HIDE DEF bare, q
<1>3. ASSUME NEW c \in STRING
      PROVE  /\ C(c) \in Symbol /\ C(c).c \in {"raw", "entity", "number"}
             /\ C(c) = Quote <=> c = "quote" /\ bare
             /\ C(c) = Illegal <=> c = "illegal" /\ port # "go"
  <2>. DEFINE number == port = "python" /\ c \in {"nl", "cr", "tab"}
              literal == port = "go" /\ c \in {"nl", "cr", "tab", "backslash", "unprintable",
                                               "illegal"}
  <2>1. CASE c \in {"lt", "gt", "amp"}
    BY <2>1 DEF Entity, Sym, Symbol, Quote, Illegal, Raw, Name
  <2>2. CASE c = "quote"
    BY <2>2 DEF Entity, Raw, Sym, Symbol, Quote, Illegal, Name
  <2>3. CASE number
    BY <2>3 DEF Number, Sym, Symbol, Quote, Illegal, Raw, Name
  <2>4. CASE literal
    BY <2>4 DEF Raw, Sym, Symbol, Quote, Illegal, Name
  <2>5. CASE c \notin {"lt", "gt", "amp"} /\ c # "quote" /\ ~number /\ ~literal
    <3>1. C(c) = Raw(c)
      BY <2>5
    <3>. QED
      BY <2>5, <3>1 DEF Raw, Sym, Symbol, Quote, Illegal, Name
  <2>. QED
    BY <2>1, <2>2, <2>3, <2>4, <2>5
<1>. HIDE DEF C
<1>4. q \in [1..n -> Symbol]
  BY <1>1, <1>2, <1>3
<1>5. q \in Seq(Symbol) /\ Len(q) = n
  BY <1>2, <1>4
<1>6. ASSUME NEW i \in 1..n
      PROVE  /\ q[i].c \in {"raw", "entity", "number"}
             /\ q[i] = Quote <=> key[i] = "quote" /\ bare
             /\ q[i] = Illegal <=> key[i] = "illegal" /\ port # "go"
  BY <1>1, <1>2, <1>3
<1>. QED
  BY <1>5, <1>6 DEF q, bare

\* The attribute that holds the key: broken by a quote Python does not escape,
\* soiled by a character Go alone escapes.
LEMMA KeyRun ==
    ASSUME NEW key \in Seq(STRING)
    PROVE  \/ KeyAttr(enc, key) = <<>> /\ ~Unquoted(key) /\ ~Foul(key)
           \/ /\ Run(KeyAttr(enc, key))
              /\ Broken(KeyAttr(enc, key)) <=> Unquoted(key)
              /\ Soiled(KeyAttr(enc, key)) <=> Foul(key)
<1>. DEFINE a == KeyAttr(enc, key)  q == EscapeAttr(enc, key)  n == Len(key)
            bare == enc = "python" /\ ~({"quote", "apos"} \subseteq Range(key))
<1>0. n \in Nat /\ DOMAIN key = 1..n
  OBVIOUS
<1>1. CASE enc = "go" /\ key = <<>>
  <2>1. a = <<>>
    BY <1>1 DEF KeyAttr
  <2>2. ~Unquoted(key) /\ ~Foul(key)
    BY <1>1 DEF Unquoted, Foul
  <2>. QED
    BY <2>1, <2>2
<1>2. CASE ~(enc = "go" /\ key = <<>>)
  <2>1. a = (<<Attr("k")>> \o q) \o <<Quote>>
    BY <1>2 DEF KeyAttr
  <2>2. /\ q \in Seq(Symbol) /\ Len(q) = n
        /\ \A i \in 1..n : /\ q[i].c \in {"raw", "entity", "number"}
                           /\ q[i] = Quote <=> key[i] = "quote" /\ bare
                           /\ q[i] = Illegal <=> key[i] = "illegal" /\ enc # "go"
    BY KeyChars
  <2>3. Unquoted(key) <=> bare /\ \E i \in 1..n : key[i] = "quote"
    BY <1>0 DEF Unquoted, Range
  <2>3a. Foul(key) <=> enc # "go" /\ \E i \in 1..n : key[i] = "illegal"
    BY <1>0 DEF Foul, Range
  <2>. HIDE DEF q, bare
  <2>. DEFINE k == <<Attr("k")>>  u == <<Quote>>  b == k \o q
  <2>4. k \in Seq(Symbol) /\ u \in Seq(Symbol) /\ Len(k) = 1 /\ Len(u) = 1
        /\ k[1] = Attr("k") /\ u[1] = Quote
    <3>1. "k" \in Name
      BY DEF Name
    <3>. QED
      BY <3>1, Symbols
  <2>. HIDE DEF k, u
  <2>5. /\ b \in Seq(Symbol) /\ Len(b) = 1 + n /\ b[1] = Attr("k")
        /\ \A i \in 1..n : b[1 + i] = q[i]
    <3>1. /\ b \in Seq(Symbol) /\ Len(b) = Len(k) + Len(q)
          /\ \A i \in 1..Len(k) : b[i] = k[i]
          /\ \A i \in 1..Len(q) : b[Len(k) + i] = q[i]
      <4>1. k \in Seq(Symbol) /\ q \in Seq(Symbol)
        BY <2>2, <2>4
      <4>. QED
        BY ONLY <4>1, ConcatGrows
    <3>2. 1 \in 1..Len(k)
      BY <2>4
    <3>. QED
      BY <2>2, <2>4, <3>1, <3>2
  <2>. HIDE DEF b
  <2>6. /\ a \in Seq(Symbol) /\ Len(a) = n + 2 /\ a[1] = Attr("k") /\ a[n + 2] = Quote
        /\ \A i \in 1..n : a[1 + i] = q[i]
    <3>1. a = b \o u
      BY <2>1 DEF b, u, k
    <3>2. /\ b \o u \in Seq(Symbol) /\ Len(b \o u) = Len(b) + Len(u)
          /\ \A i \in 1..Len(b) : (b \o u)[i] = b[i]
          /\ \A i \in 1..Len(u) : (b \o u)[Len(b) + i] = u[i]
      <4>1. b \in Seq(Symbol) /\ u \in Seq(Symbol)
        BY <2>4, <2>5
      <4>. QED
        BY ONLY <4>1, ConcatGrows
    <3>. HIDE DEF a
    <3>3. Len(b) + Len(u) = n + 2 /\ Len(b) + 1 = n + 2 /\ \A i \in 1..n : 1 + i \in 1..Len(b)
      BY <1>0, <2>4, <2>5
    <3>4. 1 \in 1..Len(b) /\ 1 \in 1..Len(u)
      BY <1>0, <2>4, <2>5
    <3>. QED
      BY <2>4, <2>5, <3>1, <3>2, <3>3, <3>4
  <2>. HIDE DEF a
  <2>7. \A i \in 1..n + 2 : i = 1 \/ i = n + 2 \/ (i - 1 \in 1..n /\ 1 + (i - 1) = i)
    BY <1>0
  <2>8. Run(a)
    <3>1. ASSUME NEW i \in 1..n + 2 PROVE a[i].c \in Inner
      <4>1. CASE i = 1
        BY <2>6, <4>1 DEF Inner, Attr, Sym
      <4>2. CASE i = n + 2
        BY <2>6, <4>2, Symbols DEF Inner
      <4>3. CASE i - 1 \in 1..n /\ 1 + (i - 1) = i
        <5>1. a[i] = q[i - 1]
          BY <2>6, <4>3
        <5>. QED
          BY <2>2, <4>3, <5>1 DEF Inner
      <4>. QED
        BY <2>7, <4>1, <4>2, <4>3
    <3>. QED
      BY <1>0, <2>6, <3>1 DEF Run, Attr, Sym
  <2>9. ASSUME Unquoted(key) PROVE Broken(a)
    <3>1. PICK i \in 1..n : key[i] = "quote" /\ bare
      BY <2>3, <2>9
    <3>2. a[1 + i] = Quote /\ 1 + i \in 1..Len(a) - 1
      BY <1>0, <2>2, <2>6, <3>1
    <3>3. a[(1 + i) + 1].c # "attr"
      <4>1. CASE i = n
        <5>1. (1 + i) + 1 = n + 2
          BY <1>0, <4>1
        <5>. QED
          BY <2>6, <5>1, Symbols
      <4>2. CASE i # n
        <5>1. i + 1 \in 1..n /\ (1 + i) + 1 = 1 + (i + 1)
          <6>1. i \in Int /\ n \in Nat /\ i >= 1 /\ i <= n
            BY <1>0
          <6>. HIDE DEF n
          <6>. QED
            BY <4>2, <6>1
        <5>. QED
          BY <2>2, <2>6, <5>1
      <4>. QED
        BY <4>1, <4>2
    <3>. QED
      BY <3>2, <3>3 DEF Broken
  <2>10. ASSUME Broken(a) PROVE Unquoted(key)
    <3>1. PICK i \in 1..(n + 2) - 1 : a[i] = Quote
      BY <2>6, <2>10 DEF Broken
    <3>2. a[1] # Quote
      BY <2>6 DEF Attr, Quote, Raw, Sym
    <3>3. i - 1 \in 1..n /\ 1 + (i - 1) = i
      BY <1>0, <3>1, <3>2
    <3>. QED
      BY <2>2, <2>3, <2>6, <3>1, <3>3
  <2>11. a[1] # Illegal /\ a[n + 2] # Illegal
    BY <2>6 DEF Attr, Quote, Illegal, Raw, Sym
  <2>12. ASSUME Foul(key) PROVE Soiled(a)
    <3>1. PICK i \in 1..n : q[i] = Illegal
      BY <2>2, <2>3a, <2>12
    <3>2. 1 + i \in 1..Len(a) /\ a[1 + i] = Illegal
      BY <1>0, <2>6, <3>1
    <3>. QED
      BY <3>2 DEF Soiled
  <2>13. ASSUME Soiled(a) PROVE Foul(key)
    <3>1. PICK i \in 1..n + 2 : a[i] = Illegal
      BY <2>6, <2>13 DEF Soiled
    <3>2. i - 1 \in 1..n /\ 1 + (i - 1) = i
      BY <2>7, <2>11, <3>1
    <3>. QED
      BY <2>2, <2>3a, <2>6, <3>1, <3>2
  <2>. QED
    BY <2>8, <2>9, <2>10, <2>12, <2>13 DEF a
<1>. QED
  BY <1>1, <1>2

\* The characters of a text, escaped.
LEMMA TextChars ==
    ASSUME NEW text \in Seq(Name)
    PROVE  /\ EscapeText(text) \in Seq(Symbol) /\ Len(EscapeText(text)) = Len(text)
           /\ \A i \in 1..Len(text) : /\ EscapeText(text)[i].c \in {"raw", "entity"}
                                      /\ EscapeText(text)[i] = Illegal <=> text[i] = "illegal"
<1>. DEFINE n == Len(text)  q == EscapeText(text)
            C(c) == IF c \in {"lt", "gt", "amp"} THEN Entity(c) ELSE Raw(c)
<1>1. n \in Nat /\ DOMAIN text = 1..n /\ \A i \in 1..n : text[i] \in Name
  BY ElementOfSeq
<1>2. q = [i \in DOMAIN text |-> C(text[i])]
  BY DEF EscapeText
<1>3. \A c \in Name : /\ C(c) \in Symbol /\ C(c).c \in {"raw", "entity"}
                      /\ C(c) = Illegal <=> c = "illegal"
  BY DEF Entity, Raw, Illegal, Sym, Symbol, Name
<1>. HIDE DEF q, C
<1>4. q \in [1..n -> Symbol]
      /\ \A i \in 1..n : q[i].c \in {"raw", "entity"} /\ (q[i] = Illegal <=> text[i] = "illegal")
  BY <1>1, <1>2, <1>3
<1>. QED
  BY <1>1, <1>4 DEF q

\* What is written for a value keeps the illegal characters of its text.
LEMMA SpellingFacts ==
    ASSUME NEW v, v.text \in Seq(STRING)
    PROVE  LET q == EscapeText(Spelling(enc, v))
           IN  /\ q \in Seq(Symbol) /\ \A i \in 1..Len(q) : q[i].c \in {"raw", "entity"}
               /\ "illegal" \in Range(v.text) <=> \E i \in 1..Len(q) : q[i] = Illegal
<1>. DEFINE u == Spelling(enc, v)  q == EscapeText(u)
<1>1. CASE u = v.text
  <2>0. u \in Seq(Name)
    <3>1. ASSUME NEW S, NEW T, \A x \in S : x \in T, NEW a \in Seq(S) PROVE a \in Seq(T)
      BY <3>1
    <3>2. v.text \in Seq(Name)
      <4>1. \A x \in STRING : x \in Name
        BY DEF Name
      <4>. QED
        BY <3>1, <4>1
    <3>. QED
      BY <1>1, <3>2
  <2>1. /\ q \in Seq(Symbol) /\ Len(q) = Len(u)
        /\ \A i \in 1..Len(u) : /\ q[i].c \in {"raw", "entity"}
                                /\ q[i] = Illegal <=> u[i] = "illegal"
    BY <2>0, TextChars
  <2>2. "illegal" \in Range(v.text) <=> \E i \in 1..Len(u) : u[i] = "illegal"
    BY <1>1 DEF Range
  <2>. HIDE DEF u, q
  <2>. QED
    BY <2>1, <2>2 DEF q, u
<1>2. CASE u # v.text
  <2>1. v.text = <<"infinite">> /\ (u = <<"Infinity">> \/ u = <<"inf">>)
    BY <1>2 DEF Spelling
  <2>. HIDE DEF u
  <2>2. u \in Seq(Name) /\ Len(u) = 1 /\ u[1] # "illegal"
    <3>1. ASSUME NEW w \in Name
          PROVE  <<w>> \in Seq(Name) /\ Len(<<w>>) = 1 /\ <<w>>[1] = w
      OBVIOUS
    <3>2. PICK w \in Name : u = <<w>> /\ w # "illegal"
      <4>1. "Infinity" \in Name /\ "inf" \in Name
            /\ "Infinity" # "illegal" /\ "inf" # "illegal"
        BY DEF Name
      <4>. QED
        BY <2>1, <4>1
    <3>. QED
      BY <3>1, <3>2
  <2>3. "illegal" \notin Range(v.text)
    BY <2>1 DEF Range
  <2>4. /\ q \in Seq(Symbol) /\ Len(q) = 1
        /\ \A i \in 1..Len(u) : /\ q[i].c \in {"raw", "entity"}
                                /\ q[i] = Illegal <=> u[i] = "illegal"
    BY <2>2, TextChars
  <2>. HIDE DEF q
  <2>. QED
    BY <2>2, <2>3, <2>4 DEF q, u
<1>. QED
  BY <1>1, <1>2

\* A node with a tag that a quote in its key breaks, and one whose text or key
\* holds what no document may.
Spoilt(n)  == n.v.t # "end" /\ n.tag = "f" /\ Unquoted(n.key)
FoulKey(n) == n.v.t # "end" /\ n.tag = "f" /\ Foul(n.key)
FoulText(n) == IsScalar(n.v) /\ "illegal" \in Range(n.v.text)
Stained(n) == FoulKey(n) \/ FoulText(n)

\* The attributes of an element.
AttributesOf(n) ==
    Attributes(enc, n.v.t, IF n.tag = "f" THEN KeyAttr(enc, n.key) ELSE <<>>)

\* The attributes of a start tag.
LEMMA AttributesRun ==
    ASSUME NEW n \in Begins
    PROVE  /\ Run(AttributesOf(n))
           /\ Broken(AttributesOf(n)) <=> Spoilt(n)
           /\ Soiled(AttributesOf(n)) <=> FoulKey(n)
<1>. DEFINE k == IF n.tag = "f" THEN KeyAttr(enc, n.key) ELSE <<>>  t == TypeAttr(n.v.t)
            a == AttributesOf(n)
<1>1. n.v \in Values /\ n.key \in Seq(STRING)
  BY DEF Begins
<1>2. n.v.t \in Types /\ n.v.t # "end"
  BY <1>1, ValueTypes DEF Types
<1>3. Run(t) /\ ~Broken(t) /\ ~Soiled(t)
  BY <1>2, TypeRun
<1>4. \/ k = <<>> /\ ~Spoilt(n) /\ ~FoulKey(n)
      \/ Run(k) /\ (Broken(k) <=> Spoilt(n)) /\ (Soiled(k) <=> FoulKey(n))
  BY <1>1, <1>2, KeyRun DEF Spoilt, FoulKey
<1>5. a = k \o t \/ a = t \o k
  BY DEF AttributesOf, Attributes
<1>. HIDE DEF a, k, t
<1>6. CASE k = <<>> /\ ~Spoilt(n) /\ ~FoulKey(n)
  <2>1. t \in Seq(Symbol)
    BY <1>3 DEF Run
  <2>2. a = t
    BY <1>5, <1>6, <2>1, ConcatEmptySeq
  <2>. QED
    <3>1. Run(a) /\ ~Broken(a) /\ ~Soiled(a)
      BY <1>3, <2>2
    <3>. QED
      BY <1>6, <3>1 DEF a
<1>7. CASE Run(k) /\ (Broken(k) <=> Spoilt(n)) /\ (Soiled(k) <=> FoulKey(n))
  <2>1. /\ Run(k \o t) /\ (Broken(k \o t) <=> Broken(k) \/ Broken(t))
        /\ Run(t \o k) /\ (Broken(t \o k) <=> Broken(t) \/ Broken(k))
        /\ Soiled(k \o t) <=> Soiled(k) \/ Soiled(t)
        /\ Soiled(t \o k) <=> Soiled(t) \/ Soiled(k)
    BY <1>3, <1>7, RunJoin
  <2>2. Run(a) /\ (Broken(a) <=> Spoilt(n)) /\ (Soiled(a) <=> FoulKey(n))
    BY <1>3, <1>5, <1>7, <2>1
  <2>. QED
    BY <2>2 DEF a
<1>. QED
  BY <1>4, <1>6, <1>7

\* What is written for a node: its tag up to e, and text that holds no tag.
Shape(p, n, e) ==
    /\ p \in Seq(Symbol) /\ Len(p) \in Nat /\ e \in 2..Len(p) /\ p[e] = Gt
    /\ p[1] = IF n.v.t = "end" THEN Close(n.tag) ELSE Open(n.tag)
    /\ \A i \in 2..Len(p) : i # e => p[i].c \notin {"open", "close", "gt"}
    /\ p[e - 1] = Slash <=> n.v.t = "null"
    /\ n.v.t \in {"end", "null"} => e = Len(p)
    /\ n.v.t = "end" => e = 2
    /\ n.v.t # "end" => p[2].c = "attr"
    /\ Spoilt(n) <=> \E i \in 1..e - 1 :
                        p[i] = Quote /\ p[i + 1].c \notin {"attr", "slash", "gt"}
    /\ Stained(n) <=> \E i \in 1..Len(p) : p[i] = Illegal

\* An opening tag, and what follows it.
LEMMA OpeningShape ==
    ASSUME NEW n \in Begins, NEW w \in Seq(Symbol), NEW p, p = Opening(enc, n) \o w,
           \/ n.v.t = "null" /\ w = <<Slash, Gt>>
           \/ /\ n.v.t # "null" /\ Len(w) > 0 /\ w[1] = Gt
              /\ \A i \in 2..Len(w) : w[i].c \in {"raw", "entity"},
           FoulText(n) <=> \E i \in 1..Len(w) : w[i] = Illegal
    PROVE  \E e : Shape(p, n, e)
<1>. DEFINE a == AttributesOf(n)  m == Len(a)  l == Len(w)  o == <<Open(n.tag)>>
            h == Opening(enc, n)
<1>0. n.v.t # "end" /\ n.tag \in Name
  <2>1. n.v \in Values /\ n.tag \in {"items", "item", "f", "e"}
    BY DEF Begins
  <2>. QED
    BY <2>1, ValueTypes DEF Types, Name
<1>1. Run(a) /\ (Broken(a) <=> Spoilt(n)) /\ (Soiled(a) <=> FoulKey(n)) /\ h = o \o a
  BY AttributesRun DEF AttributesOf, Opening
<1>2. /\ a \in Seq(Symbol) /\ m \in Nat /\ m > 0 /\ a[1].c = "attr" /\ a[m] = Quote
      /\ \A i \in 1..m : a[i].c \in Inner
  BY <1>1 DEF Run
<1>3. o \in Seq(Symbol) /\ Len(o) = 1 /\ o[1] = Open(n.tag)
  BY <1>0, Symbols
<1>. HIDE DEF a, o, h
<1>4. /\ h \in Seq(Symbol) /\ Len(h) = 1 + m /\ h[1] = Open(n.tag)
      /\ \A i \in 1..m : h[1 + i] = a[i]
  <2>1. /\ o \o a \in Seq(Symbol) /\ Len(o \o a) = Len(o) + Len(a)
        /\ \A i \in 1..Len(o) : (o \o a)[i] = o[i]
        /\ \A i \in 1..Len(a) : (o \o a)[Len(o) + i] = a[i]
    <3>1. o \in Seq(Symbol) /\ a \in Seq(Symbol)
      BY <1>2, <1>3
    <3>. QED
      BY ONLY <3>1, ConcatGrows
  <2>2. 1 \in 1..Len(o)
    BY <1>3
  <2>. QED
    BY <1>1, <1>3, <2>1, <2>2
<1>5. /\ p \in Seq(Symbol) /\ Len(p) = (1 + m) + l /\ l \in Nat
      /\ p[1] = Open(n.tag) /\ \A i \in 1..m : p[1 + i] = a[i]
      /\ \A i \in 1..l : p[(1 + m) + i] = w[i]
  <2>1. /\ h \o w \in Seq(Symbol) /\ Len(h \o w) = Len(h) + Len(w)
        /\ \A i \in 1..Len(h) : (h \o w)[i] = h[i]
        /\ \A i \in 1..Len(w) : (h \o w)[Len(h) + i] = w[i]
    <3>1. h \in Seq(Symbol) /\ w \in Seq(Symbol)
      BY <1>4
    <3>. QED
      BY ONLY <3>1, ConcatGrows
  <2>2. p = h \o w
    BY DEF h
  <2>3. 1 \in 1..Len(h) /\ \A i \in 1..m : 1 + i \in 1..Len(h)
    BY <1>2, <1>4
  <2>. QED
    BY <1>4, <2>1, <2>2, <2>3
<1>. DEFINE e == IF n.v.t = "null" THEN m + 3 ELSE m + 2
<1>6. /\ e \in 2..Len(p) /\ p[e] = Gt
      /\ p[e - 1] = Slash <=> n.v.t = "null"
      /\ n.v.t = "null" => e = Len(p)
      /\ \A i \in m + 2..Len(p) : i # e => p[i].c \in {"slash", "raw", "entity"}
      /\ p[m + 2].c \in {"slash", "gt"} /\ (e = m + 3 => p[m + 2].c = "slash" /\ p[m + 3].c = "gt")
  <2>1. CASE n.v.t = "null"
    <3>1. l = 2 /\ w[1] = Slash /\ w[2] = Gt
      BY <2>1
    <3>2. p[m + 2] = Slash /\ p[m + 3] = Gt /\ Len(p) = m + 3
      <4>1. 1 \in 1..l /\ 2 \in 1..l /\ (1 + m) + 1 = m + 2 /\ (1 + m) + 2 = m + 3
            /\ (1 + m) + l = m + 3
        BY <1>2, <3>1
      <4>. QED
        BY <1>5, <3>1, <4>1
    <3>3. e = m + 3
      BY <2>1
    <3>. HIDE DEF e
    <3>4. e \in 2..Len(p) /\ e - 1 = m + 2
      BY <1>2, <3>2, <3>3
    <3>5. \A i \in m + 2..Len(p) : i # e => i = m + 2
      BY <1>2, <3>2, <3>3
    <3>6. Slash.c = "slash" /\ Gt.c = "gt"
      BY DEF Slash, Gt, Sym
    <3>. QED
      BY <2>1, <3>2, <3>3, <3>4, <3>5, <3>6
  <2>2. CASE n.v.t # "null"
    <3>1. l > 0 /\ w[1] = Gt /\ \A i \in 2..l : w[i].c \in {"raw", "entity"}
      BY <2>2
    <3>2. p[m + 2] = Gt /\ Len(p) >= m + 2
      <4>1. 1 \in 1..l /\ (1 + m) + 1 = m + 2
        BY <1>2, <1>5, <3>1
      <4>. QED
        BY <1>2, <1>5, <3>1, <4>1
    <3>3. ASSUME NEW i \in m + 2..Len(p), i # m + 2 PROVE p[i].c \in {"raw", "entity"}
      <4>1. i - (1 + m) \in 2..l /\ i - (1 + m) \in 1..l /\ (1 + m) + (i - (1 + m)) = i
        BY <1>2, <1>5, <3>3
      <4>2. p[i] = w[i - (1 + m)]
        BY <1>5, <4>1
      <4>. QED
        BY <3>1, <4>1, <4>2
    <3>4. e = m + 2 /\ e \in 2..Len(p) /\ e - 1 = 1 + m /\ m \in 1..m /\ e # m + 3
      BY <1>2, <1>5, <2>2, <3>2
    <3>5. p[e - 1] = Quote
      BY <1>2, <1>5, <3>4
    <3>6. p[e - 1] # Slash
      <4>1. Quote.c # Slash.c
        BY DEF Quote, Raw, Slash, Sym
      <4>. QED
        BY <3>5, <4>1
    <3>. HIDE DEF e
    <3>7. Gt.c = "gt"
      BY DEF Gt, Sym
    <3>. QED
      BY <2>2, <3>2, <3>3, <3>4, <3>6, <3>7
  <2>. QED
    BY <2>1, <2>2
<1>6a. e = m + 2 \/ e = m + 3
  OBVIOUS
<1>. HIDE DEF e
<1>7. \A i \in 2..Len(p) : (i - 1 \in 1..m /\ 1 + (i - 1) = i) \/ i \in m + 2..Len(p)
  BY <1>2, <1>5
<1>8. ASSUME NEW i \in 2..Len(p), i # e PROVE p[i].c \notin {"open", "close", "gt"}
  <2>1. CASE i - 1 \in 1..m /\ 1 + (i - 1) = i
    <3>1. p[i] = a[i - 1]
      BY <1>5, <2>1
    <3>. QED
      BY <1>2, <2>1, <3>1 DEF Inner
  <2>2. CASE i \in m + 2..Len(p)
    BY <1>6, <1>8, <2>2
  <2>. QED
    BY <1>7, <2>1, <2>2
<1>9. p[2].c = "attr"
  <2>1. 1 \in 1..m /\ 1 + 1 = 2
    BY <1>2
  <2>. QED
    BY <1>2, <1>5, <2>1
<1>10. ASSUME Spoilt(n)
       PROVE  \E i \in 1..e - 1 : p[i] = Quote /\ p[i + 1].c \notin {"attr", "slash", "gt"}
  <2>1. PICK i \in 1..m - 1 : a[i] = Quote /\ a[i + 1].c # "attr"
    BY <1>1, <1>10 DEF Broken, m
  <2>2. /\ i \in 1..m /\ i + 1 \in 1..m /\ 1 + i \in 1..e - 1 /\ (1 + i) + 1 = 1 + (i + 1)
    BY <1>2, <1>6a
  <2>3. p[1 + i] = Quote /\ p[(1 + i) + 1].c # "attr" /\ p[(1 + i) + 1].c \in Inner
    BY <1>2, <1>5, <2>1, <2>2
  <2>. QED
    BY <2>2, <2>3 DEF Inner
<1>11. ASSUME NEW i \in 1..e - 1, p[i] = Quote, p[i + 1].c \notin {"attr", "slash", "gt"}
       PROVE  Spoilt(n)
  <2>1. i # 1
    BY <1>5, <1>11, Symbols DEF Open, Sym
  <2>2. i # m + 1
    <3>1. CASE i = m + 1
      <4>1. i + 1 = m + 2
        BY <1>2, <3>1
      <4>. QED
        BY <1>6, <1>11, <4>1
    <3>. QED
      BY <3>1
  <2>3. i # m + 2
    <3>1. CASE i = m + 2
      <4>1. p[m + 2].c \in {"slash", "gt"}
        BY <1>6
      <4>. QED
        BY <1>11, <3>1, <4>1, Symbols
    <3>. QED
      BY <3>1
  <2>4. i - 1 \in 1..m - 1 /\ 1 + (i - 1) = i /\ 1 + ((i - 1) + 1) = i + 1
        /\ i - 1 \in 1..m /\ (i - 1) + 1 \in 1..m
    <3>1. /\ m \in Nat /\ (e = m + 2 \/ e = m + 3) /\ i \in 1..e - 1
          /\ i # 1 /\ i # m + 1 /\ i # m + 2
      BY <1>2, <1>6a, <2>1, <2>2, <2>3
    <3>. HIDE DEF m
    <3>. QED
      BY ONLY <3>1
  <2>5. a[i - 1] = Quote /\ a[(i - 1) + 1].c # "attr"
    BY <1>5, <1>11, <2>4
  <2>6. Broken(a)
    BY <2>4, <2>5 DEF Broken, m
  <2>. QED
    BY <1>1, <2>6
<1>12. Len(p) \in Nat
  BY <1>2, <1>5
<1>13. Stained(n) <=> \E i \in 1..Len(p) : p[i] = Illegal
  <2>1. ASSUME NEW i \in 1..Len(p), p[i] = Illegal PROVE Stained(n)
    <3>1. i = 1 \/ (i - 1 \in 1..m /\ 1 + (i - 1) = i)
          \/ (i - (1 + m) \in 1..l /\ (1 + m) + (i - (1 + m)) = i)
      BY <1>2, <1>5
    <3>2. i # 1
      BY <1>5, <2>1 DEF Open, Illegal, Raw, Sym
    <3>3. CASE i - 1 \in 1..m /\ 1 + (i - 1) = i
      <4>1. a[i - 1] = Illegal
        BY <1>5, <2>1, <3>3
      <4>2. Soiled(a)
        BY <3>3, <4>1 DEF Soiled, m
      <4>. QED
        BY <1>1, <4>2 DEF Stained
    <3>4. CASE i - (1 + m) \in 1..l /\ (1 + m) + (i - (1 + m)) = i
      <4>1. w[i - (1 + m)] = Illegal
        BY <1>5, <2>1, <3>4
      <4>. QED
        BY <3>4, <4>1 DEF Stained
    <3>. QED
      BY <3>1, <3>2, <3>3, <3>4
  <2>2. ASSUME FoulKey(n) PROVE \E i \in 1..Len(p) : p[i] = Illegal
    <3>1. PICK i \in 1..m : a[i] = Illegal
      BY <1>1, <2>2 DEF Soiled, m
    <3>2. 1 + i \in 1..Len(p)
      <4>1. m \in Nat /\ l \in Nat /\ Len(p) = (1 + m) + l /\ i \in 1..m
        BY <1>2, <1>5
      <4>. HIDE DEF m, l
      <4>. QED
        BY ONLY <4>1
    <3>3. p[1 + i] = Illegal
      BY <1>5, <3>1
    <3>. QED
      BY <3>2, <3>3
  <2>3. ASSUME FoulText(n) PROVE \E i \in 1..Len(p) : p[i] = Illegal
    <3>1. PICK i \in 1..l : w[i] = Illegal
      BY <2>3
    <3>2. (1 + m) + i \in 1..Len(p)
      <4>1. m \in Nat /\ l \in Nat /\ Len(p) = (1 + m) + l /\ i \in 1..l
        BY <1>2, <1>5
      <4>. HIDE DEF m, l
      <4>. QED
        BY ONLY <4>1
    <3>3. p[(1 + m) + i] = Illegal
      BY <1>5, <3>1
    <3>. QED
      BY <3>2, <3>3
  <2>. QED
    BY <2>1, <2>2, <2>3 DEF Stained
<1>14. Shape(p, n, e)
  BY <1>0, <1>5, <1>6, <1>8, <1>9, <1>10, <1>11, <1>12, <1>13 DEF Shape
<1>. QED
  BY <1>14

\* Every node is written as a tag and text.
LEMMA NodeShape ==
    ASSUME NEW n \in Begins \cup Ends
    PROVE  \E e : Shape(WriteValue(enc, n), n, e)
<1>. DEFINE p == WriteValue(enc, n)
<1>1. CASE n \in Ends
  <2>1. n.v.t = "end" /\ n.tag \in {"items", "item", "f", "e"}
    BY <1>1 DEF Ends, Closing, Node
  <2>2. p = <<Close(n.tag), Gt>>
    BY <2>1 DEF WriteValue
  <2>3. p \in Seq(Symbol) /\ Len(p) = 2
    <3>1. n.tag \in Name
      BY <2>1 DEF Name
    <3>. QED
      BY <2>2, <3>1, Symbols
  <2>. HIDE DEF p
  <2>4. p[1] = Close(n.tag) /\ p[2] = Gt /\ p[1] # Quote /\ p[1] # Slash
        /\ p[1] # Illegal /\ p[2] # Illegal
    <3>1. Close(n.tag) # Quote /\ Close(n.tag) # Slash
          /\ Close(n.tag) # Illegal /\ Gt # Illegal
      BY DEF Close, Quote, Raw, Slash, Gt, Illegal, Sym
    <3>. QED
      BY <2>2, <3>1
  <2>4a. ~Stained(n) /\ \A i \in 1..Len(p) : p[i] # Illegal
    BY <2>1, <2>3, <2>4 DEF Stained, FoulKey, FoulText, IsScalar
  <2>5. Shape(p, n, 2)
    BY <2>1, <2>3, <2>4, <2>4a DEF Shape, Spoilt
  <2>. QED
    BY <2>5 DEF p
<1>2. CASE n \in Begins
  <2>1. n.v \in Values /\ n.v.t \in Types
    BY <1>2, ValueTypes DEF Begins
  <2>2. CASE n.v.t = "null"
    <3>1. p = Opening(enc, n) \o <<Slash, Gt>>
      BY <2>2 DEF WriteValue
    <3>2. <<Slash, Gt>> \in Seq(Symbol)
      BY Symbols
    <3>3. \A i \in 1..Len(<<Slash, Gt>>) : <<Slash, Gt>>[i] # Illegal
      <4>1. Slash # Illegal /\ Gt # Illegal
        BY DEF Slash, Gt, Illegal, Raw, Sym
      <4>2. \A i \in 1..Len(<<Slash, Gt>>) : i = 1 \/ i = 2
        OBVIOUS
      <4>. QED
        BY <4>1, <4>2
    <3>4. ~FoulText(n)
      BY <2>2 DEF FoulText, IsScalar
    <3>. QED
      BY <1>2, <2>2, <3>1, <3>2, <3>3, <3>4, OpeningShape
  <2>3. CASE n.v.t \in {"object", "array"}
    <3>1. p = Opening(enc, n) \o <<Gt>>
      BY <2>3 DEF WriteValue
    <3>. DEFINE w == <<Gt>>
    <3>2. w \in Seq(Symbol) /\ Len(w) = 1 /\ w[1] = Gt
      BY Symbols
    <3>2a. Gt # Illegal /\ ~FoulText(n)
      BY <2>3 DEF Gt, Illegal, Raw, Sym, FoulText, IsScalar
    <3>. HIDE DEF w, p
    <3>2b. FoulText(n) <=> \E i \in 1..Len(w) : w[i] = Illegal
      BY <3>2, <3>2a
    <3>3. \A i \in 2..Len(w) : w[i].c \in {"raw", "entity"}
      BY <3>2
    <3>4. n.v.t # "null" /\ Len(w) > 0 /\ p = Opening(enc, n) \o w
      BY <2>3, <3>1, <3>2 DEF w
    <3>5. \E e : Shape(p, n, e)
      BY <1>2, <3>2, <3>2b, <3>3, <3>4, OpeningShape
    <3>. QED
      BY <3>5 DEF p
  <2>4. CASE n.v.t \notin {"null", "object", "array"}
    <3>. DEFINE q == EscapeText(Spelling(enc, n.v))  u == <<Gt>>  w == u \o q
                h == Opening(enc, n)
    <3>1. p = (h \o u) \o q
      BY <2>1, <2>4 DEF WriteValue, Types
    <3>2. n.v.text \in Seq(STRING)
      BY <2>1, <2>4, ValueTypes
    <3>3. /\ q \in Seq(Symbol) /\ \A i \in 1..Len(q) : q[i].c \in {"raw", "entity"}
          /\ FoulText(n) <=> \E i \in 1..Len(q) : q[i] = Illegal
      <4>1. IsScalar(n.v)
        BY <2>1, <2>4 DEF IsScalar, Types
      <4>. QED
        BY <3>2, <4>1, SpellingFacts DEF FoulText
    <3>4. u \in Seq(Symbol) /\ Len(u) = 1 /\ u[1] = Gt
      BY Symbols
    <3>4a. Gt # Illegal
      BY DEF Gt, Illegal, Raw, Sym
    <3>5. h \in Seq(Symbol)
      <4>1. Run(AttributesOf(n))
        BY <1>2, AttributesRun
      <4>2. n.tag \in Name
        BY <1>2 DEF Begins, Name
      <4>3. <<Open(n.tag)>> \in Seq(Symbol) /\ AttributesOf(n) \in Seq(Symbol)
        BY <4>1, <4>2, Symbols DEF Run
      <4>. QED
        BY <4>3, ConcatProperties DEF Opening, AttributesOf
    <3>. HIDE DEF q, u, h
    <3>6. p = h \o w
      <4>1. h \in Seq(Symbol) /\ u \in Seq(Symbol) /\ q \in Seq(Symbol)
        BY <3>3, <3>4, <3>5
      <4>2. (h \o u) \o q = h \o (u \o q)
        BY ONLY <4>1, ConcatAssociative
      <4>. HIDE DEF p
      <4>. QED
        BY <3>1, <4>2 DEF w
    <3>7. /\ w \in Seq(Symbol) /\ Len(w) = Len(u) + Len(q)
          /\ \A i \in 1..Len(u) : w[i] = u[i]
          /\ \A i \in 1..Len(q) : w[Len(u) + i] = q[i]
      <4>1. u \in Seq(Symbol) /\ q \in Seq(Symbol)
        BY <3>3, <3>4
      <4>. QED
        BY ONLY <4>1, ConcatGrows
    <3>. HIDE DEF w
    <3>8. Len(q) \in Nat /\ 1 \in 1..Len(u)
      BY <3>3, <3>4
    <3>9. Len(w) > 0 /\ w[1] = Gt
      BY <3>4, <3>7, <3>8
    <3>10. ASSUME NEW i \in 2..Len(w) PROVE w[i].c \in {"raw", "entity"}
      <4>1. i - 1 \in 1..Len(q) /\ Len(u) + (i - 1) = i
        BY <3>4, <3>7, <3>8
      <4>. QED
        BY <3>3, <3>7, <4>1
    <3>11. FoulText(n) <=> \E i \in 1..Len(w) : w[i] = Illegal
      <4>1. ASSUME NEW i \in 1..Len(w), w[i] = Illegal PROVE i - 1 \in 1..Len(q) /\ q[i - 1] = Illegal
        <5>1. i # 1
          BY <3>4a, <3>9, <4>1
        <5>2. i - 1 \in 1..Len(q) /\ Len(u) + (i - 1) = i
          BY <3>4, <3>7, <3>8, <5>1
        <5>. QED
          BY <3>7, <4>1, <5>2
      <4>2. ASSUME NEW i \in 1..Len(q), q[i] = Illegal PROVE 1 + i \in 1..Len(w) /\ w[1 + i] = Illegal
        BY <3>4, <3>7, <3>8, <4>2
      <4>. QED
        BY <3>3, <4>1, <4>2
    <3>. QED
      BY <1>2, <2>4, <3>6, <3>7, <3>9, <3>10, <3>11, OpeningShape DEF h
  <2>. QED
    BY <2>2, <2>3, <2>4
<1>. QED
  BY <1>1, <1>2

-----------------------------------------------------------------------------
(***************************************************************************)
(* The walk over a value.                                                  *)
(***************************************************************************)
\* The states of the walk.
Frame     == [tag : {"items", "item", "f", "e"}, due : Seq(Begins)]
WalkState == {w \in [done : Seq(Begins \cup Ends), open : Seq(Frame)] : w.open # <<>>}

\* A finite set of texts can be written as a sequence.
LEMMA SetListed ==
    ASSUME NEW S, IsFiniteSet(S)
    PROVE  SetToSeq(S) \in Seq(S)
<1>. DEFINE n == Cardinality(S)
<1>1. n \in Nat /\ ExistsBijection(1..n, S)
  BY FS_CardinalityType
<1>2. PICK h \in [1..n -> S] : IsInjective(h)
  BY <1>1 DEF ExistsBijection, Bijection, Injection, IsInjective
<1>3. SetToSeq(S) = CHOOSE f \in [1..n -> S] : IsInjective(f)
  BY Zenon DEF SetToSeq
<1>. HIDE DEF n
<1>4. SetToSeq(S) \in [1..n -> S]
  BY <1>2, <1>3
<1>. QED
  BY <1>1, <1>4

\* The children of a value: fields, or elements.
LEMMA ChildrenFacts ==
    ASSUME NEW v \in Values
    PROVE  /\ Children(v) \in Seq(Begins)
           /\ \A i \in 1..Len(Children(v)) : Children(v)[i].tag \in {"f", "e"}
<1>. DEFINE c == Children(v)
<1>1. v.t \in Types
  BY ValueTypes
<1>2. CASE v.t = "object"
  <2>. DEFINE keys == SetToSeq(DOMAIN v.fields)  n == Len(keys)
              g == [i \in DOMAIN keys |-> Node("f", keys[i], v.fields[keys[i]])]
  <2>1. /\ IsFiniteSet(DOMAIN v.fields) /\ v.fields \in [DOMAIN v.fields -> Values]
        /\ DOMAIN v.fields \subseteq Seq(STRING)
    BY <1>2, ValueTypes
  <2>2. keys \in Seq(DOMAIN v.fields)
    BY <2>1, SetListed
  <2>3. c = g
    BY <1>2 DEF Children
  <2>. HIDE DEF keys
  <2>4. n \in Nat /\ DOMAIN keys = 1..n /\ \A i \in 1..n : keys[i] \in DOMAIN v.fields
    BY <2>2, ElementOfSeq
  <2>5. ASSUME NEW i \in 1..n PROVE g[i] \in Begins /\ g[i].tag = "f"
    <3>1. keys[i] \in Seq(STRING) /\ v.fields[keys[i]] \in Values
      BY <2>1, <2>4
    <3>2. g[i] = Node("f", keys[i], v.fields[keys[i]])
      BY <2>4
    <3>. QED
      BY <3>1, <3>2 DEF Begins, Node
  <2>6. DOMAIN g = 1..n
    BY <2>4
  <2>. HIDE DEF n
  <2>7. g \in [1..n -> Begins] /\ n \in Nat
    BY <2>4, <2>5, <2>6
  <2>. HIDE DEF g
  <2>. QED
    BY <2>3, <2>5, <2>7
<1>3. CASE v.t = "array"
  <2>. DEFINE s == v.items  n == Len(s)  g == [i \in DOMAIN s |-> Node("e", <<>>, s[i])]
  <2>1. s \in Seq(Values)
    BY <1>3, ValueTypes
  <2>2. c = g
    BY <1>3 DEF Children
  <2>. HIDE DEF s
  <2>3. n \in Nat /\ DOMAIN s = 1..n /\ \A i \in 1..n : s[i] \in Values
    BY <2>1, ElementOfSeq
  <2>4. ASSUME NEW i \in 1..n PROVE g[i] \in Begins /\ g[i].tag = "e"
    <3>1. g[i] = Node("e", <<>>, s[i]) /\ <<>> \in Seq(STRING) /\ s[i] \in Values
      BY <2>3
    <3>. QED
      BY <3>1 DEF Begins, Node
  <2>5. DOMAIN g = 1..n
    BY <2>3
  <2>. HIDE DEF n
  <2>6. g \in [1..n -> Begins] /\ n \in Nat
    BY <2>3, <2>4, <2>5
  <2>. HIDE DEF g
  <2>. QED
    BY <2>2, <2>4, <2>6
<1>4. CASE v.t \notin {"object", "array"}
  <2>1. c = <<>>
    BY <1>1, <1>4 DEF Children, Types
  <2>. QED
    BY <2>1
<1>. QED
  BY <1>2, <1>3, <1>4

\* Nothing is left to write.
Finished(w) == Len(w.open) = 1 /\ w.open[1].due = <<>>

\* A step writes the next child of the innermost element, or its end.
Enters(w, x) ==
    LET top == Len(w.open)
        due == w.open[top].due
        n   == x.done[Len(w.done) + 1]
    IN  /\ due # <<>> /\ n = due[1] /\ n \in Begins
        /\ Len(x.open) = IF n.v.t = "null" THEN top ELSE top + 1
        /\ \A k \in 1..top - 1 : x.open[k] = w.open[k]
        /\ x.open[top].tag = w.open[top].tag /\ x.open[top].due = Tail(due)
        /\ n.v.t # "null" => x.open[top + 1].tag = n.tag /\ x.open[top + 1].due = Children(n.v)
Leaves(w, x) ==
    LET top == Len(w.open)
    IN  /\ top > 1 /\ w.open[top].due = <<>>
        /\ x.done[Len(w.done) + 1] = Closing(w.open[top].tag)
        /\ Len(x.open) = top - 1 /\ \A k \in 1..top - 1 : x.open[k] = w.open[k]

\* A step of the walk keeps it well-formed and writes down at most one node.
LEMMA VisitFacts ==
    ASSUME NEW w \in WalkState
    PROVE  /\ Visit(w) \in WalkState
           /\ Finished(w) => Visit(w) = w
           /\ ~Finished(w) =>
                 /\ Len(Visit(w).done) = Len(w.done) + 1
                 /\ \A j \in 1..Len(w.done) : Visit(w).done[j] = w.done[j]
                 /\ Enters(w, Visit(w)) \/ Leaves(w, Visit(w))
<1>. DEFINE o == w.open  top == Len(o)  due == o[top].due  d == w.done
<1>1. d \in Seq(Begins \cup Ends) /\ o \in Seq(Frame) /\ top \in Nat \ {0} /\ top \in 1..top
  BY DEF WalkState
<1>2. o[top] \in Frame
  BY <1>1, ElementOfSeq
<1>3. due \in Seq(Begins) /\ o[top].tag \in {"items", "item", "f", "e"}
  BY <1>2 DEF Frame
<1>4. CASE due # <<>>
  <2>. DEFINE n == Head(due)  r == [o EXCEPT ![top].due = Tail(due)]
              f == [tag |-> n.tag, due |-> Children(n.v)]
              y == IF n.v.t = "null" THEN r ELSE Append(r, f)
              z == Append(d, n)
  <2>1. n \in Begins /\ n = due[1] /\ Tail(due) \in Seq(Begins)
    <3>1. n \in Begins /\ Tail(due) \in Seq(Begins)
      BY <1>3, <1>4, HeadTailProperties
    <3>. QED
      BY <3>1
  <2>2. Visit(w) = [done |-> z, open |-> y]
    BY <1>4, Zenon DEF Visit
  <2>3. /\ r \in Seq(Frame) /\ Len(r) = top
        /\ \A k \in 1..top - 1 : r[k] = o[k]
        /\ r[top].tag = o[top].tag /\ r[top].due = Tail(due)
    <3>. DEFINE g == [o[top] EXCEPT !.due = Tail(due)]
    <3>1. g \in Frame /\ g.tag = o[top].tag /\ g.due = Tail(due)
      BY <1>2, <2>1 DEF Frame
    <3>2. r = [o EXCEPT ![top] = g]
      OBVIOUS
    <3>. HIDE DEF g, r, o
    <3>3. /\ [o EXCEPT ![top] = g] \in Seq(Frame) /\ Len([o EXCEPT ![top] = g]) = Len(o)
          /\ \A j \in 1..Len(o) : [o EXCEPT ![top] = g][j] = IF j = top THEN g ELSE o[j]
      BY <1>1, <3>1, ExceptSeq
    <3>4. \A k \in 1..top - 1 : k \in 1..top /\ k # top
      BY <1>1
    <3>. QED
      BY <1>1, <3>1, <3>2, <3>3, <3>4
  <2>4. f \in Frame
    <3>1. n.v \in Values /\ n.tag \in {"items", "item", "f", "e"}
      BY <2>1 DEF Begins
    <3>2. Children(n.v) \in Seq(Begins)
      BY <3>1, ChildrenFacts
    <3>. QED
      BY <3>1, <3>2 DEF Frame
  <2>5. f.tag = n.tag /\ f.due = Children(n.v)
    OBVIOUS
  <2>. HIDE DEF n, r, f
  <2>6. /\ Append(r, f) \in Seq(Frame) /\ Len(Append(r, f)) = top + 1
        /\ \A k \in 1..top : Append(r, f)[k] = r[k]
        /\ Append(r, f)[top + 1] = f
    <3>1. /\ Append(r, f) \in Seq(Frame) /\ Len(Append(r, f)) = Len(r) + 1
          /\ \A k \in 1..Len(r) : Append(r, f)[k] = r[k]
          /\ Append(r, f)[Len(r) + 1] = f
      BY <2>3, <2>4, AppendProperties
    <3>. QED
      BY <2>3, <3>1
  <2>7. /\ z \in Seq(Begins \cup Ends) /\ Len(z) = Len(d) + 1
        /\ \A j \in 1..Len(d) : z[j] = d[j]
        /\ z[Len(d) + 1] = n
    <3>1. n \in Begins \cup Ends
      BY <2>1
    <3>. QED
      BY <1>1, <3>1, AppendProperties
  <2>8. /\ y \in Seq(Frame) /\ y # <<>>
        /\ Len(y) = IF n.v.t = "null" THEN top ELSE top + 1
        /\ \A k \in 1..top : y[k] = r[k]
        /\ n.v.t # "null" => y[top + 1] = f
    <3>1. r # <<>> /\ Append(r, f) # <<>>
      BY <1>1, <2>3, <2>6
    <3>. QED
      BY <2>3, <2>6, <3>1
  <2>. HIDE DEF y, z
  <2>9. Visit(w) \in WalkState /\ Visit(w).done = z /\ Visit(w).open = y
    BY <2>2, <2>7, <2>8 DEF WalkState
  <2>10. ~Finished(w)
    <3>1. CASE top = 1
      BY <1>4, <3>1 DEF Finished
    <3>2. CASE top # 1
      BY <3>2 DEF Finished
    <3>. QED
      BY <3>1, <3>2
  <2>11. Enters(w, Visit(w))
    <3>1. Visit(w).done[Len(w.done) + 1] = n
      BY <2>7, <2>9
    <3>2. \A k \in 1..top - 1 : k \in 1..top
      BY <1>1
    <3>3. \A k \in 1..top - 1 : y[k] = o[k]
      BY <2>3, <2>8, <3>2
    <3>4. y[top].tag = o[top].tag /\ y[top].due = Tail(due)
      BY <1>1, <2>3, <2>8
    <3>5. n.v.t # "null" => y[top + 1].tag = n.tag /\ y[top + 1].due = Children(n.v)
      BY <2>5, <2>8
    <3>. QED
      BY <1>4, <2>1, <2>8, <2>9, <3>1, <3>3, <3>4, <3>5 DEF Enters
  <2>. QED
    BY <2>7, <2>9, <2>10, <2>11
<1>5. CASE due = <<>> /\ top > 1
  <2>. DEFINE e == Closing(o[top].tag)  y == Front(o)  z == Append(d, e)
  <2>1. Visit(w) = [done |-> z, open |-> y]
    BY <1>5, Zenon DEF Visit
  <2>2. e \in Ends
    BY <1>3 DEF Ends
  <2>3. /\ z \in Seq(Begins \cup Ends) /\ Len(z) = Len(d) + 1
        /\ \A j \in 1..Len(d) : z[j] = d[j]
        /\ z[Len(d) + 1] = e
    <3>1. e \in Begins \cup Ends
      BY <2>2
    <3>. HIDE DEF e
    <3>. QED
      BY <1>1, <3>1, AppendProperties
  <2>4. y \in Seq(Frame) /\ Len(y) = top - 1 /\ \A k \in 1..top - 1 : y[k] = o[k]
    <3>. DEFINE m == top - 1
    <3>1. y = SubSeq(o, 1, m)
      BY DEF Front
    <3>2. m \in 0..Len(o)
      BY <1>1
    <3>3. o \in Seq(Frame)
      BY <1>1
    <3>. HIDE DEF y, o, m
    <3>4. y \in Seq(Frame) /\ Len(y) = m /\ \A k \in 1..m : y[k] = o[k]
      BY ONLY <3>1, <3>2, <3>3, FirstPart
    <3>. QED
      BY <3>4 DEF m
  <2>5. y # <<>>
    BY <1>1, <1>5, <2>4
  <2>. HIDE DEF y, z, e
  <2>6. Visit(w) \in WalkState /\ Visit(w).done = z /\ Visit(w).open = y
    BY <2>1, <2>3, <2>4, <2>5 DEF WalkState
  <2>7. ~Finished(w)
    BY <1>1, <1>5 DEF Finished
  <2>8. Leaves(w, Visit(w))
    BY <1>5, <2>3, <2>4, <2>6 DEF Leaves, e
  <2>. QED
    BY <2>3, <2>6, <2>7, <2>8
<1>6. CASE due = <<>> /\ ~(top > 1)
  <2>1. Visit(w) = w
    BY <1>6, Zenon DEF Visit
  <2>2. top = 1
    <3>. HIDE DEF top, due
    <3>. QED
      BY <1>1, <1>6
  <2>3. Finished(w)
    BY <1>6, <2>2 DEF Finished
  <2>. QED
    BY <2>1, <2>3
<1>. QED
  BY <1>4, <1>5, <1>6

\* Where the walk begins.
Root(v) == [done |-> <<>>,
            open |-> <<[tag |-> "items", due |-> <<Node("item", <<>>, v)>>]>>]

\* The equations of the walk.
LEMMA WalkUnfolds ==
    ASSUME NEW v \in Values
    PROVE  /\ Walk(v) \in [0..MaxNodes -> WalkState] /\ Walk(v)[0] = Root(v)
           /\ \A i \in 1..MaxNodes : Walk(v)[i] = Visit(Walk(v)[i - 1])
<1>. DEFINE n == MaxNodes  z == Root(v)
            step == [p \in (1..n) \X WalkState |-> Visit(p[2])]
<1>0. n \in Nat
  BY XmlAssumption
<1>1. z \in WalkState
  <2>. DEFINE b == Node("item", <<>>, v)  f == [tag |-> "items", due |-> <<b>>]
  <2>1. b \in Begins
    <3>1. <<>> \in Seq(STRING)
      OBVIOUS
    <3>. QED
      BY <3>1 DEF Begins, Node
  <2>. HIDE DEF b
  <2>2. f \in Frame
    <3>1. <<b>> \in Seq(Begins)
      BY <2>1
    <3>. QED
      BY <3>1 DEF Frame
  <2>3. z = [done |-> <<>>, open |-> <<f>>]
    BY DEF Root, b
  <2>. HIDE DEF f
  <2>4. <<f>> \in Seq(Frame) /\ <<f>> # <<>> /\ <<>> \in Seq(Begins \cup Ends)
    BY <2>2
  <2>. QED
    BY <2>3, <2>4 DEF WalkState
<1>2. step \in [(1..n) \X WalkState -> WalkState]
  <2>1. ASSUME NEW p \in (1..n) \X WalkState PROVE Visit(p[2]) \in WalkState
    <3>1. p[2] \in WalkState
      OBVIOUS
    <3>. QED
      BY <3>1, VisitFacts
  <2>. QED
    BY <2>1
<1>. HIDE DEF z
<1>3. PICK g : Unfolds(g, n, WalkState, z, step)
  <2>. HIDE DEF step
  <2>1. Follows(n, WalkState, z, step)
    BY <1>0, <1>1, <1>2 DEF Follows
  <2>. QED
    BY ONLY <2>1, Recursion
<1>4. g \in [0..n -> WalkState] /\ g[0] = z
  BY <1>3 DEF Unfolds
<1>5. ASSUME NEW i \in 1..n PROVE g[i] = Visit(g[i - 1])
  <2>1. i - 1 \in 0..n
    BY <1>0
  <2>2. <<i, g[i - 1]>> \in (1..n) \X WalkState
    BY <1>4, <2>1
  <2>. QED
    BY <1>3, <2>2 DEF Unfolds
<1>. DEFINE IsWalk(f) == f = [i \in 0..n |-> IF i = 0 THEN z ELSE Visit(f[i - 1])]
<1>6. IsWalk(g)
  <2>1. ASSUME NEW i \in 0..n PROVE g[i] = IF i = 0 THEN z ELSE Visit(g[i - 1])
    <3>1. CASE i = 0
      BY <1>4, <3>1
    <3>2. CASE i # 0
      <4>1. i \in 1..n
        BY <1>0, <3>2
      <4>. QED
        BY <1>5, <3>2, <4>1
    <3>. QED
      BY <3>1, <3>2
  <2>. QED
    BY <1>4, <2>1
<1>7. IsWalk(Walk(v))
  <2>1. Walk(v) = CHOOSE f : IsWalk(f)
    BY Zenon DEF Walk, z, Root
  <2>. HIDE DEF IsWalk
  <2>. QED
    BY <1>6, <2>1
<1>. DEFINE f == Walk(v)
<1>8. f[0] = z
  BY <1>0, <1>7
<1>9. \A i \in 1..n : f[i] = Visit(f[i - 1])
  BY <1>0, <1>7
<1>. DEFINE G == {i \in 0..n : f[i] \in WalkState}
<1>10. 0 \in G
  BY <1>0, <1>1, <1>8
<1>11. ASSUME NEW i \in 0..n - 1, i \in G PROVE i + 1 \in G
  <2>1. i + 1 \in 1..n /\ (i + 1) - 1 = i /\ i + 1 \in 0..n
    BY <1>0
  <2>2. f[i + 1] = Visit(f[i])
    BY <1>9, <2>1
  <2>3. f[i + 1] \in WalkState
    BY <1>11, <2>2, VisitFacts
  <2>. QED
    BY <2>1, <2>3
<1>12. \A i \in 0..n : i \in G
  <2>. HIDE DEF G
  <2>. QED
    BY <1>0, <1>10, <1>11, InductionUpTo
<1>13. f \in [0..n -> WalkState]
  BY <1>7, <1>12
<1>. QED
  BY <1>8, <1>9, <1>13 DEF z

\* Below the root only the item is open, and fields and elements below it.
Deep(w) ==
    /\ w.open[1].due = <<>>
    /\ Len(w.open) > 1 => w.open[2].tag = "item"
    /\ \A k \in 3..Len(w.open) : w.open[k].tag \in {"f", "e"}
    /\ \A k \in 2..Len(w.open) : \A i \in 1..Len(w.open[k].due) :
          w.open[k].due[i].tag \in {"f", "e"}

\* A step there writes the tag of a field or an element, ends one, or ends the
\* item, which leaves only the root open.
LEMMA DeepStays ==
    ASSUME NEW w \in WalkState, NEW x \in WalkState, Deep(w), ~Finished(w),
           Enters(w, x) \/ Leaves(w, x)
    PROVE  /\ Deep(x) /\ Len(w.open) > 1
           /\ LET n == x.done[Len(w.done) + 1]
              IN  \/ n \in Begins /\ n.tag \in {"f", "e"} /\ Len(x.open) > 1
                  \/ n = Closing("item") /\ Len(w.open) = 2 /\ Len(x.open) = 1
                  \/ /\ Len(w.open) > 2 /\ Len(x.open) > 1
                     /\ \E tag \in {"f", "e"} : n = Closing(tag)
<1>. DEFINE o == w.open  top == Len(o)  p == x.open  n == x.done[Len(w.done) + 1]
<1>1. o \in Seq(Frame) /\ top \in Nat \ {0} /\ p \in Seq(Frame) /\ Len(p) \in Nat \ {0}
  BY DEF WalkState
<1>2. /\ o[1].due = <<>> /\ (top > 1 => o[2].tag = "item")
      /\ \A k \in 3..top : o[k].tag \in {"f", "e"}
      /\ \A k \in 2..top : \A i \in 1..Len(o[k].due) : o[k].due[i].tag \in {"f", "e"}
  BY DEF Deep
<1>3. top > 1
  <2>1. CASE top = 1
    BY <1>2, <2>1 DEF Finished
  <2>. HIDE DEF top
  <2>. QED
    BY <1>1, <2>1
<1>4. o[top].due \in Seq(Begins)
  <2>1. top \in 1..Len(o)
    BY <1>1
  <2>2. o[top] \in Frame
    BY <1>1, <2>1, ElementOfSeq
  <2>. QED
    BY <2>2 DEF Frame
<1>5. CASE Enters(w, x)
  <2>. DEFINE due == o[top].due  c == Children(n.v)
  <2>1. /\ due # <<>> /\ n = due[1] /\ n \in Begins
        /\ Len(p) = IF n.v.t = "null" THEN top ELSE top + 1
        /\ \A k \in 1..top - 1 : p[k] = o[k]
        /\ p[top].tag = o[top].tag /\ p[top].due = Tail(due)
        /\ n.v.t # "null" => p[top + 1].tag = n.tag /\ p[top + 1].due = c
    BY <1>5 DEF Enters
  <2>2. n.tag \in {"f", "e"}
    <3>1. 1 \in 1..Len(due) /\ top \in 2..top
      BY <1>1, <1>3, <1>4, <2>1
    <3>. QED
      BY <1>2, <2>1, <3>1
  <2>3. \A i \in 1..Len(Tail(due)) : Tail(due)[i].tag \in {"f", "e"}
    <3>1. \A i \in 1..Len(Tail(due)) : i + 1 \in 1..Len(due) /\ Tail(due)[i] = due[i + 1]
      BY <1>4, <2>1
    <3>2. top \in 2..top
      BY <1>1, <1>3
    <3>. QED
      BY <1>2, <3>1, <3>2
  <2>4. \A i \in 1..Len(c) : c[i].tag \in {"f", "e"}
    <3>1. n.v \in Values
      BY <2>1 DEF Begins
    <3>. QED
      BY <3>1, ChildrenFacts
  <2>. HIDE DEF due, c, n, top, o, p
  <2>5. p[1].due = <<>> /\ p[2].tag = "item"
    <3>1. 1 \in 1..top - 1
      BY <1>1, <1>3
    <3>2. CASE top = 2
      BY <1>2, <1>3, <2>1, <3>1, <3>2
    <3>3. CASE top # 2
      <4>1. 2 \in 1..top - 1
        BY <1>1, <1>3, <3>3
      <4>. QED
        BY <1>2, <1>3, <2>1, <3>1, <4>1
    <3>. QED
      BY <3>2, <3>3
  <2>6. ASSUME NEW k \in 3..Len(p) PROVE p[k].tag \in {"f", "e"}
    <3>1. CASE k \in 3..top - 1
      <4>1. k \in 1..top - 1 /\ k \in 3..top
        BY <1>1, <3>1
      <4>. QED
        BY <1>2, <2>1, <4>1
    <3>2. CASE k = top
      BY <1>2, <2>1, <3>2
    <3>3. CASE k = top + 1 /\ n.v.t # "null"
      BY <2>1, <2>2, <3>3
    <3>. QED
      BY <1>1, <2>1, <3>1, <3>2, <3>3
  <2>7. ASSUME NEW k \in 2..Len(p), NEW i \in 1..Len(p[k].due)
        PROVE  p[k].due[i].tag \in {"f", "e"}
    <3>1. CASE k \in 2..top - 1
      <4>1. k \in 1..top - 1 /\ k \in 2..top
        BY <1>1, <3>1
      <4>. QED
        BY <1>2, <2>1, <4>1
    <3>2. CASE k = top
      BY <2>1, <2>3, <3>2
    <3>3. CASE k = top + 1 /\ n.v.t # "null"
      BY <2>1, <2>4, <3>3
    <3>. QED
      BY <1>1, <2>1, <3>1, <3>2, <3>3
  <2>8. Deep(x)
    BY <2>5, <2>6, <2>7 DEF Deep, p
  <2>9. Len(p) > 1
    BY <1>1, <1>3, <2>1
  <2>. QED
    BY <1>3, <2>1, <2>2, <2>8, <2>9 DEF n, top, o, p
<1>6. CASE Leaves(w, x)
  <2>1. /\ n = Closing(o[top].tag)
        /\ Len(p) = top - 1 /\ \A k \in 1..top - 1 : p[k] = o[k]
    BY <1>6 DEF Leaves
  <2>. HIDE DEF top, o, p, n
  <2>2. \A k \in 1..top - 1 : k \in 1..top
    BY <1>1
  <2>3. Deep(x)
    <3>1. p[1].due = <<>>
      <4>1. 1 \in 1..top - 1
        BY <1>1, <1>3
      <4>. QED
        BY <1>2, <2>1, <4>1
    <3>2. Len(p) > 1 => p[2].tag = "item"
      <4>1. Len(p) > 1 => 2 \in 1..top - 1
        BY <1>1, <2>1
      <4>. QED
        BY <1>2, <1>3, <2>1, <4>1
    <3>3. ASSUME NEW k \in 3..Len(p) PROVE p[k].tag \in {"f", "e"}
      <4>1. k \in 1..top - 1 /\ k \in 3..top
        BY <1>1, <2>1
      <4>. QED
        BY <1>2, <2>1, <4>1
    <3>4. ASSUME NEW k \in 2..Len(p), NEW i \in 1..Len(p[k].due)
          PROVE  p[k].due[i].tag \in {"f", "e"}
      <4>1. k \in 1..top - 1 /\ k \in 2..top
        BY <1>1, <2>1
      <4>. QED
        BY <1>2, <2>1, <4>1
    <3>. QED
      BY <3>1, <3>2, <3>3, <3>4 DEF Deep, p
  <2>4. CASE top = 2
    BY <1>2, <1>3, <2>1, <2>3, <2>4 DEF n, top, o, p
  <2>5. CASE top # 2
    <3>1. top \in 3..top /\ top > 2 /\ Len(p) > 1
      BY <1>1, <1>3, <2>1, <2>5
    <3>2. o[top].tag \in {"f", "e"}
      BY <1>2, <3>1
    <3>. QED
      BY <1>3, <2>1, <2>3, <3>1, <3>2 DEF n, top, o, p
  <2>. QED
    BY <2>4, <2>5
<1>. QED
  BY <1>5, <1>6

\* How many elements are open when j nodes of a value are written.
Level(v, j) == Len(Walk(v)[j].open)

\* What a node does to them.
Moves(n, before, after) ==
    after = IF n.v.t = "end" THEN before - 1
            ELSE IF n.v.t = "null" THEN before ELSE before + 1

\* The nodes of an item: its tag, fields and elements, and its end, unless the
\* tag is all of it.
LEMMA NodesFacts ==
    ASSUME NEW v \in Values
    PROVE  LET n == Nodes(v)
               m == Len(n)
           IN  /\ n \in Seq(Begins \cup Ends) /\ m \in Nat \ {0}
               /\ n[1] = Node("item", <<>>, v)
               /\ Level(v, 0) = 1 /\ Level(v, m) = 1
               /\ \A j \in 1..m - 1 : Level(v, j) \in Nat /\ Level(v, j) > 1
               /\ \A j \in 1..m : Moves(n[j], Level(v, j - 1), Level(v, j))
               /\ v.t = "null" <=> m = 1
               /\ m > 1 => n[m] = Closing("item")
               /\ \A j \in 2..m - 1 : n[j].tag \in {"f", "e"}
<1>. DEFINE w == Walk(v)  N == MaxNodes  p == Nodes(v)
<1>0. N \in Nat
  BY XmlAssumption
<1>1. w \in [0..N -> WalkState] /\ w[0] = Root(v) /\ \A i \in 1..N : w[i] = Visit(w[i - 1])
  BY WalkUnfolds
<1>2. Finished(w[N])
  BY ValuesAssumption DEF Finished
<1>3. p = w[N].done
  BY DEF Nodes
<1>4. \A i : Level(v, i) = Len(w[i].open)
  BY DEF Level
<1>. HIDE DEF w, p
<1>5. \A i \in 0..N : /\ w[i] \in WalkState /\ w[i].done \in Seq(Begins \cup Ends)
                      /\ w[i].open \in Seq(Frame) /\ Len(w[i].open) \in Nat \ {0}
  BY <1>1 DEF WalkState
<1>. DEFINE Z == {i \in 0..N : Finished(w[i])}
<1>6. PICK n \in Z : \A i \in Z : n <= i
  <2>1. N \in Z
    BY <1>0, <1>2
  <2>2. Z \in SUBSET Nat /\ Z # {}
    BY <2>1
  <2>. HIDE DEF Z
  <2>. QED
    BY <2>2, LeastOf
<1>7. n \in 0..N /\ Finished(w[n]) /\ n \in Nat
  BY <1>6
<1>8. ASSUME NEW i \in 0..n - 1 PROVE ~Finished(w[i]) /\ i \in 0..N
  <2>1. i \in 0..N /\ ~(n <= i)
    BY <1>0, <1>7
  <2>. QED
    BY <1>6, <2>1
<1>. DEFINE b == Node("item", <<>>, v)
<1>9. /\ w[0].done = <<>> /\ Len(w[0].open) = 1
      /\ w[0].open[1].due = <<b>>
  BY <1>1 DEF Root
<1>10. n # 0 /\ n >= 1
  <2>1. w[0].open[1].due # <<>>
    BY <1>9
  <2>. QED
    BY <1>7, <2>1 DEF Finished
\* One step before the walk is over.
<1>11. ASSUME NEW i \in 1..n
       PROVE  /\ Len(w[i].done) = Len(w[i - 1].done) + 1
              /\ \A j \in 1..Len(w[i - 1].done) : w[i].done[j] = w[i - 1].done[j]
              /\ Enters(w[i - 1], w[i]) \/ Leaves(w[i - 1], w[i])
  <2>1. i - 1 \in 0..n - 1 /\ i \in 1..N
    BY <1>0, <1>7
  <2>2. w[i - 1] \in WalkState /\ ~Finished(w[i - 1]) /\ w[i] = Visit(w[i - 1])
    BY <1>1, <1>5, <1>8, <2>1
  <2>. DEFINE a == w[i - 1]  z == w[i]
  <2>3. a \in WalkState /\ ~Finished(a) /\ z = Visit(a)
    BY <2>2
  <2>4. /\ Len(z.done) = Len(a.done) + 1
        /\ \A j \in 1..Len(a.done) : z.done[j] = a.done[j]
        /\ Enters(a, z) \/ Leaves(a, z)
    <3>. HIDE DEF a, z
    <3>. QED
      BY <2>3, VisitFacts, Zenon
  <2>. QED
    BY <2>4
<1>12. ASSUME NEW i \in 0..n PROVE Len(w[i].done) = i
  <2>. DEFINE G == {k \in 0..n : Len(w[k].done) = k}
  <2>1. 0 \in G
    BY <1>7, <1>9
  <2>2. ASSUME NEW k \in 0..n - 1, k \in G PROVE k + 1 \in G
    <3>1. k + 1 \in 1..n /\ (k + 1) - 1 = k /\ k + 1 \in 0..n
      BY <1>7
    <3>2. Len(w[k + 1].done) = Len(w[k].done) + 1
      BY <1>11, <3>1
    <3>. QED
      BY <2>2, <3>1, <3>2
  <2>3. \A k \in 0..n : k \in G
    <3>. HIDE DEF G
    <3>. QED
      BY <1>7, <2>1, <2>2, InductionUpTo
  <2>. QED
    BY <2>3
\* When it is over it stays as it is.
<1>13. w[N] = w[n]
  <2>. DEFINE G == {k \in 0..(N - n) : w[n + k] = w[n]}
  <2>0. N - n \in Nat
    BY <1>0, <1>7
  <2>1. 0 \in G
    <3>1. n + 0 = n
      BY <1>7
    <3>. QED
      BY <2>0, <3>1
  <2>2. ASSUME NEW k \in 0..(N - n) - 1, k \in G PROVE k + 1 \in G
    <3>1. n + (k + 1) \in 1..N /\ (n + (k + 1)) - 1 = n + k /\ k + 1 \in 0..(N - n)
      BY <1>0, <1>7
    <3>2. w[n + (k + 1)] = Visit(w[n + k])
      BY <1>1, <3>1
    <3>3. w[n + k] = w[n]
      BY <2>2
    <3>4. Visit(w[n]) = w[n]
      BY <1>5, <1>7, VisitFacts
    <3>. QED
      BY <3>1, <3>2, <3>3, <3>4
  <2>3. \A k \in 0..(N - n) : k \in G
    <3>. HIDE DEF G
    <3>. QED
      BY <2>0, <2>1, <2>2, InductionUpTo
  <2>4. N - n \in 0..(N - n) /\ n + (N - n) = N
    BY <1>0, <1>7, <2>0
  <2>. QED
    BY <2>3, <2>4
<1>14. p = w[n].done /\ p \in Seq(Begins \cup Ends) /\ Len(p) = n
  <2>1. n \in 0..n
    BY <1>7
  <2>. QED
    BY <1>3, <1>5, <1>7, <1>12, <1>13, <2>1
\* A node written stays.
<1>15. ASSUME NEW i \in 1..n PROVE p[i] = w[i].done[i]
  <2>. DEFINE G == {k \in 0..(n - i) : w[i + k].done[i] = w[i].done[i]}
  <2>0. n - i \in Nat /\ i \in Nat /\ i >= 1
    BY <1>7
  <2>1. 0 \in G
    <3>1. i + 0 = i
      BY <2>0
    <3>. QED
      BY <2>0, <3>1
  <2>2. ASSUME NEW k \in 0..(n - i) - 1, k \in G PROVE k + 1 \in G
    <3>1. /\ i + (k + 1) \in 1..n /\ (i + (k + 1)) - 1 = i + k /\ k + 1 \in 0..(n - i)
          /\ i + k \in 0..n /\ i \in 1..(i + k)
      BY <1>7, <2>0
    <3>2. Len(w[i + k].done) = i + k
      BY <1>12, <3>1
    <3>3. w[i + (k + 1)].done[i] = w[i + k].done[i]
      BY <1>11, <3>1, <3>2
    <3>. QED
      BY <2>2, <3>1, <3>3
  <2>3. \A k \in 0..(n - i) : k \in G
    <3>. HIDE DEF G
    <3>. QED
      BY <2>0, <2>1, <2>2, InductionUpTo
  <2>4. n - i \in 0..(n - i) /\ i + (n - i) = n
    BY <1>7, <2>0
  <2>. QED
    BY <1>14, <2>3, <2>4
<1>16. ASSUME NEW i \in 1..n
       PROVE  p[i] = w[i].done[Len(w[i - 1].done) + 1] /\ i - 1 \in 0..n
  <2>1. i - 1 \in 0..n /\ (i - 1) + 1 = i
    BY <1>7
  <2>. QED
    BY <1>12, <1>15, <2>1
\* The first step writes the item's tag.
<1>17. /\ p[1] = b /\ Deep(w[1])
       /\ Len(w[1].open) = IF v.t = "null" THEN 1 ELSE 2
  <2>1. 1 \in 1..n /\ 1 \in 0..N /\ 1 - 1 = 0
    BY <1>0, <1>7, <1>10
  <2>2. Enters(w[0], w[1]) /\ p[1] = w[1].done[Len(w[0].done) + 1]
    <3>1. ~Leaves(w[0], w[1])
      BY <1>9 DEF Leaves
    <3>. QED
      BY <1>11, <1>16, <2>1, <3>1
  <2>. DEFINE x == w[1]
  <2>3. /\ p[1] = b
        /\ Len(x.open) = IF p[1].v.t = "null" THEN 1 ELSE 1 + 1
        /\ x.open[1].due = Tail(<<b>>)
        /\ p[1].v.t # "null" => x.open[1 + 1].tag = p[1].tag
                                /\ x.open[1 + 1].due = Children(p[1].v)
    <3>. HIDE DEF b, x
    <3>1. <<b>>[1] = b
      OBVIOUS
    <3>. QED
      BY <1>9, <2>2, <3>1 DEF Enters, x
  <2>4. b.tag = "item" /\ b.v = v
    BY DEF Node
  <2>. HIDE DEF b
  <2>5. Len(x.open) = (IF v.t = "null" THEN 1 ELSE 2) /\ x.open[1].due = <<>>
    <3>1. Tail(<<b>>) = <<>>
      OBVIOUS
    <3>. QED
      BY <2>3, <2>4, <3>1
  <2>6. \A i \in 1..Len(Children(v)) : Children(v)[i].tag \in {"f", "e"}
    BY ChildrenFacts
  <2>7. Len(x.open) > 1 => x.open[2].tag = "item" /\ x.open[2].due = Children(v)
    BY <2>3, <2>4, <2>5
  <2>. HIDE DEF x
  <2>8. ASSUME NEW k \in 2..Len(x.open), NEW i \in 1..Len(x.open[k].due)
        PROVE  x.open[k].due[i].tag \in {"f", "e"}
    <3>1. k = 2 /\ Len(x.open) > 1
      BY <2>5
    <3>. QED
      BY <2>6, <2>7, <3>1
  <2>9. \A k \in 3..Len(x.open) : FALSE
    BY <2>5
  <2>10. Deep(x)
    BY <2>5, <2>7, <2>8, <2>9 DEF Deep
  <2>. QED
    BY <2>3, <2>5, <2>10 DEF x
\* Every other is below.
<1>18. ASSUME NEW i \in 1..n PROVE Deep(w[i])
  <2>. DEFINE G == {k \in 0..n - 1 : Deep(w[1 + k])}
  <2>0. n - 1 \in Nat
    BY <1>7, <1>10
  <2>1. 0 \in G
    BY <1>17, <2>0
  <2>2. ASSUME NEW k \in 0..(n - 1) - 1, k \in G PROVE k + 1 \in G
    <3>1. /\ 1 + (k + 1) \in 1..n /\ (1 + (k + 1)) - 1 = 1 + k /\ k + 1 \in 0..n - 1
          /\ 1 + k \in 0..n - 1 /\ 1 + (k + 1) \in 0..N
      BY <1>0, <1>7
    <3>2. Deep(w[1 + k]) /\ ~Finished(w[1 + k])
      BY <1>8, <2>2, <3>1
    <3>3. Enters(w[1 + k], w[1 + (k + 1)]) \/ Leaves(w[1 + k], w[1 + (k + 1)])
      BY <1>11, <3>1
    <3>4. w[1 + k] \in WalkState /\ w[1 + (k + 1)] \in WalkState
      BY <1>0, <1>5, <1>7, <3>1
    <3>5. Deep(w[1 + (k + 1)])
      BY ONLY <3>2, <3>3, <3>4, DeepStays
    <3>. QED
      BY <3>1, <3>5
  <2>3. \A k \in 0..n - 1 : k \in G
    <3>. HIDE DEF G
    <3>. QED
      BY <2>0, <2>1, <2>2, InductionUpTo
  <2>4. i - 1 \in 0..n - 1 /\ 1 + (i - 1) = i
    BY <1>7
  <2>. QED
    BY <2>3, <2>4
<1>19. ASSUME NEW i \in 2..n
       PROVE  \/ p[i] \in Begins /\ p[i].tag \in {"f", "e"} /\ Len(w[i].open) > 1
              \/ p[i] = Closing("item") /\ Len(w[i].open) = 1
              \/ Len(w[i].open) > 1 /\ \E tag \in {"f", "e"} : p[i] = Closing(tag)
  <2>1. i \in 1..n /\ i - 1 \in 1..n /\ i - 1 \in 0..n - 1 /\ i \in 0..N /\ i - 1 \in 0..N
    BY <1>0, <1>7
  <2>. DEFINE a == w[i - 1]  x == w[i]
  <2>2. a \in WalkState /\ x \in WalkState /\ Deep(a) /\ ~Finished(a)
        /\ (Enters(a, x) \/ Leaves(a, x)) /\ p[i] = x.done[Len(a.done) + 1]
    BY <1>5, <1>8, <1>11, <1>16, <1>18, <2>1
  <2>. HIDE DEF a, x
  <2>. DEFINE q == x.done[Len(a.done) + 1]
  <2>3. \/ q \in Begins /\ q.tag \in {"f", "e"} /\ Len(x.open) > 1
        \/ q = Closing("item") /\ Len(a.open) = 2 /\ Len(x.open) = 1
        \/ /\ Len(a.open) > 2 /\ Len(x.open) > 1
           /\ \E tag \in {"f", "e"} : q = Closing(tag)
    BY ONLY <2>2, DeepStays
  <2>. QED
    BY <2>2, <2>3 DEF x
<1>20. Len(w[n].open) = 1 /\ Len(w[0].open) = 1
  BY <1>7, <1>9 DEF Finished
<1>21. ASSUME NEW i \in 1..n - 1 PROVE Len(w[i].open) \in Nat /\ Len(w[i].open) > 1
  <2>1. i \in 1..n /\ i \in 0..n - 1 /\ i \in 0..N
    BY <1>0, <1>7
  <2>2. Deep(w[i]) /\ ~Finished(w[i]) /\ Len(w[i].open) \in Nat \ {0}
    BY <1>5, <1>8, <1>18, <2>1
  <2>3. Len(w[i].open) # 1
    BY <2>2 DEF Deep, Finished
  <2>. DEFINE k == Len(w[i].open)
  <2>4. k \in Nat \ {0} /\ k # 1
    BY <2>2, <2>3
  <2>. HIDE DEF k
  <2>5. k \in Nat /\ k > 1
    BY <2>4
  <2>. QED
    BY <2>5 DEF k
<1>22. ASSUME NEW i \in 1..n PROVE Moves(p[i], Len(w[i - 1].open), Len(w[i].open))
  <2>. DEFINE a == w[i - 1]  x == w[i]  q == x.done[Len(a.done) + 1]
  <2>1. p[i] = q /\ (Enters(a, x) \/ Leaves(a, x))
    BY <1>11, <1>16
  <2>2. CASE Enters(a, x)
    <3>1. q \in Begins /\ Len(x.open) = IF q.v.t = "null" THEN Len(a.open) ELSE Len(a.open) + 1
      BY <2>2 DEF Enters
    <3>2. q.v.t # "end"
      BY <3>1, ValueTypes DEF Begins, Types
    <3>. QED
      BY <2>1, <3>1, <3>2 DEF Moves
  <2>3. CASE Leaves(a, x)
    <3>1. q.v.t = "end" /\ Len(x.open) = Len(a.open) - 1
      BY <2>3 DEF Leaves, Closing, Node
    <3>. QED
      BY <2>1, <3>1 DEF Moves
  <2>. QED
    BY <2>1, <2>2, <2>3
<1>23. v.t = "null" <=> n = 1
  <2>1. CASE v.t = "null"
    <3>1. Finished(w[1])
      BY <1>17, <2>1 DEF Deep, Finished
    <3>2. 1 \in 0..N
      BY <1>0, <1>7, <1>10
    <3>3. n <= 1
      BY <1>6, <3>1, <3>2
    <3>. QED
      BY <1>7, <1>10, <2>1, <3>3
  <2>2. CASE v.t # "null"
    <3>1. Len(w[1].open) = 2
      BY <1>17, <2>2
    <3>2. n # 1
      BY <1>20, <3>1
    <3>. QED
      BY <2>2, <3>2
  <2>. QED
    BY <2>1, <2>2
<1>24. n > 1 => p[n] = Closing("item")
  <2>1. SUFFICES ASSUME n > 1 PROVE p[n] = Closing("item")
    OBVIOUS
  <2>2. n \in 2..n /\ n \in 1..n
    BY <1>7, <2>1
  <2>. DEFINE k == Len(w[n].open)
  <2>3. k = 1
    BY <1>20
  <2>. HIDE DEF k
  <2>4. ~(k > 1)
    BY <2>3
  <2>. QED
    BY <1>19, <2>2, <2>4 DEF k
<1>25. ASSUME NEW i \in 2..n - 1 PROVE p[i].tag \in {"f", "e"}
  <2>1. i \in 2..n /\ i \in 1..n - 1
    BY <1>7
  <2>2. \A tag : Closing(tag).tag = tag
    BY DEF Closing, Node
  <2>. DEFINE k == Len(w[i].open)
  <2>4. k \in Nat /\ k > 1
    BY <1>21, <2>1
  <2>. HIDE DEF k
  <2>5. k # 1
    BY <2>4
  <2>3. Len(w[i].open) # 1
    BY <2>5 DEF k
  <2>. QED
    BY <1>19, <2>1, <2>2, <2>3
<1>26. Level(v, 0) = 1 /\ Level(v, n) = 1
  BY <1>4, <1>20
<1>27. \A j \in 1..n - 1 : Level(v, j) \in Nat /\ Level(v, j) > 1
  BY <1>4, <1>21
<1>28. \A j \in 1..n : Moves(p[j], Level(v, j - 1), Level(v, j))
  BY <1>4, <1>22
<1>29. Len(p) = n /\ n \in Nat \ {0} /\ p \in Seq(Begins \cup Ends) /\ p[1] = b
  BY <1>7, <1>10, <1>14, <1>17
<1>30. \A j \in 2..n - 1 : p[j].tag \in {"f", "e"}
  BY <1>25
<1>. HIDE DEF b, Level, N
<1>31. /\ p \in Seq(Begins \cup Ends) /\ Len(p) \in Nat \ {0}
       /\ p[1] = b
       /\ Level(v, 0) = 1 /\ Level(v, Len(p)) = 1
       /\ \A j \in 1..Len(p) - 1 : Level(v, j) \in Nat /\ Level(v, j) > 1
       /\ \A j \in 1..Len(p) : Moves(p[j], Level(v, j - 1), Level(v, j))
       /\ v.t = "null" <=> Len(p) = 1
       /\ Len(p) > 1 => p[Len(p)] = Closing("item")
       /\ \A j \in 2..Len(p) - 1 : p[j].tag \in {"f", "e"}
  BY ONLY <1>23, <1>24, <1>26, <1>27, <1>28, <1>29, <1>30
<1>. QED
  BY <1>31 DEF p, b

-----------------------------------------------------------------------------
(***************************************************************************)
(* How the items lie on the wire.                                          *)
(***************************************************************************)
\* Every place of joined sequences is in one of them.
LEMMA Covered ==
    ASSUME NEW X, NEW parts \in Seq(Seq(X)), NEW x \in 1..Len(FlattenSeq(parts))
    PROVE  \E n \in 1..Len(parts) : Size(parts, n - 1) < x /\ x <= Size(parts, n)
<1>. DEFINE L == Len(parts)  F == Len(FlattenSeq(parts))  Z(n) == Size(parts, n)
<1>1. /\ F \in Nat /\ Z(0) = 0 /\ Z(L) = F
      /\ \A n \in 0..L : Z(n) \in Nat
  BY Flattened
<1>2. L \in Nat /\ x \in 1..F
  OBVIOUS
<1>. HIDE DEF L, F, Z
<1>. DEFINE T == {n \in 0..L : x <= Z(n)}
<1>3. L \in T
  BY <1>1, <1>2
<1>4. T \in SUBSET Nat /\ T # {}
  BY <1>3
<1>5. PICK n \in T : \A k \in T : n <= k
  <2>. HIDE DEF T
  <2>. QED
    BY <1>4, LeastOf
<1>6. n # 0
  BY <1>1, <1>2, <1>5
<1>7. n \in 1..L /\ n - 1 \in 0..L /\ n - 1 \in Nat /\ n \in Nat
  BY <1>2, <1>5, <1>6
<1>8. n - 1 \notin T
  BY <1>5, <1>7
<1>9. ~(x <= Z(n - 1)) /\ Z(n - 1) \in Nat
  BY <1>1, <1>7, <1>8
<1>10. Z(n - 1) < x /\ x <= Z(n)
  BY <1>2, <1>5, <1>9
<1>. QED
  BY <1>7, <1>10 DEF Z, L

\* The texts of the items, and of each of an item's nodes.
Elements     == [i \in DOMAIN items |-> Item(items[i])]
NodesIn(i)   == Len(Nodes(items[i]))
NodeOf(i, j) == Nodes(items[i])[j]
Pieces(i)    == [j \in DOMAIN Nodes(items[i]) |-> WriteValue(enc, NodeOf(i, j))]

\* Where the j-th node of item i begins.
Spot(i, j) == Extent(i - 1) + Size(Pieces(i), j - 1)

\* What the program runs on: fixed from the first state on.
Sending ==
    /\ enc \in Encoders /\ items \in Streams /\ dec \in Decoders
    /\ wire = Written
    /\ \E cut \in 0..Len(wire) : input = SubSeq(wire, 1, cut)
    /\ arrived = Max({0} \cup {n \in DOMAIN items : Arrived(n)})
    /\ whole = (dec \in Scanners \/ (~Truncated /\ Readable(Len(items))))

\* A node on the wire: its tag begins behind s and ends at e, its text at t.
TagLies(s, e, t, n) ==
    /\ e \in s + 2..t /\ wire[e] = Gt
    /\ wire[s + 1] = IF n.v.t = "end" THEN Close(n.tag) ELSE Open(n.tag)
    /\ \A x \in s + 2..t : x # e => wire[x].c \notin {"open", "close", "gt"}
    /\ wire[e - 1] = Slash <=> n.v.t = "null"
    /\ n.v.t \in {"end", "null"} => e = t
    /\ n.v.t = "end" => e = s + 2
    /\ n.v.t # "end" => wire[s + 2].c = "attr"
    /\ Spoilt(n) <=> \E x \in s + 1..e - 1 :
                        wire[x] = Quote /\ wire[x + 1].c \notin {"attr", "slash", "gt"}
    /\ Stained(n) <=> \E x \in s + 1..t : wire[x] = Illegal

\* What is fixed is of its type.
LEMMA SendingFacts ==
    ASSUME Sending
    PROVE  /\ items \in Seq(Values) /\ Len(items) \in Nat /\ DOMAIN items = 1..Len(items)
           /\ \A i \in 1..Len(items) : items[i] \in Values
<1>1. items \in Seq(Values)
  BY XmlAssumption DEF Sending
<1>2. \A i \in 1..Len(items) : items[i] \in Values
  BY <1>1, ElementOfSeq
<1>. QED
  BY <1>1, <1>2

\* The text of an item is what is written for its nodes.
LEMMA PiecesFacts ==
    ASSUME Sending, NEW i \in 1..Len(items)
    PROVE  /\ Pieces(i) \in Seq(Seq(Symbol)) /\ Len(Pieces(i)) = NodesIn(i)
           /\ NodesIn(i) \in Nat \ {0}
           /\ Item(items[i]) = FlattenSeq(Pieces(i))
           /\ \A j \in 1..NodesIn(i) :
                 \E e : Shape(Pieces(i)[j], NodeOf(i, j), e)
<1>. DEFINE v == items[i]  n == Nodes(v)  m == Len(n)  P == Pieces(i)
<1>1. v \in Values
  BY SendingFacts
<1>2. n \in Seq(Begins \cup Ends) /\ m \in Nat \ {0}
  <2>. HIDE DEF v
  <2>. QED
    BY <1>1, NodesFacts
<1>3. DOMAIN n = 1..m /\ \A j \in 1..m : n[j] \in Begins \cup Ends
  BY <1>2, ElementOfSeq
<1>4. P = [j \in 1..m |-> WriteValue(enc, n[j])]
  BY <1>3 DEF Pieces, NodeOf
<1>5. Item(v) = FlattenSeq(P)
  BY Zenon DEF Item, Pieces, NodeOf
<1>6. NodesIn(i) = m /\ \A j : NodeOf(i, j) = n[j]
  BY DEF NodesIn, NodeOf
<1>. HIDE DEF v, n, m, P
<1>7. ASSUME NEW j \in 1..m PROVE P[j] \in Seq(Symbol) /\ \E e : Shape(P[j], n[j], e)
  <2>1. P[j] = WriteValue(enc, n[j]) /\ n[j] \in Begins \cup Ends
    BY <1>3, <1>4
  <2>2. \E e : Shape(WriteValue(enc, n[j]), n[j], e)
    BY <2>1, NodeShape
  <2>. QED
    BY <2>1, <2>2 DEF Shape
<1>8. P \in [1..m -> Seq(Symbol)]
  BY <1>4, <1>7
<1>9. P \in Seq(Seq(Symbol)) /\ Len(P) = m
  BY <1>2, <1>8
<1>. QED
  BY <1>2, <1>5, <1>6, <1>7, <1>9 DEF P, v

\* The items one behind the other, between the two tags of the root.
LEMMA ElementsJoin ==
    ASSUME Sending
    PROVE  /\ Elements \in Seq(Seq(Symbol)) /\ Len(Elements) = Len(items)
           /\ \A i \in 1..Len(items) : Elements[i] = Item(items[i])
           /\ wire = (RootStart \o FlattenSeq(Elements)) \o RootEnd
           /\ \A n \in 0..Len(items) : Extent(n) = 4 + Size(Elements, n)
<1>. DEFINE N == Len(items)  E == Elements
<1>1. N \in Nat /\ DOMAIN items = 1..N
  BY SendingFacts
<1>2. E = [i \in 1..N |-> Item(items[i])]
  BY <1>1 DEF Elements
<1>3. wire = (RootStart \o FlattenSeq(E)) \o RootEnd
  BY Zenon DEF Sending, Written, Elements
<1>4. ASSUME NEW i \in 1..N PROVE E[i] = Item(items[i]) /\ E[i] \in Seq(Symbol)
  <2>1. Pieces(i) \in Seq(Seq(Symbol)) /\ Item(items[i]) = FlattenSeq(Pieces(i))
    BY PiecesFacts
  <2>2. FlattenSeq(Pieces(i)) \in Seq(Symbol)
    BY <2>1, Flattened
  <2>. QED
    BY <1>2, <2>1, <2>2
<1>. HIDE DEF N, E
<1>5. E \in Seq(Seq(Symbol)) /\ Len(E) = N
  <2>1. E \in [1..N -> Seq(Symbol)]
    BY <1>2, <1>4
  <2>. QED
    BY <1>1, <2>1
<1>6. Len(RootStart) = 4
  BY DEF RootStart
<1>7. ASSUME NEW n \in 0..N PROVE Extent(n) = 4 + Size(E, n)
  <2>. DEFINE t == SubSeq(E, 1, n)  u == [i \in 1..n |-> Item(items[i])]
  <2>0. n \in Nat /\ n \in 0..Len(E) /\ \A i \in 1..n : i \in 1..N
    BY <1>1, <1>5
  <2>1. Extent(n) = 4 + Len(FlattenSeq(u))
    BY <1>6, Zenon DEF Extent
  <2>2. t \in Seq(Seq(Symbol)) /\ Len(t) = n /\ \A i \in 1..n : t[i] = E[i]
    BY <1>5, <2>0, FirstPart
  <2>3. u \in [1..n -> Seq(Symbol)] /\ \A i \in 1..n : u[i] = E[i]
    BY <1>4, <2>0
  <2>. HIDE DEF t, u
  <2>4. u \in Seq(Seq(Symbol)) /\ Len(u) = n
    BY <2>0, <2>3
  <2>5. u = t
    <3>1. Len(u) = Len(t) /\ \A i \in 1..Len(u) : u[i] = t[i]
      BY <2>2, <2>3, <2>4
    <3>. QED
      BY <2>2, <2>4, <3>1, SeqEqual
  <2>. QED
    BY <2>1, <2>5 DEF Size, t
<1>. QED
  BY <1>3, <1>4, <1>5, <1>7 DEF N, E

\* A node where it is written.
LEMMA TagPlaced ==
    ASSUME NEW p, NEW n, NEW e, Shape(p, n, e), NEW s \in Nat, NEW t, t = s + Len(p),
           \A x \in 1..Len(p) : wire[s + x] = p[x]
    PROVE  TagLies(s, s + e, t, n)
<1>. DEFINE L == Len(p)  q == s + e
<1>1. /\ L \in Nat /\ e \in 2..L /\ p[e] = Gt
      /\ p[1] = IF n.v.t = "end" THEN Close(n.tag) ELSE Open(n.tag)
      /\ \A i \in 2..L : i # e => p[i].c \notin {"open", "close", "gt"}
      /\ p[e - 1] = Slash <=> n.v.t = "null"
      /\ n.v.t \in {"end", "null"} => e = L
      /\ n.v.t = "end" => e = 2
      /\ n.v.t # "end" => p[2].c = "attr"
      /\ Spoilt(n) <=> \E i \in 1..e - 1 :
                          p[i] = Quote /\ p[i + 1].c \notin {"attr", "slash", "gt"}
      /\ Stained(n) <=> \E i \in 1..L : p[i] = Illegal
  BY DEF Shape
<1>2. t = s + L /\ \A x \in 1..L : wire[s + x] = p[x]
  OBVIOUS
<1>. HIDE DEF L, q
<1>3. /\ 1 \in 1..L /\ 2 \in 1..L /\ e \in 1..L /\ e - 1 \in 1..L
      /\ q \in s + 2..t /\ q - 1 = s + (e - 1)
      /\ e = L => q = t
  <2>1. L \in Nat /\ e \in 2..L /\ t = s + L /\ s \in Nat /\ q = s + e
    BY <1>1, <1>2 DEF q
  <2>. QED
    BY ONLY <2>1
<1>4. wire[q] = Gt /\ wire[s + 1] = p[1] /\ wire[s + 2] = p[2] /\ wire[q - 1] = p[e - 1]
  BY <1>1, <1>2, <1>3 DEF q
<1>5. ASSUME NEW x \in s + 2..t, x # q PROVE wire[x].c \notin {"open", "close", "gt"}
  <2>1. x - s \in 2..L /\ x - s \in 1..L /\ x - s # e /\ x = s + (x - s)
    BY <1>1, <1>2, <1>5 DEF q
  <2>2. wire[x] = p[x - s]
    BY <1>2, <2>1
  <2>. QED
    BY <1>1, <2>1, <2>2
<1>6. Spoilt(n) <=> \E x \in s + 1..q - 1 :
                       wire[x] = Quote /\ wire[x + 1].c \notin {"attr", "slash", "gt"}
  <2>1. ASSUME NEW i \in 1..e - 1
        PROVE  s + i \in s + 1..q - 1 /\ wire[s + i] = p[i] /\ wire[(s + i) + 1] = p[i + 1]
    <3>1. i \in 1..L /\ i + 1 \in 1..L /\ s + i \in s + 1..q - 1 /\ (s + i) + 1 = s + (i + 1)
      BY <1>1 DEF q
    <3>. QED
      BY <1>2, <3>1
  <2>2. ASSUME NEW x \in s + 1..q - 1
        PROVE  x - s \in 1..e - 1 /\ s + (x - s) = x
    <3>1. e \in Int /\ s \in Nat /\ q = s + e /\ x \in s + 1..q - 1
      BY <1>1 DEF q
    <3>. QED
      BY ONLY <3>1
  <2>3. ASSUME Spoilt(n)
        PROVE  \E x \in s + 1..q - 1 :
                  wire[x] = Quote /\ wire[x + 1].c \notin {"attr", "slash", "gt"}
    <3>1. PICK i \in 1..e - 1 : p[i] = Quote /\ p[i + 1].c \notin {"attr", "slash", "gt"}
      BY <1>1, <2>3
    <3>. QED
      BY <2>1, <3>1
  <2>4. ASSUME NEW x \in s + 1..q - 1,
               wire[x] = Quote, wire[x + 1].c \notin {"attr", "slash", "gt"}
        PROVE  Spoilt(n)
    <3>1. /\ x - s \in 1..e - 1
          /\ p[x - s] = Quote /\ p[(x - s) + 1].c \notin {"attr", "slash", "gt"}
      BY <2>1, <2>2, <2>4
    <3>. QED
      BY <1>1, <3>1
  <2>. QED
    BY <2>3, <2>4
<1>7. Stained(n) <=> \E x \in s + 1..t : wire[x] = Illegal
  <2>1. ASSUME NEW i \in 1..L PROVE s + i \in s + 1..t /\ wire[s + i] = p[i]
    BY <1>1, <1>2
  <2>2. ASSUME NEW x \in s + 1..t PROVE x - s \in 1..L /\ s + (x - s) = x
    BY <1>1, <1>2
  <2>3. ASSUME Stained(n) PROVE \E x \in s + 1..t : wire[x] = Illegal
    <3>1. PICK i \in 1..L : p[i] = Illegal
      BY <1>1, <2>3
    <3>. QED
      BY <2>1, <3>1
  <2>4. ASSUME NEW x \in s + 1..t, wire[x] = Illegal PROVE Stained(n)
    <3>1. x - s \in 1..L /\ p[x - s] = Illegal
      BY <2>1, <2>2, <2>4
    <3>. QED
      BY <1>1, <3>1
  <2>. QED
    BY <2>3, <2>4
<1>8. TagLies(s, q, t, n)
  BY <1>1, <1>3, <1>4, <1>5, <1>6, <1>7 DEF TagLies
<1>. QED
  BY <1>8 DEF q

\* How the j-th node of item i lies on the wire.
Lies(i, j) ==
    /\ Spot(i, j) \in Nat /\ Spot(i, j + 1) \in Nat
    /\ Extent(i - 1) <= Spot(i, j) /\ Spot(i, j + 1) <= Extent(i)
    /\ \E e : TagLies(Spot(i, j), e, Spot(i, j + 1), NodeOf(i, j))

\* How an item lies there: its text is that of its nodes.
LaidAt(i) ==
    /\ NodesIn(i) \in Nat \ {0}
    /\ Spot(i, 1) = Extent(i - 1) /\ Spot(i, NodesIn(i) + 1) = Extent(i)
    /\ Extent(i - 1) + 2 <= Extent(i)
    /\ Item(items[i]) \in Seq(Symbol) /\ Extent(i) = Extent(i - 1) + Len(Item(items[i]))
    /\ \A x \in 1..Len(Item(items[i])) : wire[Extent(i - 1) + x] = Item(items[i])[x]
    /\ \A j \in 1..NodesIn(i) : Lies(i, j)
    /\ \A x \in Extent(i - 1) + 1..Extent(i) :
          \E j \in 1..NodesIn(i) : x \in Spot(i, j) + 1..Spot(i, j + 1)

\* The document, item behind item, and how much of it arrives.
Laid ==
    LET n == Len(items)
    IN  /\ n \in Nat /\ wire \in Seq(Symbol) /\ Len(wire) = Extent(n) + 3
        /\ Extent(0) = 4 /\ \A i \in 0..n : Extent(i) \in Nat
        /\ wire[1] = Prolog /\ wire[2] = Open("item") /\ wire[3] = Plural /\ wire[4] = Gt
        /\ wire[Extent(n) + 1] = Close("item") /\ wire[Extent(n) + 2] = Plural
        /\ wire[Extent(n) + 3] = Gt
        /\ input \in Seq(Symbol) /\ Len(input) \in Nat /\ Len(input) <= Len(wire)
        /\ \A x \in 1..Len(input) : input[x] = wire[x]
        /\ \A i \in 1..n : LaidAt(i)
        /\ \A x \in 5..Extent(n) : \E i \in 1..n : x \in Extent(i - 1) + 1..Extent(i)

\* One item.
LEMMA ItemLaid ==
    ASSUME Sending, NEW i \in 1..Len(items),
           Extent(i - 1) \in Nat, Extent(i) \in Nat,
           Extent(i) = Extent(i - 1) + Len(Item(items[i])),
           \A x \in 1..Len(Item(items[i])) : wire[Extent(i - 1) + x] = Item(items[i])[x]
    PROVE  LaidAt(i)
<1>. DEFINE P == Pieces(i)  m == NodesIn(i)  F == Item(items[i])  s == Extent(i - 1)
            Z(j) == Size(P, j)
<1>1. /\ P \in Seq(Seq(Symbol)) /\ Len(P) = m /\ m \in Nat \ {0} /\ F = FlattenSeq(P)
      /\ \A j \in 1..m : \E e : Shape(P[j], NodeOf(i, j), e)
  BY PiecesFacts
<1>2. \A j : Spot(i, j) = s + Z(j - 1)
  BY DEF Spot
<1>3. \A x \in 1..Len(F) : wire[s + x] = F[x]
  OBVIOUS
<1>4. s \in Nat /\ Extent(i) \in Nat /\ Extent(i) = s + Len(F)
  OBVIOUS
<1>. HIDE DEF P, m, F, s
<1>5. /\ F \in Seq(Symbol) /\ Len(F) \in Nat /\ Z(0) = 0 /\ Z(m) = Len(F)
      /\ \A j \in 0..m : Z(j) \in Nat /\ Z(j) <= Len(F)
      /\ \A j \in 1..m : /\ Z(j) = Z(j - 1) + Len(P[j])
                         /\ \A x \in 1..Len(P[j]) : F[Z(j - 1) + x] = P[j][x]
  <2>1. P \in Seq(Seq(Symbol)) /\ Len(P) = m /\ F = FlattenSeq(P)
    BY <1>1
  <2>2. /\ FlattenSeq(P) \in Seq(Symbol) /\ Len(FlattenSeq(P)) \in Nat
        /\ Size(P, 0) = 0 /\ Size(P, Len(P)) = Len(FlattenSeq(P))
        /\ \A n \in 0..Len(P) : /\ Size(P, n) \in Nat
                                /\ Size(P, n) <= Len(FlattenSeq(P))
        /\ \A n \in 1..Len(P) :
              /\ Size(P, n) = Size(P, n - 1) + Len(P[n])
              /\ \A j \in 1..Len(P[n]) : FlattenSeq(P)[Size(P, n - 1) + j] = P[n][j]
    BY ONLY <2>1, Flattened
  <2>. QED
    BY <2>1, <2>2
<1>5a. \A x \in 1..Len(F) : \E n \in 1..m : Z(n - 1) < x /\ x <= Z(n)
  <2>1. P \in Seq(Seq(Symbol)) /\ Len(P) = m /\ F = FlattenSeq(P)
    BY <1>1
  <2>. QED
    BY ONLY <2>1, Covered
<1>. HIDE DEF Z
<1>6. ASSUME NEW j \in 1..m PROVE Lies(i, j)
  <2>. DEFINE a == Z(j - 1)  b == Z(j)
  <2>1. j \in Nat /\ j - 1 \in 0..m /\ j \in 0..m /\ (j + 1) - 1 = j
    BY <1>1
  <2>2. Spot(i, j) = s + a /\ Spot(i, j + 1) = s + b
    BY <1>2, <2>1
  <2>3. PICK e : Shape(P[j], NodeOf(i, j), e)
    BY <1>1
  <2>4. Len(P[j]) \in Nat
    BY <2>3 DEF Shape
  <2>5. /\ a \in Nat /\ b \in Nat /\ a <= Len(F) /\ b <= Len(F) /\ b = a + Len(P[j])
        /\ \A x \in 1..Len(P[j]) : F[a + x] = P[j][x]
    BY <1>5, <2>1
  <2>. DEFINE k == Len(P[j])  l == Len(F)  g == Extent(i)
  <2>5a. /\ a \in Nat /\ b \in Nat /\ l \in Nat /\ k \in Nat /\ s \in Nat
         /\ a <= l /\ b <= l /\ b = a + k /\ g = s + l
    BY <1>4, <1>5, <2>4, <2>5
  <2>. HIDE DEF a, b, k, l, g
  <2>6. ASSUME NEW x \in 1..k PROVE wire[(s + a) + x] = P[j][x]
    <3>1. a + x \in 1..l /\ (s + a) + x = s + (a + x)
      BY ONLY <2>5a, x \in 1..k
    <3>2. \A y \in 1..l : wire[s + y] = F[y]
      BY <1>3 DEF l
    <3>3. F[a + x] = P[j][x]
      BY <2>5 DEF k
    <3>. QED
      BY <3>1, <3>2, <3>3
  <2>7. /\ s + a \in Nat /\ s + b = (s + a) + k /\ s + b \in Nat
        /\ s + b <= g /\ s <= s + a
    BY ONLY <2>5a
  <2>8. TagLies(s + a, (s + a) + e, s + b, NodeOf(i, j))
    BY <2>3, <2>6, <2>7, TagPlaced DEF k
  <2>. QED
    BY <2>2, <2>7, <2>8 DEF Lies, s, g
<1>7. Spot(i, 1) = s /\ Spot(i, m + 1) = Extent(i)
  <2>1. Spot(i, 1) = s + Z(0) /\ Spot(i, m + 1) = s + Z(m)
    <3>1. 1 - 1 = 0 /\ (m + 1) - 1 = m
      BY <1>1
    <3>. QED
      BY <1>2, <3>1
  <2>. QED
    BY <1>4, <1>5, <2>1
<1>8. s + 2 <= Extent(i)
  <2>1. 1 \in 1..m
    BY <1>1
  <2>2. Lies(i, 1)
    BY <1>6, <2>1
  <2>3. PICK e : e \in Spot(i, 1) + 2..Spot(i, 1 + 1)
    BY <2>2 DEF Lies, TagLies
  <2>4. Spot(i, 1 + 1) \in Nat /\ Spot(i, 1 + 1) <= Extent(i)
    BY <2>2 DEF Lies
  <2>. QED
    BY <1>4, <1>7, <2>3, <2>4
<1>9. ASSUME NEW x \in s + 1..Extent(i)
      PROVE  \E j \in 1..m : x \in Spot(i, j) + 1..Spot(i, j + 1)
  <2>. DEFINE y == x - s
  <2>1. y \in 1..Len(F) /\ s + y = x /\ x \in Nat
    BY <1>4, <1>5
  <2>. HIDE DEF y
  <2>2. PICK j \in 1..m : Z(j - 1) < y /\ y <= Z(j)
    BY <1>5a, <2>1
  <2>3. j \in Nat /\ j - 1 \in 0..m /\ j \in 0..m /\ (j + 1) - 1 = j
    BY <1>1
  <2>4. Spot(i, j) = s + Z(j - 1) /\ Spot(i, j + 1) = s + Z(j)
        /\ Z(j - 1) \in Nat /\ Z(j) \in Nat
    BY <1>2, <1>5, <2>3
  <2>. DEFINE a == Z(j - 1)  b == Z(j)
  <2>4a. a \in Nat /\ b \in Nat /\ a < y /\ y <= b /\ s \in Nat /\ y \in Nat
    BY <1>4, <1>5, <2>1, <2>2, <2>4
  <2>. HIDE DEF a, b
  <2>5. s + y \in (s + a) + 1..(s + b)
    BY ONLY <2>4a
  <2>. QED
    BY <2>1, <2>4, <2>5 DEF a, b
<1>10. \A j \in 1..m : Lies(i, j)
  BY <1>6
<1>11. \A x \in s + 1..Extent(i) : \E j \in 1..m : x \in Spot(i, j) + 1..Spot(i, j + 1)
  BY <1>9
<1>. QED
  BY <1>1, <1>3, <1>4, <1>5, <1>7, <1>8, <1>10, <1>11 DEF LaidAt, m, s, F

\* The whole document.
LEMMA WireLaid ==
    ASSUME Sending
    PROVE  Laid
<1>. DEFINE N == Len(items)  E == Elements  F == FlattenSeq(E)  A == RootStart  B == RootEnd
            W == (A \o F) \o B  l == Len(F)
<1>1. /\ N \in Nat /\ E \in Seq(Seq(Symbol)) /\ Len(E) = N /\ wire = W
      /\ \A i \in 1..N : E[i] = Item(items[i])
      /\ \A n \in 0..N : Extent(n) = 4 + Size(E, n)
  BY SendingFacts, ElementsJoin
<1>2. /\ A \in Seq(Symbol) /\ Len(A) = 4 /\ A[1] = Prolog /\ A[2] = Open("item")
      /\ A[3] = Plural /\ A[4] = Gt
      /\ B \in Seq(Symbol) /\ Len(B) = 3 /\ B[1] = Close("item") /\ B[2] = Plural /\ B[3] = Gt
  <2>1. /\ Open("item") \in Symbol /\ Close("item") \in Symbol /\ Gt \in Symbol
        /\ Prolog \in Symbol /\ Plural \in Symbol
    BY Symbols DEF Name
  <2>. QED
    BY <2>1 DEF RootStart, RootEnd
<1>3. /\ F \in Seq(Symbol) /\ l \in Nat /\ Size(E, 0) = 0 /\ Size(E, N) = l
      /\ \A n \in 0..N : Size(E, n) \in Nat /\ Size(E, n) <= l
      /\ \A n \in 1..N : /\ Size(E, n) = Size(E, n - 1) + Len(E[n])
                         /\ \A x \in 1..Len(E[n]) : F[Size(E, n - 1) + x] = E[n][x]
  <2>1. E \in Seq(Seq(Symbol)) /\ Len(E) = N
    BY <1>1
  <2>. HIDE DEF E, N
  <2>. QED
    BY <2>1, Flattened
<1>4. \A x \in 1..l : \E n \in 1..N : Size(E, n - 1) < x /\ x <= Size(E, n)
  <2>1. E \in Seq(Seq(Symbol)) /\ Len(E) = N
    BY <1>1
  <2>. HIDE DEF E, N
  <2>. QED
    BY <2>1, Covered
<1>5. PICK cut \in 0..Len(wire) : input = SubSeq(wire, 1, cut)
  BY DEF Sending
<1>. HIDE DEF N, E, F, A, B, l
<1>6. /\ A \o F \in Seq(Symbol) /\ Len(A \o F) = 4 + l
      /\ \A x \in 1..4 : (A \o F)[x] = A[x]
      /\ \A x \in 1..l : (A \o F)[4 + x] = F[x]
  <2>1. A \in Seq(Symbol) /\ F \in Seq(Symbol) /\ Len(A) = 4 /\ Len(F) = l
    BY <1>2, <1>3 DEF l
  <2>1a. A \in Seq(Symbol) /\ F \in Seq(Symbol)
    BY <2>1
  <2>2. /\ A \o F \in Seq(Symbol) /\ Len(A \o F) = Len(A) + Len(F)
        /\ \A x \in 1..Len(A) : (A \o F)[x] = A[x]
        /\ \A x \in 1..Len(F) : (A \o F)[Len(A) + x] = F[x]
    BY ONLY <2>1a, ConcatGrows
  <2>. QED
    BY <2>1, <2>2
<1>7. /\ wire \in Seq(Symbol) /\ Len(wire) = (4 + l) + 3
      /\ \A x \in 1..4 + l : wire[x] = (A \o F)[x]
      /\ \A x \in 1..3 : wire[(4 + l) + x] = B[x]
  <2>. DEFINE C == A \o F
  <2>1. C \in Seq(Symbol) /\ B \in Seq(Symbol) /\ Len(C) = 4 + l /\ Len(B) = 3 /\ wire = C \o B
    BY <1>1, <1>2, <1>6
  <2>. HIDE DEF C
  <2>1a. C \in Seq(Symbol) /\ B \in Seq(Symbol)
    BY <2>1
  <2>2. /\ C \o B \in Seq(Symbol) /\ Len(C \o B) = Len(C) + Len(B)
        /\ \A x \in 1..Len(C) : (C \o B)[x] = C[x]
        /\ \A x \in 1..Len(B) : (C \o B)[Len(C) + x] = B[x]
    BY ONLY <2>1a, ConcatGrows
  <2>3. /\ wire \in Seq(Symbol) /\ Len(wire) = (4 + l) + 3
        /\ \A x \in 1..4 + l : wire[x] = C[x]
        /\ \A x \in 1..3 : wire[(4 + l) + x] = B[x]
    BY <2>1, <2>2
  <2>. QED
    BY <2>3 DEF C
<1>8. /\ Extent(0) = 4 /\ Extent(N) = 4 + l /\ \A n \in 0..N : Extent(n) \in Nat
  <2>1. 0 \in 0..N /\ N \in 0..N
    BY <1>1
  <2>. QED
    BY <1>1, <1>3, <2>1
<1>9. /\ \A x \in 1..4 : wire[x] = A[x]
      /\ \A x \in 1..l : wire[4 + x] = F[x]
  <2>1. \A x \in 1..4 : x \in 1..4 + l
    BY <1>3
  <2>2. \A x \in 1..l : 4 + x \in 1..4 + l
    BY <1>3
  <2>. QED
    BY <1>6, <1>7, <2>1, <2>2
<1>10. /\ wire[1] = Prolog /\ wire[2] = Open("item") /\ wire[3] = Plural /\ wire[4] = Gt
       /\ wire[Extent(N) + 1] = Close("item") /\ wire[Extent(N) + 2] = Plural
       /\ wire[Extent(N) + 3] = Gt
  <2>1. 1 \in 1..3 /\ 2 \in 1..3 /\ 3 \in 1..3 /\ 1 \in 1..4 /\ 2 \in 1..4 /\ 3 \in 1..4 /\ 4 \in 1..4
    OBVIOUS
  <2>. QED
    BY <1>2, <1>7, <1>8, <1>9, <2>1
<1>11. /\ input \in Seq(Symbol) /\ Len(input) \in Nat /\ Len(input) <= Len(wire)
       /\ \A x \in 1..Len(input) : input[x] = wire[x]
  <2>1. wire \in Seq(Symbol) /\ cut \in 0..Len(wire) /\ input = SubSeq(wire, 1, cut)
    BY <1>5, <1>7
  <2>2. input \in Seq(Symbol) /\ Len(input) = cut /\ \A x \in 1..cut : input[x] = wire[x]
    BY ONLY <2>1, FirstPart
  <2>. QED
    BY <1>3, <1>7, <2>1, <2>2
<1>12. ASSUME NEW i \in 1..N PROVE LaidAt(i)
  <2>. DEFINE c == Item(items[i])  z == Size(E, i - 1)
  <2>1. i - 1 \in 0..N /\ i \in 0..N /\ i \in 1..Len(items)
    BY <1>1 DEF N
  <2>2. /\ Extent(i - 1) = 4 + z /\ z \in Nat /\ Extent(i) = 4 + (z + Len(c))
        /\ z + Len(c) \in Nat /\ z + Len(c) <= l
        /\ \A x \in 1..Len(c) : F[z + x] = c[x]
    BY <1>1, <1>3, <2>1
  <2>3. Len(c) \in Nat
    <3>1. c \in Seq(Symbol)
      <4>1. Pieces(i) \in Seq(Seq(Symbol)) /\ c = FlattenSeq(Pieces(i))
        BY <2>1, PiecesFacts
      <4>2. FlattenSeq(Pieces(i)) \in Seq(Symbol)
        BY <4>1, Flattened
      <4>. QED
        BY <4>1, <4>2
    <3>. QED
      BY <3>1
  <2>. HIDE DEF c, z
  <2>4. Extent(i - 1) \in Nat /\ Extent(i) \in Nat /\ Extent(i) = Extent(i - 1) + Len(c)
    BY <2>2, <2>3
  <2>5. ASSUME NEW x \in 1..Len(c) PROVE wire[Extent(i - 1) + x] = c[x]
    <3>1. z + x \in 1..l /\ Extent(i - 1) + x = 4 + (z + x)
      BY <1>3, <2>2, <2>3
    <3>. QED
      BY <1>9, <2>2, <3>1
  <2>. QED
    BY <2>1, <2>4, <2>5, ItemLaid DEF c
<1>13. ASSUME NEW x \in 5..Extent(N) PROVE \E i \in 1..N : x \in Extent(i - 1) + 1..Extent(i)
  <2>1. x - 4 \in 1..l /\ x \in Nat
    BY <1>3, <1>8
  <2>2. PICK i \in 1..N : Size(E, i - 1) < x - 4 /\ x - 4 <= Size(E, i)
    BY <1>4, <2>1
  <2>3. i - 1 \in 0..N /\ i \in 0..N
    BY <1>1
  <2>4. /\ Extent(i - 1) = 4 + Size(E, i - 1) /\ Size(E, i - 1) \in Nat
        /\ Extent(i) = 4 + Size(E, i) /\ Size(E, i) \in Nat
    BY <1>1, <1>3, <2>3
  <2>5. x \in Extent(i - 1) + 1..Extent(i)
    BY <2>1, <2>2, <2>4
  <2>. QED
    BY <2>5
<1>14. Len(wire) = Extent(N) + 3
  BY <1>3, <1>7, <1>8
<1>. QED
  BY <1>1, <1>7, <1>8, <1>10, <1>11, <1>12, <1>13, <1>14 DEF Laid, N

\* The nodes of an item, by their place.
LEMMA NodeFacts ==
    ASSUME Sending, NEW i \in 1..Len(items)
    PROVE  LET m == NodesIn(i)
               v == items[i]
           IN  /\ m \in Nat \ {0}
               /\ NodeOf(i, 1).tag = "item" /\ NodeOf(i, 1).v = v /\ v.t # "end"
               /\ Level(v, 0) = 1 /\ Level(v, m) = 1
               /\ \A j \in 1..m - 1 : Level(v, j) \in Nat /\ Level(v, j) > 1
               /\ \A j \in 1..m : Moves(NodeOf(i, j), Level(v, j - 1), Level(v, j))
               /\ v.t = "null" <=> m = 1
               /\ m > 1 => NodeOf(i, m).tag = "item" /\ NodeOf(i, m).v.t = "end"
               /\ \A j \in 2..m - 1 : NodeOf(i, j).tag \in {"f", "e"}
<1>. DEFINE v == items[i]  n == Nodes(v)  m == Len(n)
<1>1. v \in Values
  BY SendingFacts
<1>2. /\ m \in Nat \ {0} /\ n[1] = Node("item", <<>>, v)
      /\ Level(v, 0) = 1 /\ Level(v, m) = 1
      /\ \A j \in 1..m - 1 : Level(v, j) \in Nat /\ Level(v, j) > 1
      /\ \A j \in 1..m : Moves(n[j], Level(v, j - 1), Level(v, j))
      /\ v.t = "null" <=> m = 1
      /\ m > 1 => n[m] = Closing("item")
      /\ \A j \in 2..m - 1 : n[j].tag \in {"f", "e"}
  <2>. HIDE DEF v
  <2>. QED
    BY <1>1, NodesFacts
<1>3. NodesIn(i) = m /\ \A j : NodeOf(i, j) = n[j]
  BY DEF NodesIn, NodeOf
<1>4. v.t # "end"
  BY <1>1, ValueTypes DEF Types
<1>. HIDE DEF v, n, m
<1>5. n[1].tag = "item" /\ n[1].v = v
  BY <1>2 DEF Node
<1>6. Closing("item").tag = "item" /\ Closing("item").v.t = "end"
  BY DEF Closing, Node
<1>. QED
  BY <1>2, <1>3, <1>4, <1>5, <1>6 DEF v

\* More items take no less room.
LEMMA ExtentGrows ==
    ASSUME Laid, NEW m \in 0..Len(items), NEW n \in m..Len(items)
    PROVE  Extent(m) <= Extent(n)
<1>. DEFINE N == Len(items)  E == [i \in 0..N |-> Extent(i)]
<1>1. /\ N \in Nat /\ \A i \in 0..N : E[i] \in Nat
      /\ \A i \in 1..N : E[i - 1] + 2 <= E[i]
  <2>1. N \in Nat /\ \A i \in 0..N : Extent(i) \in Nat
    BY DEF Laid
  <2>2. \A i \in 1..N : Extent(i - 1) + 2 <= Extent(i)
    BY DEF Laid, LaidAt
  <2>3. ASSUME NEW i \in 1..N PROVE i - 1 \in 0..N /\ i \in 0..N
    BY <2>1
  <2>. QED
    BY <2>1, <2>2, <2>3
<1>2. m \in 0..N /\ n \in m..N /\ E[m] = Extent(m) /\ E[n] = Extent(n)
  BY <1>1
<1>. HIDE DEF E, N
<1>. DEFINE S == {i \in 0..N : i < m \/ E[m] <= E[i]}
<1>3. ASSUME NEW i \in 0..n - 1, i \in S PROVE i + 1 \in S
  <2>1. i + 1 \in 1..N /\ (i + 1) - 1 = i /\ i \in 0..N /\ i + 1 \in 0..N
    BY <1>1, <1>2
  <2>2. E[i] + 2 <= E[i + 1] /\ E[i] \in Nat /\ E[i + 1] \in Nat /\ E[m] \in Nat
    BY <1>1, <1>2, <2>1
  <2>3. i < m \/ E[m] <= E[i]
    BY <1>3
  <2>4. i + 1 < m \/ i + 1 = m \/ E[m] <= E[i]
    BY <1>2, <2>1, <2>3
  <2>5. i + 1 < m \/ E[m] <= E[i + 1]
    BY <2>2, <2>4
  <2>. QED
    BY <2>1, <2>5
<1>4. 0 \in S
  BY <1>1, <1>2
<1>. HIDE DEF S
<1>5. n \in S
  <2>1. n \in Nat /\ n \in 0..n
    BY <1>1, <1>2
  <2>2. \A i \in 0..n : i \in S
    BY <1>3, <1>4, <2>1, InductionUpTo
  <2>. QED
    BY <2>1, <2>2
<1>. QED
  BY <1>2, <1>5 DEF S

\* The symbols that tell tags apart.
LEMMA Signs ==
    /\ \A tag : Open(tag).c = "open" /\ Close(tag).c = "close"
                /\ Open(tag).v = tag /\ Close(tag).v = tag
    /\ Gt.c = "gt" /\ Slash.c = "slash" /\ Plural.c = "plural" /\ Prolog.c = "prolog"
    /\ Quote.c = "raw" /\ Illegal.c = "raw"
BY DEF Open, Close, Gt, Slash, Plural, Prolog, Quote, Illegal, Raw, Sym

\* A place inside an item is in one of its nodes; where a tag begins, the node
\* does, and the tag of the item stands at the first and at the last.
LEMMA TagsInside ==
    ASSUME Sending, Laid, NEW i \in 1..Len(items), NEW x \in Extent(i - 1) + 1..Extent(i)
    PROVE  /\ wire[x] = Open("item") => x = Extent(i - 1) + 1
           /\ wire[x] = Close("item") => NodesIn(i) > 1 /\ x = Spot(i, NodesIn(i)) + 1
<1>. DEFINE m == NodesIn(i)
<1>1. LaidAt(i)
  BY DEF Laid
<1>2. PICK j \in 1..m : x \in Spot(i, j) + 1..Spot(i, j + 1)
  BY <1>1 DEF LaidAt
<1>. DEFINE s == Spot(i, j)  t == Spot(i, j + 1)  n == NodeOf(i, j)
<1>3. s \in Nat /\ t \in Nat /\ \E e : TagLies(s, e, t, n)
  BY <1>1 DEF LaidAt, Lies
<1>4. PICK e : TagLies(s, e, t, n)
  BY <1>3
<1>5. /\ e \in s + 2..t /\ wire[e] = Gt
      /\ wire[s + 1] = IF n.v.t = "end" THEN Close(n.tag) ELSE Open(n.tag)
      /\ \A y \in s + 2..t : y # e => wire[y].c \notin {"open", "close", "gt"}
  BY <1>4 DEF TagLies
<1>6. /\ m \in Nat \ {0} /\ NodeOf(i, 1).v.t # "end"
      /\ m > 1 => NodeOf(i, m).v.t = "end"
      /\ \A k \in 2..m - 1 : NodeOf(i, k).tag \in {"f", "e"}
  BY NodeFacts
<1>7. Spot(i, 1) = Extent(i - 1)
  BY <1>1 DEF LaidAt
<1>8. ASSUME wire[x].c \in {"open", "close"} PROVE x = s + 1
  <2>. SUFFICES ASSUME x # s + 1 PROVE FALSE
    OBVIOUS
  <2>1. x \in s + 2..t
    <3>1. x \in s + 1..t /\ s \in Nat /\ t \in Nat /\ x # s + 1
      BY <1>2, <1>3
    <3>. HIDE DEF s, t
    <3>. QED
      BY ONLY <3>1
  <2>2. x = e
    BY <1>5, <1>8, <2>1
  <2>. QED
    BY <1>5, <1>8, <2>2, Signs
<1>9. ASSUME n.tag = "item" PROVE j = 1 \/ j = m
  <2>1. ~(n.tag \in {"f", "e"})
    BY <1>9
  <2>2. j \notin 2..m - 1
    BY <1>6, <2>1
  <2>. HIDE DEF m
  <2>. QED
    BY <1>6, <2>2
<1>10. ASSUME wire[x] = Open("item") PROVE x = Extent(i - 1) + 1
  <2>1. x = s + 1
    BY <1>8, <1>10, Signs
  <2>2. n.v.t # "end" /\ n.tag = "item"
    BY <1>5, <1>10, <2>1, Signs
  <2>3. j = 1 \/ j = m
    BY <1>9, <2>2
  <2>4. m = 1 \/ j # m
    BY <1>6, <2>2
  <2>. QED
    BY <1>7, <2>1, <2>3, <2>4
<1>11. ASSUME wire[x] = Close("item") PROVE m > 1 /\ x = Spot(i, m) + 1
  <2>1. x = s + 1
    BY <1>8, <1>11, Signs
  <2>2. n.v.t = "end" /\ n.tag = "item"
    BY <1>5, <1>11, <2>1, Signs
  <2>3. j # 1
    BY <1>6, <2>2
  <2>4. j = m /\ m > 1
    BY <1>6, <1>9, <2>2, <2>3
  <2>. QED
    BY <2>1, <2>4
<1>. QED
  BY <1>10, <1>11

\* The first tag of an item ends it, or it ends with the next closing tag of
\* its name.
EndsAt(i, g) ==
    LET s == Extent(i - 1)
        t == Extent(i)
    IN  /\ g \in s + 2..t /\ wire[g] = Gt
        /\ \A x \in s + 1..g - 1 : wire[x] # Gt
        /\ wire[g - 1] = Slash => g = t
        /\ wire[g - 1] # Slash =>
              /\ g + 2 <= t /\ wire[t] = Gt /\ wire[t - 1] = Close("item")
              /\ \A x \in g + 1..t - 1 : ~(wire[x] = Gt /\ wire[x - 1] = Close("item"))

\* Every item has such an end.
LEMMA ItemEnds ==
    ASSUME Sending, Laid, NEW i \in 1..Len(items)
    PROVE  \E g : EndsAt(i, g)
<1>. DEFINE m == NodesIn(i)  s == Extent(i - 1)  t == Extent(i)  q == Spot(i, 2)
            n == NodeOf(i, 1)  z == Spot(i, m)
<1>1. /\ LaidAt(i) /\ m \in Nat \ {0} /\ Spot(i, 1) = s /\ Spot(i, m + 1) = t
      /\ \A j \in 1..m : Lies(i, j)
  BY DEF Laid, LaidAt
<1>2. s \in Nat /\ t \in Nat
  <2>1. i - 1 \in 0..Len(items) /\ i \in 0..Len(items)
    BY DEF Laid
  <2>. QED
    BY <2>1 DEF Laid
<1>3. /\ n.tag = "item" /\ n.v.t # "end"
      /\ n.v.t = "null" <=> m = 1
      /\ m > 1 => NodeOf(i, m).tag = "item" /\ NodeOf(i, m).v.t = "end"
  BY NodeFacts
<1>4. q \in Nat /\ q <= t /\ \E e : TagLies(s, e, q, n)
  <2>1. 1 \in 1..m /\ 1 + 1 = 2
    BY <1>1
  <2>. QED
    BY <1>1, <2>1 DEF Lies
<1>5. PICK g : TagLies(s, g, q, n)
  BY <1>4
<1>6. /\ g \in s + 2..q /\ wire[g] = Gt /\ wire[s + 1] = Open("item")
      /\ \A x \in s + 2..q : x # g => wire[x].c \notin {"open", "close", "gt"}
      /\ wire[g - 1] = Slash <=> n.v.t = "null"
      /\ n.v.t = "null" => g = q
  BY <1>3, <1>5 DEF TagLies
<1>. HIDE DEF s, t, q, n, m
<1>7. ASSUME NEW x \in s + 1..g - 1 PROVE wire[x].c \notin {"gt", "close"}
  <2>1. x = s + 1 \/ (x \in s + 2..q /\ x # g)
    BY <1>2, <1>4, <1>6
  <2>. QED
    BY <1>6, <2>1, Signs
<1>8. g \in s + 2..t
  BY <1>2, <1>4, <1>6
<1>9. CASE n.v.t = "null"
  <2>1. m = 1 /\ g = q
    BY <1>3, <1>6, <1>9
  <2>2. q = t
    BY <1>1, <2>1 DEF q
  <2>3. wire[g - 1] = Slash /\ g = t
    BY <1>6, <1>9, <2>1, <2>2
  <2>4. \A x \in s + 1..g - 1 : wire[x] # Gt
    BY <1>7, Signs
  <2>5. EndsAt(i, g)
    BY <1>6, <1>8, <2>3, <2>4 DEF EndsAt, s, t
  <2>. QED
    BY <2>5
<1>10. CASE n.v.t # "null"
  <2>1. m > 1 /\ m \in 1..m
    BY <1>1, <1>3, <1>10
  <2>2. PICK e : TagLies(z, e, t, NodeOf(i, m))
    BY <1>1, <2>1 DEF Lies
  <2>3. z \in Nat /\ s <= z
    BY <1>1, <2>1 DEF Lies, s
  <2>4. /\ NodeOf(i, m).v.t = "end" /\ NodeOf(i, m).tag = "item"
    BY <1>3, <2>1
  <2>5. /\ e \in z + 2..t /\ e = t /\ t = z + 2 /\ wire[e] = Gt /\ wire[z + 1] = Close("item")
        /\ \A x \in z + 2..t : x # e => wire[x].c \notin {"open", "close", "gt"}
    BY <2>2, <2>4 DEF TagLies
  <2>. HIDE DEF z
  \* No other closing tag of the name.
  <2>6. ASSUME NEW x \in s + 1..t, wire[x] = Close("item") PROVE x = z + 1
    <3>1. x \in Extent(i - 1) + 1..Extent(i)
      BY DEF s, t
    <3>. QED
      BY <2>6, <3>1, TagsInside DEF z, m
  <2>7. ASSUME NEW x \in g + 1..t - 1, wire[x] = Gt, wire[x - 1] = Close("item")
        PROVE  x = z + 2
    <3>1. x - 1 \in s + 1..t
      BY <1>2, <1>8
    <3>2. x - 1 = z + 1
      BY <2>6, <2>7, <3>1
    <3>. QED
      BY <1>2, <1>8, <2>3, <3>2
  \* The end follows the tag's name at once.
  <2>8. wire[g - 1] # Slash
    BY <1>6, <1>10
  <2>9. g < z + 1
    <3>1. z + 1 \notin s + 1..g - 1
      BY <1>7, <2>5, Signs
    <3>2. z + 1 # g
      BY <1>6, <2>5, Signs
    <3>. QED
      BY <1>2, <1>8, <2>3, <3>1, <3>2
  <2>10. g + 2 <= t
    BY <1>2, <1>8, <2>3, <2>5, <2>9
  <2>11. ASSUME NEW x \in g + 1..t - 1, wire[x] = Gt, wire[x - 1] = Close("item") PROVE FALSE
    <3>1. x = z + 2
      BY <2>7, <2>11
    <3>2. x \in z + 2..t /\ x # e
      BY <1>2, <1>8, <2>3, <2>5, <3>1
    <3>. QED
      BY <2>5, <2>11, <3>2, Signs
  <2>12. wire[t - 1] = Close("item")
    <3>1. t - 1 = z + 1
      BY <1>2, <2>3, <2>5
    <3>. QED
      BY <2>5, <3>1
  <2>13. \A x \in s + 1..g - 1 : wire[x] # Gt
    BY <1>7, Signs
  <2>14. EndsAt(i, g)
    BY <1>6, <1>8, <2>5, <2>8, <2>10, <2>11, <2>12, <2>13 DEF EndsAt, s, t
  <2>. QED
    BY <2>14
<1>. QED
  BY <1>9, <1>10

\* The tags an item begins with, and no others begin like them.
LEMMA StartOf ==
    ASSUME Sending, Laid, NEW i \in 1..Len(items)
    PROVE  wire[Extent(i - 1) + 1] = Open("item") /\ wire[Extent(i - 1) + 2].c = "attr"
<1>. DEFINE m == NodesIn(i)  s == Extent(i - 1)  n == NodeOf(i, 1)
<1>1. /\ m \in Nat \ {0} /\ Spot(i, 1) = s /\ \A j \in 1..m : Lies(i, j)
  BY DEF Laid, LaidAt
<1>2. n.tag = "item" /\ n.v.t # "end"
  BY NodeFacts
<1>3. PICK e : TagLies(s, e, Spot(i, 1 + 1), n)
  <2>1. 1 \in 1..m
    BY <1>1
  <2>. QED
    BY <1>1, <2>1 DEF Lies
<1>. QED
  BY <1>2, <1>3 DEF TagLies

\* Nothing but an item begins like one: neither the root's tag nor what lies
\* inside an item does.
LEMMA StartsAt ==
    ASSUME Sending, Laid, NEW x \in 1..Len(wire) - 1,
           wire[x] = Open("item"), wire[x + 1].c \in {"attr", "gt", "slash"}
    PROVE  \E i \in 1..Len(items) : x = Extent(i - 1) + 1
<1>. DEFINE N == Len(items)  E == Extent(N)
<1>1. /\ N \in Nat /\ E \in Nat /\ Len(wire) = E + 3
      /\ wire[1] = Prolog /\ wire[3] = Plural /\ wire[4] = Gt
      /\ wire[E + 1] = Close("item") /\ wire[E + 2] = Plural
      /\ \A y \in 5..E : \E i \in 1..N : y \in Extent(i - 1) + 1..Extent(i)
  BY DEF Laid
<1>2. x # 1 /\ x # 3 /\ x # 4 /\ x # E + 1 /\ x # E + 2
  BY <1>1, Signs
<1>3. x # 2
  <2>1. 2 + 1 = 3
    OBVIOUS
  <2>. QED
    BY <1>1, <2>1, Signs
<1>4. x \in 5..E
  <2>1. x \in 1..(E + 3) - 1
    BY <1>1
  <2>. HIDE DEF E, N
  <2>. QED
    BY <1>1, <1>2, <1>3, <2>1
<1>5. PICK i \in 1..N : x \in Extent(i - 1) + 1..Extent(i)
  BY <1>1, <1>4
<1>. QED
  BY <1>5, TagsInside

\* An item is malformed when one of its tags is, or what XML forbids stands in
\* its text.
LEMMA MalformedIs ==
    ASSUME Sending, Laid, NEW i \in 1..Len(items)
    PROVE  Malformed(items[i]) <=>
              \/ \E j \in 1..NodesIn(i) : Spoilt(NodeOf(i, j))
              \/ \E x \in Extent(i - 1) + 1..Extent(i) : wire[x] = Illegal
<1>. DEFINE v == items[i]  n == Nodes(v)  m == Len(n)
<1>1. v \in Values
  BY SendingFacts
<1>2. DOMAIN n = 1..m
  <2>. HIDE DEF v
  <2>1. n \in Seq(Begins \cup Ends)
    BY <1>1, NodesFacts
  <2>. QED
    BY <2>1
<1>3. NodesIn(i) = m /\ \A j : NodeOf(i, j) = n[j]
  BY DEF NodesIn, NodeOf
<1>4. Begun(v) = {a \in {n[j] : j \in DOMAIN n} : a.v.t # "end"}
  BY DEF Begun, Range
<1>5. Malformed(v) <=> \E a \in Begun(v) :
                          \/ a.tag = "f" /\ (Unquoted(a.key) \/ Foul(a.key))
                          \/ IsScalar(a.v) /\ "illegal" \in Range(a.v.text)
  BY DEF Malformed
<1>. HIDE DEF v, n, m
<1>6. ASSUME Malformed(v) PROVE \E j \in 1..m : Spoilt(n[j]) \/ Stained(n[j])
  <2>1. PICK a \in Begun(v) : \/ a.tag = "f" /\ (Unquoted(a.key) \/ Foul(a.key))
                              \/ IsScalar(a.v) /\ "illegal" \in Range(a.v.text)
    BY <1>5, <1>6
  <2>2. PICK j \in DOMAIN n : a = n[j]
    BY <1>4, <2>1
  <2>. QED
    BY <1>2, <1>4, <2>1, <2>2 DEF Spoilt, Stained, FoulKey, FoulText
<1>7. ASSUME NEW j \in 1..m, Spoilt(n[j]) \/ Stained(n[j]) PROVE Malformed(v)
  <2>1. n[j] \in Begun(v)
    BY <1>2, <1>4, <1>7 DEF Spoilt, Stained, FoulKey, FoulText, IsScalar
  <2>. QED
    BY <1>5, <1>7, <2>1 DEF Spoilt, Stained, FoulKey, FoulText
\* What is forbidden stands where one of the nodes does.
<1>8. LaidAt(i)
  BY DEF Laid
<1>9. ASSUME NEW j \in 1..m, Stained(n[j])
      PROVE  \E x \in Extent(i - 1) + 1..Extent(i) : wire[x] = Illegal
  <2>1. /\ Spot(i, j) \in Nat /\ Spot(i, j + 1) \in Nat
        /\ Extent(i - 1) <= Spot(i, j) /\ Spot(i, j + 1) <= Extent(i)
        /\ \E e : TagLies(Spot(i, j), e, Spot(i, j + 1), n[j])
    BY <1>3, <1>8 DEF LaidAt, Lies
  <2>2. PICK x \in Spot(i, j) + 1..Spot(i, j + 1) : wire[x] = Illegal
    BY <1>9, <2>1 DEF TagLies
  <2>3. Extent(i - 1) \in Nat /\ Extent(i) \in Nat
    BY DEF Laid
  <2>4. x \in Extent(i - 1) + 1..Extent(i)
    BY <2>1, <2>3
  <2>. QED
    BY <2>2, <2>4
<1>10. ASSUME NEW x \in Extent(i - 1) + 1..Extent(i), wire[x] = Illegal
       PROVE  \E j \in 1..m : Stained(n[j])
  <2>1. PICK j \in 1..m : x \in Spot(i, j) + 1..Spot(i, j + 1)
    BY <1>3, <1>8 DEF LaidAt
  <2>2. \E e : TagLies(Spot(i, j), e, Spot(i, j + 1), n[j])
    BY <1>3, <1>8 DEF LaidAt, Lies
  <2>. QED
    BY <1>10, <2>1, <2>2 DEF TagLies
<1>. QED
  BY <1>3, <1>6, <1>7, <1>9, <1>10 DEF v

\* The first of some places.
LEMMA FirstIs ==
    ASSUME NEW S \in SUBSET Int, NEW m \in S, \A k \in S : m <= k
    PROVE  First(S) = m
<1>1. First(S) = Min(S)
  BY DEF First
<1>2. Min(S) = CHOOSE x \in S : \A y \in S : x <= y
  BY Zenon DEF Min
<1>3. Min(S) \in S /\ \A y \in S : Min(S) <= y
  BY <1>2
<1>4. Min(S) \in Int /\ m \in Int /\ m <= Min(S) /\ Min(S) <= m
  BY <1>3
<1>5. Min(S) = m
  BY ONLY <1>4
<1>. QED
  BY <1>1, <1>5

\* The first of no positions.
LEMMA FirstNone ==
    ASSUME NEW S, S = {}
    PROVE  First(S) = 0
BY DEF First

-----------------------------------------------------------------------------
(***************************************************************************)
(* What Node and Rust hold.                                                *)
(***************************************************************************)
\* What was taken is gone, with all before it.
Base == IF Len(taken) = 0 THEN 0 ELSE Extent(Len(taken))
Held ==
    /\ Base <= read /\ buf \in Seq(Symbol) /\ Len(buf) = read - Base
    /\ \A x \in 1..Len(buf) : buf[x] = wire[Base + x]

\* How many items are handed over, and that they arrived.
Counted ==
    /\ Len(taken) \in 0..Len(items) /\ read \in 0..Len(input)
    /\ Len(taken) > 0 => Extent(Len(taken)) <= read

\* Where the next item ends.
LEMMA ItemEndIs ==
    ASSUME Sending, Laid, Counted, Held, NEW i \in 1..Len(items), Len(taken) = i - 1,
           NEW s \in 1..Len(buf), s + Base = Extent(i - 1) + 1
    PROVE  ItemEnd(buf, s) = IF Extent(i) <= read THEN Extent(i) - Base ELSE 0
<1>. DEFINE o == Base  L == Len(buf)  a == Extent(i - 1)  t == Extent(i)
<1>1. a \in Nat /\ t \in Nat
  <2>1. i - 1 \in 0..Len(items) /\ i \in 0..Len(items)
    BY DEF Laid
  <2>. QED
    BY <2>1 DEF Laid
<1>2. /\ o \in Nat /\ L \in Nat /\ L = read - o /\ read \in Nat /\ s \in 1..L /\ s + o = a + 1
      /\ \A x \in 1..L : buf[x] = wire[o + x]
  <2>1. o \in Nat
    BY <1>1 DEF Base
  <2>. QED
    BY <2>1 DEF Held, Counted, Laid
<1>3. PICK g : EndsAt(i, g)
  BY ItemEnds
<1>4. /\ g \in a + 2..t /\ wire[g] = Gt
      /\ \A x \in a + 1..g - 1 : wire[x] # Gt
      /\ wire[g - 1] = Slash => g = t
      /\ wire[g - 1] # Slash =>
            /\ g + 2 <= t /\ wire[t] = Gt /\ wire[t - 1] = Close("item")
            /\ \A x \in g + 1..t - 1 : ~(wire[x] = Gt /\ wire[x - 1] = Close("item"))
  BY <1>3 DEF EndsAt
<1>. DEFINE S == {x \in s..L : buf[x] = Gt}  h == First(S)
            R(k) == {x \in k + 1..L : ClosesItem(buf, x)}
<1>5. ItemEnd(buf, s) = IF h = 0 THEN 0 ELSE IF buf[h - 1] = Slash THEN h ELSE First(R(h))
  BY Zenon DEF ItemEnd
<1>6. ASSUME NEW x \in 1..L PROVE buf[x] = wire[o + x] /\ o + x \in Nat /\ o + x <= read
  BY <1>2
<1>. HIDE DEF o, L, a, t
<1>7. CASE g <= read
  <2>. DEFINE q == g - o
  <2>1. q \in s + 1..L /\ q \in 1..L /\ q - 1 \in 1..L /\ o + q = g /\ o + (q - 1) = g - 1
        /\ q \in Int
    BY <1>1, <1>2, <1>4, <1>7
  <2>. HIDE DEF q
  <2>2. q \in S
    BY <1>2, <1>4, <1>6, <2>1
  <2>3. ASSUME NEW x \in S PROVE q <= x
    <3>. SUFFICES ASSUME x < q PROVE FALSE
      BY <1>2, <2>1
    <3>1. x \in 1..L /\ o + x \in a + 1..g - 1
      BY <1>1, <1>2, <1>4, <2>1
    <3>. QED
      BY <1>4, <1>6, <3>1
  <2>4. h = q
    <3>1. S \in SUBSET Int
      BY <1>2
    <3>. HIDE DEF S
    <3>. QED
      BY <2>2, <2>3, <3>1, FirstIs
  <2>5. h # 0 /\ buf[h - 1] = wire[g - 1]
    BY <1>2, <1>6, <2>1, <2>4
  <2>. HIDE DEF S, h
  <2>6. CASE wire[g - 1] = Slash
    <3>1. ItemEnd(buf, s) = h /\ g = t
      BY <1>4, <1>5, <2>5, <2>6
    <3>2. t <= read /\ h = t - o
      BY <1>7, <2>4, <3>1 DEF q
    <3>. QED
      BY <3>1, <3>2 DEF t, o
  <2>7. CASE wire[g - 1] # Slash
    <3>1. ItemEnd(buf, s) = First(R(q))
      BY <1>5, <2>4, <2>5, <2>7
    <3>2. /\ g + 2 <= t /\ wire[t] = Gt /\ wire[t - 1] = Close("item")
          /\ \A x \in g + 1..t - 1 : ~(wire[x] = Gt /\ wire[x - 1] = Close("item"))
      BY <1>4, <2>7
    \* A closing tag in the text held is one on the wire.
    <3>3. ASSUME NEW x \in q + 1..L
          PROVE  /\ ClosesItem(buf, x) <=> wire[o + x] = Gt /\ wire[(o + x) - 1] = Close("item")
                 /\ o + x \in g + 1..read
      <4>1. x \in 1..L /\ x - 1 \in 1..L /\ o + (x - 1) = (o + x) - 1 /\ o + x \in g + 1..read
        BY <1>1, <1>2, <1>4, <2>1
      <4>. QED
        BY <1>6, <4>1 DEF ClosesItem
    <3>4. ASSUME NEW x \in R(q) PROVE t <= o + x
      <4>1. /\ x \in q + 1..L /\ o + x \in g + 1..read
            /\ wire[o + x] = Gt /\ wire[(o + x) - 1] = Close("item")
        BY <3>3
      <4>2. o + x \notin g + 1..t - 1
        BY <3>2, <4>1
      <4>3. g \in Nat /\ t \in Nat /\ o + x \in g + 1..read
        BY <1>1, <1>2, <1>4, <4>1
      <4>. QED
        BY ONLY <4>2, <4>3
    <3>5. CASE t <= read
      <4>. DEFINE z == t - o
      <4>1. z \in q + 1..L /\ o + z = t /\ z \in Int
        BY <1>1, <1>2, <1>4, <2>1, <3>2, <3>5
      <4>. HIDE DEF z
      <4>2. z \in R(q)
        BY <3>2, <3>3, <4>1
      <4>3. ASSUME NEW x \in R(q) PROVE z <= x
        <5>1. t <= o + x /\ x \in q + 1..L
          BY <3>4
        <5>. QED
          BY <1>1, <1>2, <2>1, <4>1, <5>1
      <4>4. R(q) \in SUBSET Int
        BY <1>2, <2>1
      <4>. HIDE DEF R
      <4>5. First(R(q)) = z
        BY <4>2, <4>3, <4>4, FirstIs
      <4>. QED
        BY <3>1, <3>5, <4>5 DEF z, t, o
    <3>6. CASE ~(t <= read)
      <4>1. R(q) = {}
        <5>. SUFFICES ASSUME NEW x \in R(q) PROVE FALSE
          OBVIOUS
        <5>1. t <= o + x /\ o + x \in g + 1..read
          BY <3>3, <3>4
        <5>. QED
          BY <1>1, <1>2, <1>4, <3>6, <5>1
      <4>2. First(R(q)) = 0
        BY <4>1, FirstNone
      <4>. QED
        BY <3>1, <3>6, <4>2 DEF t
    <3>. QED
      BY <3>5, <3>6
  <2>. QED
    BY <2>6, <2>7
<1>8. CASE ~(g <= read)
  <2>1. S = {}
    <3>. SUFFICES ASSUME NEW x \in S PROVE FALSE
      OBVIOUS
    <3>1. x \in 1..L /\ o + x \in a + 1..g - 1
      BY <1>1, <1>2, <1>4, <1>8
    <3>. QED
      BY <1>4, <1>6, <3>1
  <2>2. h = 0
    BY <2>1, FirstNone
  <2>3. ~(t <= read)
    BY <1>1, <1>2, <1>4, <1>8
  <2>. HIDE DEF h, S
  <2>. QED
    BY <1>5, <2>2, <2>3 DEF t
<1>. QED
  BY <1>7, <1>8

\* The only complete item is the next one, and it is seen as soon as it is there.
LEMMA SpanIs ==
    ASSUME Sending, Laid, Counted, Held
    PROVE  LET t == Len(taken)
               n == Len(items)
           IN  /\ \A span \in Spans : span[2] > 0 =>
                     /\ t < n /\ Extent(t + 1) <= read
                     /\ span[1] = Extent(t) + 1 - Base /\ span[2] = Extent(t + 1) - Base
               /\ t < n /\ Extent(t + 1) <= read => Waiting
<1>. DEFINE t == Len(taken)  n == Len(items)  o == Base  L == Len(buf)  a == Extent(t)
            s == a + 1 - o
<1>1. /\ t \in 0..n /\ n \in Nat /\ a \in Nat /\ o \in Nat /\ o <= a
      /\ t = 0 => a = 4 /\ o = 0
      /\ t # 0 => o = a
  BY DEF Laid, Counted, Base
<1>2. /\ L \in Nat /\ L = read - o /\ read \in Nat /\ read <= Len(wire) /\ Len(wire) \in Nat
      /\ \A x \in 1..L : buf[x] = wire[o + x]
  BY <1>1 DEF Held, Counted, Laid
\* What begins like an item is one.
<1>3. ASSUME NEW x \in ItemStarts
      PROVE  t < n /\ s <= x /\ x \in 1..L - 1
  <2>1. x \in DOMAIN buf /\ StartsItem(buf, x)
    BY DEF ItemStarts
  <2>2. x \in 1..L /\ x < L
    BY <2>1 DEF StartsItem, Held
  <2>3. buf[x] = Open("item") /\ buf[x + 1].c \in {"attr", "gt", "slash"}
    BY <2>1 DEF StartsItem
  <2>. HIDE DEF L, o, a, t, n, s
  <2>4. /\ x \in 1..L - 1 /\ x + 1 \in 1..L /\ o + (x + 1) = (o + x) + 1
        /\ o + x \in 1..Len(wire) - 1
    BY <1>1, <1>2, <2>2
  <2>5. wire[o + x] = Open("item") /\ wire[(o + x) + 1].c \in {"attr", "gt", "slash"}
    BY <1>2, <2>2, <2>3, <2>4
  <2>6. PICK k \in 1..n : o + x = Extent(k - 1) + 1
    BY <2>4, <2>5, StartsAt DEF n
  <2>7. k - 1 \in 0..n /\ k \in 0..n /\ Extent(k - 1) \in Nat /\ Extent(k) \in Nat
        /\ Extent(k - 1) + 2 <= Extent(k)
    <3>1. k - 1 \in 0..n /\ k \in 0..n
      BY <1>1
    <3>. QED
      BY <3>1 DEF Laid, LaidAt, n
  <2>8. t <= k - 1
    <3>. SUFFICES ASSUME k <= t PROVE FALSE
      BY <1>1
    <3>1. t # 0 /\ t \in k..n
      BY <1>1
    <3>2. Extent(k) <= a
      BY <1>1, <2>7, <3>1, ExtentGrows DEF n, a
    <3>3. o = a
      BY <1>1, <3>1
    <3>. QED
      BY <1>1, <2>2, <2>6, <2>7, <3>2, <3>3
  <2>9. a <= Extent(k - 1)
    <3>1. k - 1 \in t..n
      BY <1>1, <2>7, <2>8
    <3>. QED
      BY <1>1, <3>1, ExtentGrows DEF n, a
  <2>. QED
    BY <1>1, <2>2, <2>4, <2>6, <2>7, <2>8, <2>9 DEF s
\* The next item is the first of them.
<1>4. ASSUME t < n, s \in 1..L - 1
      PROVE  s \in ItemStarts /\ ItemEnd(buf, s) = IF Extent(t + 1) <= read
                                                     THEN Extent(t + 1) - o ELSE 0
  <2>1. t + 1 \in 1..Len(items) /\ (t + 1) - 1 = t
    BY <1>1, <1>4
  <2>2. wire[a + 1] = Open("item") /\ wire[a + 2].c = "attr"
    BY <2>1, StartOf
  <2>. HIDE DEF t, n, L, o, a
  <2>3. s \in 1..L /\ s + 1 \in 1..L /\ o + s = a + 1 /\ o + (s + 1) = a + 2 /\ s < L
        /\ s + o = a + 1
    BY <1>1, <1>2, <1>4
  <2>4. buf[s] = Open("item") /\ buf[s + 1].c = "attr"
    BY <1>2, <2>2, <2>3
  <2>5. DOMAIN buf = 1..L
    BY DEF Held, L
  <2>. HIDE DEF s
  <2>6. s \in ItemStarts
    BY <2>3, <2>4, <2>5 DEF ItemStarts, StartsItem, L
  <2>7. ItemEnd(buf, s) = IF Extent(t + 1) <= read THEN Extent(t + 1) - o ELSE 0
    <3>. DEFINE i == t + 1
    <3>1. i \in 1..Len(items) /\ Len(taken) = i - 1 /\ s \in 1..Len(buf)
          /\ s + Base = Extent(i - 1) + 1
      BY <2>1, <2>3 DEF t, L, o, a
    <3>. HIDE DEF i
    <3>2. ItemEnd(buf, s) = IF Extent(i) <= read THEN Extent(i) - Base ELSE 0
      BY <3>1, ItemEndIs
    <3>. QED
      BY <3>2 DEF i, o
  <2>. QED
    BY <2>6, <2>7
<1>5. ASSUME NEW span \in Spans, span[2] > 0
      PROVE  /\ t < n /\ Extent(t + 1) <= read
             /\ span[1] = s /\ span[2] = Extent(t + 1) - o
  <2>1. PICK x \in ItemStarts : span = <<x, ItemEnd(buf, x)>> /\ \A y \in ItemStarts : x <= y
    BY DEF Spans
  <2>2. t < n /\ s <= x /\ x \in 1..L - 1
    BY <1>3
  <2>. HIDE DEF t, n, L, o, a
  <2>3. s \in 1..L - 1 /\ s \in Int
    BY <1>1, <1>2, <2>2
  <2>4. s \in ItemStarts /\ ItemEnd(buf, s) = IF Extent(t + 1) <= read
                                                THEN Extent(t + 1) - o ELSE 0
    BY <1>4, <2>2, <2>3
  <2>5. x = s
    <3>1. x <= s
      BY <2>1, <2>4
    <3>. HIDE DEF s
    <3>. QED
      BY <1>2, <2>2, <2>3, <3>1
  <2>6. Extent(t + 1) <= read
    <3>. SUFFICES ASSUME ~(Extent(t + 1) <= read) PROVE FALSE
      OBVIOUS
    <3>1. span[2] = 0
      BY <2>1, <2>4, <2>5
    <3>. QED
      BY <1>5, <3>1
  <2>. QED
    BY <2>1, <2>2, <2>4, <2>5, <2>6
<1>6. ASSUME t < n, Extent(t + 1) <= read PROVE Waiting
  <2>1. t + 1 \in 1..n /\ (t + 1) - 1 = t /\ t + 1 \in 0..n
    BY <1>1, <1>6
  <2>2. a + 2 <= Extent(t + 1) /\ Extent(t + 1) \in Nat
    BY <2>1 DEF Laid, LaidAt
  <2>. HIDE DEF t, n, L, o, a
  <2>3. s \in 1..L - 1 /\ s \in Int /\ Extent(t + 1) - o > 0
    BY <1>1, <1>2, <1>6, <2>2
  <2>4. s \in ItemStarts /\ ItemEnd(buf, s) = Extent(t + 1) - o
    BY <1>4, <1>6, <2>3
  <2>5. \A y \in ItemStarts : s <= y
    BY <1>3
  <2>. HIDE DEF s
  <2>6. <<s, ItemEnd(buf, s)>> \in Spans
    BY <2>4, <2>5 DEF Spans
  <2>. QED
    BY <2>3, <2>4, <2>6 DEF Waiting
<1>. QED
  BY <1>5, <1>6

-----------------------------------------------------------------------------
(***************************************************************************)
(* What Python and Go follow.                                              *)
(***************************************************************************)
\* Nothing of a tag lies between the symbols read and s.
Free(r, s) == \A x \in r + 1..s : wire[x].c \notin {"open", "close", "gt"}

\* The next tag: it begins behind s and ends at e.
Upcoming(s, e) ==
    /\ s \in Nat /\ read <= s /\ Free(read, s) /\ e \in s + 2..Len(wire)
    /\ wire[s + 1].c \in {"open", "close"} /\ wire[e] = Gt
    /\ \A x \in s + 2..e - 1 : wire[x] # Gt

\* A tag that follows the quote that ends an attribute with anything else.
Awry(s, e) ==
    \E x \in s + 1..e - 1 : wire[x] = Quote /\ wire[x + 1].c \notin {"attr", "slash", "gt"}

\* Nothing that XML forbids lies between the symbols read and e.
Pure(r, e) == \A x \in r + 1..e : wire[x] # Illegal

\* The decoder finds the next tag when all of it arrived.
LEMMA TagFound ==
    ASSUME Laid, read \in 0..Len(input), NEW s, NEW e, Upcoming(s, e)
    PROVE  /\ ~(e <= Len(input)) => TagEnd = 0
           /\ e <= Len(input) =>
                 /\ TagEnd = e /\ TagStart = s + 1 /\ TagEnd > 0
                 /\ Tag \in Seq(Symbol) /\ Len(Tag) = e - s
                 /\ \A x \in 1..e - s : Tag[x] = wire[s + x]
                 /\ Tag[1].c = wire[s + 1].c
                 /\ IsEmpty <=> wire[e - 1] = Slash
                 /\ WellFormed(Tag) <=> ~Awry(s, e)
                 /\ Legal <=> Pure(read, e)
<1>. DEFINE L == Len(input)  W == Len(wire)
            S == {x \in read + 1..L : input[x] = Gt}
            T == {x \in read + 1..L : input[x].c \in {"open", "close"}}
<1>1. /\ L \in Nat /\ W \in Nat /\ L <= W /\ read \in Nat /\ read <= L
      /\ input \in Seq(Symbol)
      /\ \A x \in 1..L : input[x] = wire[x]
  BY DEF Laid
<1>2. /\ s \in Nat /\ read <= s /\ e \in s + 2..W /\ e \in Nat
      /\ \A x \in read + 1..s : wire[x].c \notin {"open", "close", "gt"}
      /\ wire[s + 1].c \in {"open", "close"} /\ wire[e] = Gt
      /\ \A x \in s + 2..e - 1 : wire[x] # Gt
  BY <1>1 DEF Upcoming, Free
<1>3. TagEnd = First(S) /\ TagStart = First(T)
  BY Zenon DEF TagEnd, TagStart
<1>. HIDE DEF L, W
<1>4. S \in SUBSET Int /\ T \in SUBSET Int
  BY <1>1
\* The end of a tag is not before this one.
<1>5. ASSUME NEW x \in S PROVE e <= x
  <2>. SUFFICES ASSUME x < e PROVE FALSE
    BY <1>1, <1>2
  <2>1. x \in 1..L /\ wire[x] = Gt
    BY <1>1
  <2>2. x \in read + 1..s \/ x = s + 1 \/ x \in s + 2..e - 1
    BY <1>1, <1>2
  <2>. QED
    BY <1>2, <2>1, <2>2, Signs
<1>6. ASSUME NEW x \in T PROVE s + 1 <= x
  <2>. SUFFICES ASSUME x <= s PROVE FALSE
    BY <1>1, <1>2
  <2>1. x \in 1..L /\ wire[x].c \in {"open", "close"} /\ x \in read + 1..s
    BY <1>1, <1>2
  <2>. QED
    BY <1>2, <2>1
<1>7. ASSUME ~(e <= L) PROVE TagEnd = 0
  <2>1. S = {}
    BY <1>1, <1>2, <1>5, <1>7
  <2>. HIDE DEF S
  <2>. QED
    BY <1>3, <2>1, FirstNone
<1>8. ASSUME e <= L
      PROVE  /\ TagEnd = e /\ TagStart = s + 1 /\ TagEnd > 0
             /\ Tag \in Seq(Symbol) /\ Len(Tag) = e - s
             /\ \A x \in 1..e - s : Tag[x] = wire[s + x]
             /\ Tag[1].c = wire[s + 1].c
             /\ IsEmpty <=> wire[e - 1] = Slash
             /\ WellFormed(Tag) <=> ~Awry(s, e)
             /\ Legal <=> Pure(read, e)
  <2>1. e \in S /\ s + 1 \in T
    <3>1. e \in read + 1..L /\ s + 1 \in read + 1..L /\ e \in 1..L /\ s + 1 \in 1..L
      BY <1>1, <1>2, <1>8
    <3>. QED
      BY <1>1, <1>2, <3>1
  <2>. HIDE DEF S, T
  <2>2. TagEnd = e
    BY <1>3, <1>4, <1>5, <2>1, FirstIs
  <2>3. TagStart = s + 1
    BY <1>3, <1>4, <1>6, <2>1, FirstIs
  <2>. DEFINE p == SubSeq(input, s + 1, e)  k == e - s
  <2>4. Tag = p
    BY <2>2, <2>3 DEF Tag
  <2>5. e \in s..Len(input)
    BY <1>1, <1>2, <1>8 DEF L
  <2>6. /\ p \in Seq(Symbol) /\ Len(p) = k
        /\ \A x \in 1..k : p[x] = input[s + x]
    <3>1. input \in Seq(Symbol) /\ s \in Nat
      BY <1>1, <1>2
    <3>. HIDE DEF p
    <3>2. /\ SubSeq(input, s + 1, e) \in Seq(Symbol)
          /\ Len(SubSeq(input, s + 1, e)) = e - s /\ e - s \in Nat
          /\ \A j \in 1..(e - s) : SubSeq(input, s + 1, e)[j] = input[s + j]
      BY ONLY <2>5, <3>1, Part
    <3>. QED
      BY <3>2 DEF p
  <2>. HIDE DEF p
  <2>7. k \in Nat /\ k >= 2 /\ s + k = e
    BY <1>2
  <2>8. ASSUME NEW x \in 1..k PROVE p[x] = wire[s + x]
    <3>1. s + x \in 1..L
      BY <1>1, <1>2, <1>8
    <3>. QED
      BY <1>1, <2>6, <3>1
  <2>. HIDE DEF k
  <2>9. p[1] = wire[s + 1] /\ p[k - 1] = wire[e - 1]
    <3>1. 1 \in 1..k /\ k - 1 \in 1..k /\ s + (k - 1) = e - 1
      BY <1>2, <2>7
    <3>. QED
      BY <2>8, <3>1
  <2>10. IsEmpty <=> wire[e - 1] = Slash
    BY <2>4, <2>6, <2>9 DEF IsEmpty
  <2>11. ASSUME NEW x \in 1..k - 1
         PROVE  /\ p[x] = wire[s + x] /\ p[x + 1] = wire[(s + x) + 1]
                /\ s + x \in s + 1..e - 1
    <3>1. x \in 1..k /\ x + 1 \in 1..k /\ s + (x + 1) = (s + x) + 1 /\ s + x \in s + 1..e - 1
      BY <1>2, <2>7
    <3>. QED
      BY <2>8, <3>1
  <2>12. ASSUME NEW y \in s + 1..e - 1 PROVE y - s \in 1..k - 1 /\ s + (y - s) = y
    BY <1>2, <2>7
  <2>13. WellFormed(p) <=> \A x \in 1..k - 1 :
                               p[x] = Quote => p[x + 1].c \in {"attr", "slash", "gt"}
    BY <2>6 DEF WellFormed
  <2>14. ASSUME Awry(s, e) PROVE ~WellFormed(p)
    <3>1. PICK y \in s + 1..e - 1 :
                  wire[y] = Quote /\ wire[y + 1].c \notin {"attr", "slash", "gt"}
      BY <2>14 DEF Awry
    <3>2. /\ y - s \in 1..k - 1 /\ p[y - s] = Quote
          /\ p[(y - s) + 1].c \notin {"attr", "slash", "gt"}
      BY <2>11, <2>12, <3>1
    <3>. QED
      BY <2>13, <3>2
  <2>15. ASSUME ~Awry(s, e) PROVE WellFormed(p)
    <3>1. ASSUME NEW x \in 1..k - 1, p[x] = Quote
          PROVE  p[x + 1].c \in {"attr", "slash", "gt"}
      BY <2>11, <2>15, <3>1 DEF Awry
    <3>. QED
      BY <2>13, <3>1
  <2>16. Len(p) = k /\ e > 0
    BY <1>2, <2>6
  <2>17. Legal <=> Pure(read, e)
    <3>1. \A x \in read + 1..e : input[x] = wire[x]
      BY <1>1, <1>2, <1>8
    <3>. QED
      BY <2>2, <3>1 DEF Legal, Pure, Illegal
  <2>. QED
    BY <2>2, <2>3, <2>4, <2>6, <2>8, <2>9, <2>10, <2>14, <2>15, <2>16, <2>17 DEF k
<1>. QED
  BY <1>7, <1>8 DEF L

\* Behind the last symbol of the document there is no tag.
LEMMA NoTag ==
    ASSUME Laid, read = Len(wire)
    PROVE  TagEnd = 0
<1>. DEFINE S == {x \in read + 1..Len(input) : input[x] = Gt}
<1>1. Len(wire) \in Nat /\ Len(input) \in Nat /\ Len(input) <= Len(wire)
  BY DEF Laid
<1>2. S = {}
  BY <1>1
<1>3. TagEnd = First(S)
  BY Zenon DEF TagEnd
<1>. HIDE DEF S
<1>. QED
  BY <1>2, <1>3, FirstNone

\* Where a decoder stands that has read r symbols and handed over t items, with
\* d open tags: before the root, before the j-th node of an item that began at
\* m, before the root's end, and behind it.
Before(t, r, d) == t = 0 /\ r = 0 /\ d = 0
Inside(t, j, r, d, m) ==
    /\ t < Len(items) /\ j \in 1..NodesIn(t + 1)
    /\ r \in Nat /\ Extent(t) <= r /\ r <= Spot(t + 1, j) /\ Free(r, Spot(t + 1, j))
    /\ d = Level(items[t + 1], j - 1)
    /\ j = 1 => r = Extent(t)
    /\ j # 1 => m = Extent(t) + 1
    /\ \A k \in 1..j - 1 : ~Spoilt(NodeOf(t + 1, k))
    /\ Pure(Extent(t), r)
AtRootEnd(t, r, d) == t = Len(items) /\ r = Extent(t) /\ d = 1
Behind(t, r, d)    == t = Len(items) /\ r = Len(wire) /\ d = 0
Standing(t, r, d, m) ==
    \/ Before(t, r, d) \/ AtRootEnd(t, r, d) \/ Behind(t, r, d)
    \/ \E j \in Nat : Inside(t, j, r, d, m)

\* The next item begins where the last one ended, and so does the root's end.
LEMMA NextItem ==
    ASSUME Sending, Laid, NEW t \in 0..Len(items), NEW m
    PROVE  Standing(t, Extent(t), 1, m)
<1>1. CASE t = Len(items)
  BY <1>1 DEF Standing, AtRootEnd
<1>2. CASE t # Len(items)
  <2>. DEFINE i == t + 1
  <2>1. t < Len(items) /\ i \in 1..Len(items) /\ i - 1 = t /\ Extent(t) \in Nat
    BY <1>2 DEF Laid
  <2>. HIDE DEF i
  <2>2. NodesIn(i) \in Nat \ {0} /\ Spot(i, 1) = Extent(t)
    BY <2>1 DEF Laid, LaidAt
  <2>3. Level(items[i], 0) = 1
    BY <2>1, NodeFacts
  <2>4. Free(Extent(t), Spot(i, 1))
    BY <2>1, <2>2 DEF Free
  <2>5. 1 \in 1..NodesIn(i) /\ 1 - 1 = 0
    BY <2>2
  <2>5a. Pure(Extent(t), Extent(t))
    BY <2>1 DEF Pure
  <2>6. Inside(t, 1, Extent(t), 1, m)
    BY <2>1, <2>2, <2>3, <2>4, <2>5, <2>5a DEF Inside, i
  <2>. QED
    BY <2>6 DEF Standing
<1>. QED
  BY <1>1, <1>2

\* Behind the tag of a node, before the next one.
LEMMA Onward ==
    ASSUME Sending, Laid, NEW t \in Nat, NEW j \in Nat, Inside(t, j, read, depth, mark),
           NEW e, TagLies(Spot(t + 1, j), e, Spot(t + 1, j + 1), NodeOf(t + 1, j)),
           ~Spoilt(NodeOf(t + 1, j)), Pure(read, e), j < NodesIn(t + 1),
           NEW d, Moves(NodeOf(t + 1, j), depth, d),
           NEW m, m = Extent(t) + 1
    PROVE  Inside(t, j + 1, e, d, m)
<1>. DEFINE i == t + 1  v == items[i]  M == NodesIn(i)  s == Spot(i, j)  z == Spot(i, j + 1)
            n == NodeOf(i, j)
<1>1. /\ t < Len(items) /\ j \in 1..M /\ Extent(t) <= read /\ read <= s
      /\ depth = Level(v, j - 1) /\ read \in Nat
      /\ \A k \in 1..j - 1 : ~Spoilt(NodeOf(i, k))
      /\ Pure(Extent(t), read)
  BY DEF Inside
<1>2. i \in 1..Len(items) /\ i - 1 = t /\ M \in Nat \ {0} /\ Extent(t) \in Nat
  <2>1. i \in 1..Len(items) /\ i - 1 = t /\ t \in 0..Len(items)
    <3>1. t < Len(items) /\ Len(items) \in Nat
      BY <1>1 DEF Laid
    <3>. QED
      BY ONLY <3>1, t \in Nat
  <2>. QED
    BY <2>1 DEF Laid, LaidAt
<1>3. s \in Nat /\ z \in Nat
  <2>1. Lies(i, j)
    BY <1>1, <1>2 DEF Laid, LaidAt
  <2>. QED
    BY <2>1 DEF Lies
<1>4. /\ e \in s + 2..z
      /\ \A x \in s + 2..z : x # e => wire[x].c \notin {"open", "close", "gt"}
  BY DEF TagLies
<1>5. Moves(n, Level(v, j - 1), Level(v, j))
  <2>1. \A k \in 1..M : Moves(NodeOf(i, k), Level(v, k - 1), Level(v, k))
    BY <1>2, NodeFacts
  <2>. QED
    BY <1>1, <2>1
<1>6. d = Level(v, j)
  <2>1. Moves(n, Level(v, j - 1), d)
    BY <1>1
  <2>. QED
    BY <1>5, <2>1 DEF Moves
<1>7. ~Spoilt(n) /\ j < M
  OBVIOUS
<1>. HIDE DEF i, v, M, s, z, n
<1>8. j + 1 \in 1..M /\ (j + 1) - 1 = j /\ j + 1 # 1
  BY <1>1, <1>2, <1>7
<1>9. Free(e, z)
  <2>1. ASSUME NEW x \in e + 1..z PROVE wire[x].c \notin {"open", "close", "gt"}
    <3>1. x \in s + 2..z /\ x # e
      BY <1>3, <1>4
    <3>. QED
      BY <1>4, <3>1
  <2>. QED
    BY <2>1 DEF Free
<1>10. e \in Nat /\ Extent(t) <= e /\ e <= z
  BY <1>1, <1>2, <1>3, <1>4
<1>11. ASSUME NEW k \in 1..(j + 1) - 1 PROVE ~Spoilt(NodeOf(i, k))
  <2>1. k \in 1..j - 1 \/ k = j
    BY <1>8
  <2>. QED
    BY <1>1, <1>7, <2>1 DEF n
<1>12. Pure(Extent(t), e)
  <2>1. \A x \in Extent(t) + 1..e : x \in Extent(t) + 1..read \/ x \in read + 1..e
    BY <1>1, <1>2, <1>10
  <2>. QED
    BY <1>1, <2>1 DEF Pure
<1>. QED
  BY <1>1, <1>6, <1>8, <1>9, <1>10, <1>11, <1>12 DEF Inside, i, v, M, z

\* The tag that comes next inside an item, and where the decoder is behind it.
TagOf(t, j, e) ==
    LET i == t + 1
        s == Spot(i, j)
        n == NodeOf(i, j)
        m == Extent(t) + 1
    IN  /\ i \in 1..Len(items) /\ Upcoming(s, e) /\ e <= Extent(i)
        /\ Awry(s, e) \/ ~Pure(read, e) => Malformed(items[i])
        /\ n.v.t = "end" =>
              /\ wire[s + 1].c = "close" /\ mark = m
              /\ Pure(read, e) =>
                    \/ depth - 1 = 1 /\ e = Extent(i) /\ ~Malformed(items[i])
                    \/ depth - 1 \in Nat \ {1} /\ Inside(t, j + 1, e, depth - 1, mark)
        /\ n.v.t # "end" =>
              /\ wire[s + 1].c = "open"
              /\ wire[e - 1] = Slash <=> n.v.t = "null"
              /\ depth = 1 => s = Extent(t)
              /\ depth # 1 => mark = m
              /\ ~Awry(s, e) /\ Pure(read, e) =>
                    \/ /\ n.v.t = "null" /\ depth = 1 /\ e = Extent(i)
                       /\ ~Malformed(items[i])
                    \/ n.v.t = "null" /\ depth # 1 /\ Inside(t, j + 1, e, depth, m)
                    \/ n.v.t # "null" /\ depth \in Nat /\ Inside(t, j + 1, e, depth + 1, m)

\* A decoder inside an item stands before such a tag.
LEMMA InsideTag ==
    ASSUME Sending, Laid, NEW t \in Nat, NEW j \in Nat, Inside(t, j, read, depth, mark)
    PROVE  \E e : TagOf(t, j, e)
<1>. DEFINE i == t + 1  v == items[i]  M == NodesIn(i)  s == Spot(i, j)  z == Spot(i, j + 1)
            n == NodeOf(i, j)  m == Extent(t) + 1
<1>1. /\ t < Len(items) /\ j \in 1..M /\ Extent(t) <= read /\ read <= s
      /\ Free(read, s) /\ read \in Nat
      /\ depth = Level(v, j - 1) /\ (j # 1 => mark = m)
      /\ \A k \in 1..j - 1 : ~Spoilt(NodeOf(i, k))
      /\ Pure(Extent(t), read)
  BY DEF Inside
<1>2. i \in 1..Len(items) /\ i - 1 = t
  BY <1>1 DEF Laid
<1>2a. /\ M \in Nat \ {0} /\ Extent(t) \in Nat /\ Extent(i) \in Nat
       /\ Extent(i) <= Len(wire) /\ Len(wire) \in Nat
       /\ Spot(i, 1) = Extent(t) /\ Spot(i, M + 1) = Extent(i)
  <2>1. i \in 0..Len(items) /\ t \in 0..Len(items) /\ Len(items) \in i..Len(items)
        /\ Len(items) \in 0..Len(items)
    BY <1>2 DEF Laid
  <2>2. Extent(i) <= Extent(Len(items))
    BY <2>1, ExtentGrows
  <2>. HIDE DEF i
  <2>3. Extent(i) \in Nat /\ Extent(t) \in Nat /\ Extent(Len(items)) \in Nat
        /\ Len(wire) = Extent(Len(items)) + 3 /\ LaidAt(i)
    BY <1>2, <2>1 DEF Laid
  <2>4. Extent(i) <= Len(wire) /\ Len(wire) \in Nat
    BY <2>2, <2>3
  <2>. QED
    BY <1>2, <2>3, <2>4 DEF LaidAt
<1>3. /\ s \in Nat /\ z \in Nat /\ z <= Extent(i) /\ \E e : TagLies(s, e, z, n)
  <2>1. Lies(i, j)
    BY <1>1, <1>2 DEF Laid, LaidAt
  <2>. QED
    BY <2>1 DEF Lies
<1>4. PICK e : TagLies(s, e, z, n)
  BY <1>3
<1>5. /\ e \in s + 2..z /\ wire[e] = Gt
      /\ wire[s + 1] = IF n.v.t = "end" THEN Close(n.tag) ELSE Open(n.tag)
      /\ \A x \in s + 2..z : x # e => wire[x].c \notin {"open", "close", "gt"}
      /\ wire[e - 1] = Slash <=> n.v.t = "null"
      /\ n.v.t \in {"end", "null"} => e = z
      /\ Spoilt(n) <=> Awry(s, e)
  BY <1>4 DEF TagLies, Awry
<1>6. /\ NodeOf(i, 1).v.t # "end"
      /\ Level(v, 0) = 1 /\ Level(v, M) = 1
      /\ \A k \in 1..M - 1 : Level(v, k) \in Nat /\ Level(v, k) > 1
      /\ \A k \in 1..M : Moves(NodeOf(i, k), Level(v, k - 1), Level(v, k))
      /\ v.t = "null" <=> M = 1
      /\ NodeOf(i, 1).v = v
      /\ M > 1 => NodeOf(i, M).v.t = "end"
  BY <1>2, NodeFacts
<1>7. Malformed(v) <=> (\E k \in 1..M : Spoilt(NodeOf(i, k))) \/ ~Pure(Extent(t), Extent(i))
  BY <1>2, MalformedIs DEF Pure
<1>8. ASSUME j < M, ~Spoilt(n), Pure(read, e), NEW d, Moves(n, depth, d)
      PROVE  Inside(t, j + 1, e, d, m)
  BY <1>4, <1>8, Onward
<1>9. n.v.t = "end" => ~Spoilt(n)
  BY DEF Spoilt
<1>. HIDE DEF i, v, M, s, z, n, m
<1>10. Upcoming(s, e)
  <2>1. ASSUME NEW x \in s + 2..e - 1 PROVE wire[x] # Gt
    <3>1. x \in s + 2..z /\ x # e
      BY <1>3, <1>5
    <3>. QED
      BY <1>5, <3>1, Signs
  <2>2. wire[s + 1].c \in {"open", "close"}
    BY <1>5, Signs
  <2>3. e \in s + 2..Len(wire)
    BY <1>2a, <1>3, <1>5
  <2>. QED
    BY <1>1, <1>3, <1>5, <2>1, <2>2, <2>3 DEF Upcoming
<1>11. e <= Extent(i)
  BY <1>2a, <1>3, <1>5
<1>12. Awry(s, e) \/ ~Pure(read, e) => Malformed(v)
  <2>1. ASSUME NEW x \in read + 1..e PROVE x \in Extent(t) + 1..Extent(i)
    <3>. DEFINE a == Extent(t)  b == Extent(i)
    <3>1. a \in Nat /\ b \in Nat /\ read \in Nat /\ a <= read /\ e \in Int /\ e <= b
      BY <1>1, <1>2a, <1>3, <1>5, <1>11
    <3>. HIDE DEF a, b
    <3>2. x \in a + 1..b
      BY ONLY <3>1, x \in read + 1..e
    <3>. QED
      BY <3>2 DEF a, b
  <2>2. ~Pure(read, e) => ~Pure(Extent(t), Extent(i))
    BY <2>1 DEF Pure
  <2>. QED
    BY <1>1, <1>5, <1>7, <2>2 DEF n
<1>13. ASSUME j = M, ~Spoilt(n), Pure(read, e), e = Extent(i) PROVE ~Malformed(v)
  <2>1. ASSUME NEW k \in 1..M PROVE ~Spoilt(NodeOf(i, k))
    <3>1. k \in 1..j - 1 \/ k = j
      BY <1>2a, <1>13
    <3>. QED
      BY <1>1, <1>13, <3>1 DEF n
  <2>2. \A x \in Extent(t) + 1..e : x \in Extent(t) + 1..read \/ x \in read + 1..e
    BY <1>1, <1>2a, <1>13
  <2>3. Pure(Extent(t), Extent(i))
    BY <1>1, <1>13, <2>2 DEF Pure
  <2>. QED
    BY <1>7, <2>1, <2>3
\* Where it stands tells how deep it is.
<1>14. /\ j = 1 => depth = 1 /\ s = Extent(t)
       /\ j # 1 => depth \in Nat /\ depth > 1
  <2>1. j = 1 => depth = 1 /\ s = Extent(t)
    <3>1. 1 - 1 = 0
      OBVIOUS
    <3>. QED
      BY <1>1, <1>2a, <1>6, <3>1 DEF s
  <2>2. j # 1 => depth \in Nat /\ depth > 1
    <3>1. j # 1 => j - 1 \in 1..M - 1
      BY <1>1, <1>2a
    <3>. QED
      BY <1>1, <1>6, <3>1
  <2>. QED
    BY <2>1, <2>2
<1>15. Moves(n, depth, Level(v, j))
  BY <1>1, <1>6 DEF n
<1>16. /\ j = M => Level(v, j) = 1
       /\ j # M => Level(v, j) \in Nat /\ Level(v, j) > 1 /\ j < M
  <2>1. j # M => j \in 1..M - 1 /\ j < M
    BY <1>1, <1>2a
  <2>. QED
    BY <1>6, <2>1
<1>17. ASSUME n.v.t = "end"
       PROVE  /\ wire[s + 1].c = "close" /\ mark = m
              /\ Pure(read, e) =>
                    \/ depth - 1 = 1 /\ e = Extent(i) /\ ~Malformed(v)
                    \/ depth - 1 \in Nat \ {1} /\ Inside(t, j + 1, e, depth - 1, mark)
  <2>1. j # 1 /\ mark = m
    BY <1>1, <1>6, <1>17 DEF n
  <2>2. wire[s + 1].c = "close" /\ e = z /\ ~Spoilt(n)
    BY <1>5, <1>9, <1>17, Signs
  <2>3. Level(v, j) = depth - 1
    BY <1>15, <1>17 DEF Moves
  <2>4. CASE j = M
    <3>1. z = Extent(i)
      BY <1>2a, <2>4 DEF z
    <3>. QED
      BY <1>13, <1>16, <2>1, <2>2, <2>3, <2>4, <3>1
  <2>5. ASSUME j # M, Pure(read, e)
        PROVE  depth - 1 \in Nat \ {1} /\ Inside(t, j + 1, e, depth - 1, mark)
    <3>1. Inside(t, j + 1, e, depth - 1, m)
      BY <1>8, <1>15, <1>16, <2>2, <2>3, <2>5
    <3>2. depth - 1 \in Nat \ {1}
      <4>. DEFINE k == Level(v, j)
      <4>1. k \in Nat /\ k > 1 /\ k = depth - 1
        BY <1>16, <2>3, <2>5
      <4>. HIDE DEF k
      <4>2. k \in Nat \ {1}
        BY <4>1
      <4>. QED
        BY <4>1, <4>2
    <3>. QED
      BY <2>1, <3>1, <3>2
  <2>. QED
    BY <2>1, <2>2, <2>4, <2>5
<1>18. ASSUME n.v.t # "end"
       PROVE  /\ wire[s + 1].c = "open"
              /\ wire[e - 1] = Slash <=> n.v.t = "null"
              /\ depth = 1 => s = Extent(t)
              /\ depth # 1 => mark = m
              /\ ~Awry(s, e) /\ Pure(read, e) =>
                    \/ /\ n.v.t = "null" /\ depth = 1 /\ e = Extent(i)
                       /\ ~Malformed(v)
                    \/ n.v.t = "null" /\ depth # 1 /\ Inside(t, j + 1, e, depth, m)
                    \/ n.v.t # "null" /\ depth \in Nat /\ Inside(t, j + 1, e, depth + 1, m)
  <2>1. wire[s + 1].c = "open"
    BY <1>5, <1>18, Signs
  <2>2. depth \in Nat /\ (depth = 1 <=> j = 1)
    <3>1. j # 1 => depth # 1
      BY <1>14
    <3>. QED
      BY <1>14, <3>1
  <2>3. ASSUME ~Awry(s, e), Pure(read, e), n.v.t = "null"
        PROVE  \/ depth = 1 /\ e = Extent(i) /\ ~Malformed(v)
               \/ depth # 1 /\ Inside(t, j + 1, e, depth, m)
    <3>1. ~Spoilt(n) /\ e = z /\ Moves(n, depth, depth)
      BY <1>5, <2>3 DEF Moves
    <3>2. CASE j = 1
      <4>1. M = 1
        BY <1>6, <2>3, <3>2 DEF n
      <4>2. z = Extent(i)
        BY <1>2a, <3>2, <4>1 DEF z
      <4>. QED
        BY <1>13, <2>2, <2>3, <3>1, <3>2, <4>1, <4>2
    <3>3. CASE j # 1
      <4>1. j # M
        <5>1. M > 1 => NodeOf(i, M) # n
          BY <1>6, <1>18
        <5>2. j = M => M > 1
          BY <1>1, <1>2a, <3>3
        <5>. QED
          BY <5>1, <5>2 DEF n
      <4>. QED
        BY <1>8, <1>16, <2>2, <2>3, <3>1, <3>3, <4>1
    <3>. QED
      BY <3>2, <3>3
  <2>4. ASSUME ~Awry(s, e), Pure(read, e), n.v.t # "null"
        PROVE  Inside(t, j + 1, e, depth + 1, m)
    <3>1. ~Spoilt(n) /\ Moves(n, depth, depth + 1)
      BY <1>5, <1>18, <2>4 DEF Moves
    <3>2. j # M
      <4>1. M > 1 => NodeOf(i, M) # n
        BY <1>6, <1>18
      <4>2. j = M => M > 1
        <5>1. j = 1 => M # 1
          BY <1>6, <2>4 DEF n
        <5>. QED
          BY <1>1, <1>2a, <5>1
      <4>. QED
        BY <4>1, <4>2 DEF n
    <3>. QED
      BY <1>8, <1>16, <2>4, <3>1, <3>2
  <2>. QED
    BY <1>1, <1>5, <1>14, <2>1, <2>2, <2>3, <2>4
<1>. QED
  BY <1>2, <1>10, <1>11, <1>12, <1>17, <1>18 DEF TagOf, i, v, s, n, m

-----------------------------------------------------------------------------
(***************************************************************************)
(* The inductive invariant.                                                *)
(***************************************************************************)
\* The texts handed over are those of the first items.
Given ==
    /\ taken \in Seq(Seq(Symbol))
    /\ \A i \in 1..Len(taken) : taken[i] = Item(items[i])

\* Those that Python and Go handed over have no tag they would refuse.
Clean(t) == \A i \in 1..t : ~Malformed(items[i])

\* Where a decoder is: Node and Rust hold what follows the last item and no
\* more than fits, Python and Go stand before a tag.
Place ==
    IF dec \in Scanners
      THEN Held /\ Len(buf) < 4 + Longest + ChunkSize
      ELSE Standing(Len(taken), read, depth, mark) /\ Clean(Len(taken)) /\ buf = <<>>

\* The next item did not arrive.
Missing(t) == t < Len(items) => Len(input) < Extent(t + 1)

\* The verdicts.
Judged ==
    /\ outcome = "complete" =>
          IF dec \in Scanners THEN Missing(Len(taken)) ELSE Behind(Len(taken), read, depth)
    /\ outcome = "truncated" => dec \notin Scanners /\ Truncated /\ Missing(Len(taken))
    /\ outcome = "malformed" =>
          /\ dec \notin Scanners /\ Len(taken) < Len(items)
          /\ Malformed(items[Len(taken) + 1])

\* The inductive invariant.
Inv == Sending /\ TypeOK /\ Counted /\ Given /\ Place /\ Judged

\* No step changes what was sent.
Unmoved == UNCHANGED sentVars

\* What is fixed stays so, and with it everything read from it.
LEMMA SameSending ==
    ASSUME Unmoved
    PROVE  /\ Sending' = Sending /\ Longest' = Longest /\ Truncated' = Truncated
           /\ enc' = enc /\ items' = items /\ wire' = wire /\ input' = input /\ dec' = dec
           /\ \A n : Extent(n)' = Extent(n) /\ Clean(n)' = Clean(n) /\ Missing(n)' = Missing(n)
           /\ \A v : Item(v)' = Item(v) /\ Malformed(v)' = Malformed(v)
           /\ \A t, r, d, m : Standing(t, r, d, m)' = Standing(t, r, d, m)
           /\ \A t, r, d : Behind(t, r, d)' = Behind(t, r, d)
<1>1. enc' = enc /\ items' = items /\ wire' = wire /\ input' = input /\ dec' = dec
      /\ arrived' = arrived /\ whole' = whole
  BY DEF Unmoved, sentVars
<1>2. ASSUME NEW v PROVE Item(v)' = Item(v)
  BY <1>1 DEF Item
<1>3. ASSUME NEW n PROVE Extent(n)' = Extent(n)
  BY <1>1, <1>2 DEF Extent
<1>4. ASSUME NEW k PROVE Unquoted(k)' = Unquoted(k) /\ Foul(k)' = Foul(k)
  BY <1>1 DEF Unquoted, Foul
<1>5. ASSUME NEW v PROVE Malformed(v)' = Malformed(v)
  BY <1>4 DEF Malformed
<1>6. ASSUME NEW n PROVE Clean(n)' = Clean(n)
  BY <1>1, <1>5 DEF Clean
<1>7. ASSUME NEW n PROVE Missing(n)' = Missing(n)
  BY <1>1, <1>3 DEF Missing
<1>8. Longest' = Longest
  <2>1. RootEnd' = RootEnd
    OBVIOUS
  <2>. QED
    BY <1>1, <1>2, <2>1 DEF Longest
<1>9. Truncated' = Truncated
  BY <1>1 DEF Truncated
<1>10. ASSUME NEW i, NEW j
       PROVE  NodeOf(i, j)' = NodeOf(i, j) /\ NodesIn(i)' = NodesIn(i)
  BY <1>1 DEF NodeOf, NodesIn
<1>11. ASSUME NEW i PROVE Pieces(i)' = Pieces(i)
  BY <1>1, <1>10 DEF Pieces
<1>12. ASSUME NEW i, NEW j PROVE Spot(i, j)' = Spot(i, j)
  BY <1>3, <1>11 DEF Spot
<1>13. ASSUME NEW n PROVE Spoilt(n)' = Spoilt(n)
  BY <1>4 DEF Spoilt
<1>14. ASSUME NEW r, NEW s PROVE Free(r, s)' = Free(r, s) /\ Pure(r, s)' = Pure(r, s)
  BY <1>1 DEF Free, Pure
<1>15. ASSUME NEW t, NEW j, NEW r, NEW d, NEW m
       PROVE  Inside(t, j, r, d, m)' = Inside(t, j, r, d, m)
  BY <1>1, <1>3, <1>10, <1>12, <1>13, <1>14 DEF Inside
<1>16. ASSUME NEW t, NEW r, NEW d
       PROVE  Behind(t, r, d)' = Behind(t, r, d) /\ AtRootEnd(t, r, d)' = AtRootEnd(t, r, d)
              /\ Before(t, r, d)' = Before(t, r, d)
  BY <1>1, <1>3 DEF Behind, AtRootEnd, Before
<1>17. ASSUME NEW t, NEW r, NEW d, NEW m
       PROVE  Standing(t, r, d, m)' = Standing(t, r, d, m)
  BY <1>15, <1>16 DEF Standing
<1>18. Sending' = Sending
  <2>1. Written' = Written
    BY <1>1, <1>2 DEF Written
  <2>2. ASSUME NEW n PROVE Readable(n)' = Readable(n)
    BY <1>1, <1>5 DEF Readable
  <2>3. ASSUME NEW n PROVE Arrived(n)' = Arrived(n)
    BY <1>1, <1>3, <2>2 DEF Arrived
  <2>. QED
    BY <1>1, <1>9, <2>1, <2>2, <2>3 DEF Sending
<1>. QED
  BY <1>1, <1>2, <1>3, <1>5, <1>6, <1>7, <1>8, <1>9, <1>16, <1>17, <1>18

\* The longest text.
LEMMA LongestFacts ==
    ASSUME Sending, Laid
    PROVE  /\ Longest \in Nat /\ 3 <= Longest
           /\ \A i \in 1..Len(items) : Len(Item(items[i])) <= Longest
<1>. DEFINE N == Len(items)  S == {Len(RootEnd)} \cup {Len(Item(items[i])) : i \in DOMAIN items}
            b == Extent(N)
<1>1. DOMAIN items = 1..N /\ N \in Nat
  BY SendingFacts
<1>2. Len(RootEnd) = 3
  BY DEF RootEnd
<1>3. b \in Nat /\ 4 <= b
  <2>1. 0 \in 0..N /\ N \in 0..N
    BY <1>1
  <2>2. Extent(0) <= Extent(N)
    BY <2>1, ExtentGrows
  <2>. QED
    BY <2>1, <2>2 DEF Laid
<1>4. ASSUME NEW i \in 1..N PROVE Len(Item(items[i])) \in Nat /\ Len(Item(items[i])) <= b
  <2>1. i - 1 \in 0..N /\ i \in 0..N /\ N \in i..N
    BY <1>1
  <2>2. Extent(i) <= b
    BY <2>1, ExtentGrows
  <2>3. /\ Extent(i - 1) \in Nat /\ Extent(i) \in Nat
        /\ Item(items[i]) \in Seq(Symbol) /\ Extent(i) = Extent(i - 1) + Len(Item(items[i]))
    BY <2>1 DEF Laid, LaidAt
  <2>. DEFINE k == Len(Item(items[i]))  p == Extent(i - 1)  q == Extent(i)
  <2>4. k \in Nat /\ p \in Nat /\ q \in Nat /\ q = p + k /\ q <= b /\ b \in Nat
    BY <1>3, <2>2, <2>3
  <2>. HIDE DEF k, p, q, b
  <2>5. k \in Nat /\ k <= b
    BY ONLY <2>4
  <2>. QED
    BY <2>5 DEF k
<1>5. Longest = Max(S)
  BY Zenon DEF Longest
<1>6. /\ S \in SUBSET Nat /\ S # {} /\ \A x \in S : x <= b
      /\ 3 \in S /\ \A i \in 1..N : Len(Item(items[i])) \in S
  BY <1>1, <1>2, <1>3, <1>4
<1>. HIDE DEF S, b
<1>7. Max(S) \in S /\ \A x \in S : x <= Max(S)
  BY ONLY <1>3, <1>6, GreatestOf
<1>. QED
  BY <1>5, <1>6, <1>7

\* What the invariant gives to every step.
LEMMA InvFacts ==
    ASSUME Inv
    PROVE  /\ Sending /\ Laid /\ TypeOK /\ Counted /\ Given /\ Place /\ Judged
           /\ Len(taken) \in Nat /\ Len(items) \in Nat /\ Len(input) \in Nat
           /\ read \in Nat /\ read <= Len(input) /\ Len(input) <= Len(wire)
           /\ Len(wire) \in Nat /\ ChunkSize \in Nat \ {0}
           /\ Len(wire) = Extent(Len(items)) + 3
           /\ \A i \in 0..Len(items) : Extent(i) \in Nat
<1>1. Sending /\ Laid /\ TypeOK /\ Counted /\ Given /\ Place /\ Judged
  BY WireLaid DEF Inv
<1>2. Len(taken) \in Nat /\ Len(items) \in Nat /\ Len(input) \in Nat
      /\ read \in Nat /\ read <= Len(input) /\ Len(input) <= Len(wire) /\ Len(wire) \in Nat
  BY <1>1 DEF Laid, Counted
<1>. QED
  BY <1>1, <1>2, XmlAssumption DEF Laid

\* The next state of what Node and Rust hold.
LEMMA HeldNext ==
    ASSUME Unmoved, NEW t, t = Len(taken'), NEW o, o = IF t = 0 THEN 0 ELSE Extent(t),
           o <= read', buf' \in Seq(Symbol), Len(buf') = read' - o,
           \A x \in 1..Len(buf') : buf'[x] = wire[o + x]
    PROVE  Held'
<1>1. Base' = o
  <2>1. \A n : Extent(n)' = Extent(n)
    BY SameSending
  <2>2. Base' = IF Len(taken') = 0 THEN 0 ELSE (Extent(Len(taken)))'
    BY DEF Base
  <2>3. (Extent(Len(taken)))' = Extent(t)
    BY <2>1
  <2>. QED
    BY <2>2, <2>3
<1>2. wire' = wire
  BY SameSending
<1>. QED
  BY <1>1, <1>2 DEF Held

\* Steps that hand nothing over.
LEMMA SameGiven ==
    ASSUME Inv, Unmoved, UNCHANGED taken, read' \in read..Len(input)
    PROVE  Sending' /\ Given' /\ Counted' /\ Len(taken)' = Len(taken)
<1>1. /\ Sending' = Sending /\ items' = items /\ input' = input /\ taken' = taken
      /\ \A n : Extent(n)' = Extent(n)
      /\ \A v : Item(v)' = Item(v)
  BY SameSending
<1>2. Sending /\ Given /\ Counted /\ read \in Nat
  BY InvFacts
<1>3. Given'
  BY <1>1, <1>2 DEF Given
<1>4. Counted'
  <2>1. (Extent(Len(taken)))' = Extent(Len(taken))
    BY <1>1
  <2>2. read' \in 0..Len(input)
    BY <1>2
  <2>3. Len(taken) > 0 => Extent(Len(taken)) <= read'
    <3>. SUFFICES ASSUME Len(taken) > 0 PROVE Extent(Len(taken)) <= read'
      OBVIOUS
    <3>1. Extent(Len(taken)) <= read /\ Len(taken) \in 0..Len(items)
      BY <1>2 DEF Counted
    <3>2. Extent(Len(taken)) \in Nat
      BY <3>1, InvFacts
    <3>. QED
      BY <1>2, <3>1, <3>2
  <2>. QED
    BY <1>1, <1>2, <2>1, <2>2, <2>3 DEF Counted
<1>. QED
  BY <1>1, <1>2, <1>3, <1>4

\* A step that hands the next item over.
LEMMA OneGiven ==
    ASSUME Inv, Unmoved, NEW text, taken' = Append(taken, text),
           Len(taken) < Len(items), text = Item(items[Len(taken) + 1]),
           read' \in read..Len(input), Extent(Len(taken) + 1) <= read'
    PROVE  /\ Sending' /\ Given' /\ Counted'
           /\ Len(taken)' = Len(taken) + 1
<1>. DEFINE t == Len(taken)
<1>1. /\ Sending' = Sending /\ items' = items /\ input' = input
      /\ \A n : Extent(n)' = Extent(n)
      /\ \A v : Item(v)' = Item(v)
  BY SameSending
<1>2. /\ Sending /\ Laid /\ Given /\ Counted /\ read \in Nat /\ t \in Nat /\ Len(items) \in Nat
      /\ taken \in Seq(Seq(Symbol))
  BY InvFacts DEF Given
<1>3. t + 1 \in 1..Len(items)
  BY <1>2
<1>4. text \in Seq(Symbol)
  BY <1>2, <1>3 DEF Laid, LaidAt
<1>5. /\ taken' \in Seq(Seq(Symbol)) /\ Len(taken') = t + 1
      /\ \A i \in 1..t : taken'[i] = taken[i]
      /\ taken'[t + 1] = text
  BY <1>2, <1>4, AppendProperties
<1>. HIDE DEF t
<1>6. ASSUME NEW i \in 1..t + 1 PROVE taken'[i] = Item(items[i])
  <2>1. i \in 1..t \/ i = t + 1
    BY <1>2
  <2>. QED
    BY <1>2, <1>5, <2>1 DEF Given, t
<1>7. Given'
  BY <1>1, <1>5, <1>6 DEF Given
<1>8. Counted'
  <2>1. (Extent(Len(taken)))' = Extent(t + 1)
    BY <1>1, <1>5
  <2>2. read' \in 0..Len(input) /\ t + 1 \in 0..Len(items)
    BY <1>2, <1>3
  <2>3. Extent(t + 1) <= read'
    BY DEF t
  <2>. QED
    BY <1>1, <1>5, <2>1, <2>2, <2>3 DEF Counted
<1>. QED
  BY <1>1, <1>2, <1>5, <1>7, <1>8 DEF t

-----------------------------------------------------------------------------
(***************************************************************************)
(* The steps of Node and Rust.                                             *)
(***************************************************************************)
\* The first state.
LEMMA InitInv == Init => Inv
<1>. SUFFICES ASSUME Init PROVE Inv
  OBVIOUS
<1>1. Sending
  BY DEF Init, Sending
<1>2. Laid
  BY <1>1, WireLaid
<1>3. /\ taken = <<>> /\ Len(taken) = 0 /\ buf = <<>> /\ Len(buf) = 0 /\ read = 0
      /\ depth = 0 /\ mark = 0 /\ tree = <<>> /\ outcome = "none" /\ dpc = "read"
  BY DEF Init
<1>4. Len(input) \in Nat /\ Len(items) \in Nat
  BY <1>2 DEF Laid
<1>5. TypeOK
  <2>1. tree \in Seq({"whole", "cleared"})
    BY <1>3
  <2>. QED
    BY <1>1, <1>3, <1>4, <2>1 DEF TypeOK, Sending
<1>6. Counted
  BY <1>3, <1>4 DEF Counted
<1>7. Given
  <2>1. taken \in Seq(Seq(Symbol))
    BY <1>3
  <2>. QED
    BY <1>3, <2>1 DEF Given
<1>8. Place
  <2>1. CASE dec \in Scanners
    <3>1. Held
      <4>1. buf \in Seq(Symbol)
        BY <1>3
      <4>. QED
        BY <1>3, <4>1 DEF Held, Base
    <3>2. Len(buf) < 4 + Longest + ChunkSize
      <4>1. Longest \in Nat /\ ChunkSize \in Nat
        BY <1>1, <1>2, LongestFacts, XmlAssumption
      <4>. QED
        BY <1>3, <4>1
    <3>. QED
      BY <2>1, <3>1, <3>2 DEF Place
  <2>2. CASE dec \notin Scanners
    <3>1. Standing(Len(taken), read, depth, mark)
      BY <1>3 DEF Standing, Before
    <3>2. Clean(Len(taken))
      BY <1>3 DEF Clean
    <3>. QED
      BY <1>3, <2>2, <3>1, <3>2 DEF Place
  <2>. QED
    BY <2>1, <2>2
<1>9. Judged
  BY <1>3 DEF Judged
<1>. QED
  BY <1>1, <1>5, <1>6, <1>7, <1>8, <1>9 DEF Inv

\* Types where only what Node and Rust hold changes.
LEMMA SameTypes ==
    ASSUME Inv, Unmoved, UNCHANGED <<dpc, tagVars, outcome>>, read' \in read..Len(input)
    PROVE  TypeOK'
<1>1. TypeOK /\ read \in Nat
  BY InvFacts
<1>2. enc' = enc /\ dec' = dec /\ input' = input
  BY SameSending
<1>. QED
  BY <1>1, <1>2 DEF TypeOK, tagVars

\* While no item waits the next one is not all there, and what is held is not
\* longer than an item and the root's tag.
LEMMA NoneWaits ==
    ASSUME Inv, dec \in Scanners, ~Waiting
    PROVE  LET t == Len(taken)
           IN  /\ t < Len(items) => read < Extent(t + 1)
               /\ Base \in Nat
               /\ t < Len(items) => Len(buf) < 4 + Longest
               /\ t = Len(items) => Len(wire) - Base <= 4 + Longest
<1>. DEFINE t == Len(taken)  N == Len(items)  a == Extent(t)
<1>1. Sending /\ Laid /\ Counted /\ Held /\ t \in 0..N /\ N \in Nat /\ read \in Nat
      /\ a \in Nat /\ Len(wire) = Extent(N) + 3 /\ Extent(N) \in Nat
  <2>1. /\ Sending /\ Laid /\ Counted /\ Place /\ N \in Nat /\ read \in Nat
        /\ Len(wire) = Extent(N) + 3 /\ \A i \in 0..N : Extent(i) \in Nat
    BY InvFacts
  <2>2. t \in 0..N /\ N \in 0..N
    BY <2>1 DEF Counted
  <2>. QED
    BY <2>1, <2>2 DEF Place
<1>2. /\ Longest \in Nat /\ 3 <= Longest
      /\ \A i \in 1..N : Len(Item(items[i])) <= Longest
  BY <1>1, LongestFacts
<1>3. t < N => read < Extent(t + 1) /\ t + 1 \in 1..N /\ Extent(t + 1) \in Nat
  <2>1. t < N => ~(Extent(t + 1) <= read)
    BY <1>1, SpanIs
  <2>2. t < N => t + 1 \in 1..N /\ t + 1 \in 0..N
    BY <1>1
  <2>3. t < N => Extent(t + 1) \in Nat
    BY <2>2, InvFacts
  <2>. QED
    BY <1>1, <2>1, <2>2, <2>3
<1>4. /\ Base \in Nat /\ Base <= a /\ a - Base <= 4
  <2>1. t = 0 => a = 4
    BY <1>1 DEF Laid
  <2>. QED
    BY <1>1, <2>1 DEF Base
<1>5. Len(buf) = read - Base
  BY <1>1 DEF Held
<1>6. t < N => Len(buf) < 4 + Longest
  <2>. SUFFICES ASSUME t < N PROVE Len(buf) < 4 + Longest
    OBVIOUS
  <2>. DEFINE i == t + 1  k == Len(Item(items[i]))  q == Extent(i)
  <2>1. i \in 1..N /\ i - 1 = t
    BY <1>1, <1>3
  <2>. HIDE DEF i
  <2>2. k \in Nat /\ q = a + k /\ k <= Longest
    <3>1. Item(items[i]) \in Seq(Symbol) /\ Extent(i) = Extent(i - 1) + Len(Item(items[i]))
      BY <1>1, <2>1 DEF Laid, LaidAt
    <3>. QED
      BY <1>2, <2>1, <3>1
  <2>3. read < q
    BY <1>3 DEF i
  <2>. HIDE DEF k, q, a, t, N
  <2>. QED
    BY <1>1, <1>2, <1>4, <1>5, <2>2, <2>3
<1>7. t = N => Len(wire) - Base <= 4 + Longest
  BY <1>1, <1>2, <1>4
<1>. QED
  BY <1>3, <1>4, <1>6, <1>7

\* A read.
LEMMA RefillKeeps ==
    ASSUME Inv, Refill, Unmoved
    PROVE  Inv'
<1>. DEFINE t == Len(taken)  N == Len(items)
<1>1. /\ dec \in Scanners /\ dpc = "read" /\ ~Waiting
      /\ UNCHANGED <<dpc, tagVars, taken, outcome>>
  BY DEF Refill, Scanning
<1>2. PICK n \in 1..ChunkSize :
              /\ read + n <= Len(input) /\ read' = read + n
              /\ buf' = buf \o SubSeq(input, read + 1, read + n)
  BY DEF Refill
<1>3. /\ Sending /\ Laid /\ TypeOK /\ Counted /\ Given /\ Place /\ Judged
      /\ t \in Nat /\ N \in Nat /\ Len(input) \in Nat /\ read \in Nat /\ read <= Len(input)
      /\ Len(input) <= Len(wire) /\ Len(wire) \in Nat /\ ChunkSize \in Nat \ {0}
  BY InvFacts
<1>4. read' \in read..Len(input) /\ n \in Nat \ {0} /\ n <= ChunkSize
  BY <1>2, <1>3
<1>5. Sending' /\ Given' /\ Counted' /\ TypeOK'
  BY <1>1, <1>4, SameGiven, SameTypes
<1>6. /\ Base \in Nat /\ (t < N => Len(buf) < 4 + Longest)
      /\ (t = N => Len(wire) - Base <= 4 + Longest)
  BY <1>1, NoneWaits
<1>7. /\ Base <= read /\ buf \in Seq(Symbol) /\ Len(buf) = read - Base
      /\ \A x \in 1..Len(buf) : buf[x] = wire[Base + x]
  BY <1>1, <1>3 DEF Place, Held
<1>. DEFINE p == SubSeq(input, read + 1, read + n)  c == buf \o p
<1>8. p \in Seq(Symbol) /\ Len(p) = n /\ \A x \in 1..n : p[x] = input[read + x]
  <2>. DEFINE r == read + n
  <2>1. input \in Seq(Symbol) /\ read \in Nat /\ r \in read..Len(input) /\ r - read = n
    BY <1>2, <1>3, <1>4 DEF Laid
  <2>. HIDE DEF r
  <2>2. /\ SubSeq(input, read + 1, r) \in Seq(Symbol)
        /\ Len(SubSeq(input, read + 1, r)) = r - read /\ r - read \in Nat
        /\ \A j \in 1..(r - read) : SubSeq(input, read + 1, r)[j] = input[read + j]
    BY ONLY <2>1, Part
  <2>. QED
    BY <2>1, <2>2 DEF r
<1>9. /\ c \in Seq(Symbol) /\ Len(c) = Len(buf) + n
      /\ \A x \in 1..Len(buf) : c[x] = buf[x]
      /\ \A x \in 1..n : c[Len(buf) + x] = p[x]
  <2>1. buf \in Seq(Symbol) /\ p \in Seq(Symbol)
    BY <1>7, <1>8
  <2>. HIDE DEF p
  <2>2. /\ buf \o p \in Seq(Symbol) /\ Len(buf \o p) = Len(buf) + Len(p)
        /\ \A i \in 1..Len(buf) : (buf \o p)[i] = buf[i]
        /\ \A i \in 1..Len(p) : (buf \o p)[Len(buf) + i] = p[i]
    BY ONLY <2>1, ConcatGrows
  <2>. QED
    BY <1>8, <2>2
<1>10. buf' = c
  BY <1>2
<1>. HIDE DEF p, c
<1>. DEFINE l == Len(buf)
<1>11. l \in Nat /\ l = read - Base /\ Len(c) = l + n
  BY <1>7, <1>9
<1>. HIDE DEF l
<1>12. ASSUME NEW x \in 1..l + n PROVE c[x] = wire[Base + x]
  <2>1. CASE x \in 1..l
    BY <1>7, <1>9, <2>1 DEF l
  <2>2. CASE x \notin 1..l
    <3>1. x - l \in 1..n /\ l + (x - l) = x /\ Base + x = read + (x - l)
          /\ read + (x - l) \in 1..Len(input)
      BY <1>2, <1>3, <1>4, <1>6, <1>11, <2>2
    <3>2. c[x] = input[read + (x - l)]
      BY <1>8, <1>9, <3>1 DEF l
    <3>3. input[read + (x - l)] = wire[read + (x - l)]
      BY <1>3, <3>1 DEF Laid
    <3>. QED
      BY <3>1, <3>2, <3>3
  <2>. QED
    BY <2>1, <2>2
<1>13. Held'
  <2>. DEFINE o == Base
  <2>1. t = Len(taken') /\ o = IF t = 0 THEN 0 ELSE Extent(t)
    BY <1>1 DEF Base
  <2>2. o <= read' /\ buf' \in Seq(Symbol) /\ Len(buf') = read' - o
    <3>1. o \in Nat /\ l = read - o /\ Len(c) = l + n /\ read' = read + n /\ buf' = c
          /\ o <= read /\ read \in Nat /\ n \in Nat /\ c \in Seq(Symbol)
      BY <1>2, <1>3, <1>4, <1>6, <1>7, <1>9, <1>10, <1>11
    <3>. HIDE DEF o
    <3>2. o <= read' /\ Len(c) = read' - o
      <4>. DEFINE lc == Len(c)
      <4>1. lc = l + n
        BY <3>1
      <4>. HIDE DEF lc
      <4>2. o <= read' /\ lc = read' - o
        BY ONLY <1>11, <3>1, <4>1
      <4>. QED
        BY <4>2 DEF lc
    <3>. QED
      BY <3>1, <3>2
  <2>3. \A x \in 1..Len(buf') : buf'[x] = wire[o + x]
    BY <1>10, <1>11, <1>12
  <2>. HIDE DEF o, t
  <2>. QED
    BY <2>1, <2>2, <2>3, HeldNext
<1>14. Len(buf') < 4 + Longest + ChunkSize
  <2>1. Longest \in Nat
    BY <1>3, LongestFacts
  <2>2. Len(buf') = l + n
    BY <1>10, <1>11
  <2>3. CASE t < N
    <3>1. l < 4 + Longest
      BY <1>6, <2>3 DEF l
    <3>. QED
      BY <1>3, <1>4, <1>11, <2>1, <2>2, <3>1
  <2>4. CASE ~(t < N)
    <3>1. t = N
      BY <1>3, <2>4 DEF Counted
    <3>2. l + n <= Len(wire) - Base
      BY <1>2, <1>3, <1>4, <1>6, <1>11
    <3>. QED
      BY <1>3, <1>4, <1>6, <1>11, <2>1, <2>2, <3>1, <3>2
  <2>. QED
    BY <2>3, <2>4
<1>15. Place'
  <2>1. dec' = dec /\ Longest' = Longest
    BY SameSending
  <2>. QED
    BY <1>1, <1>13, <1>14, <2>1 DEF Place
<1>16. Judged'
  <2>1. outcome = "none"
    BY <1>1, <1>3 DEF TypeOK
  <2>. QED
    BY <1>1, <2>1 DEF Judged
<1>. QED
  BY <1>5, <1>15, <1>16 DEF Inv

\* What stands where an item lies is its text.
LEMMA TextIs ==
    ASSUME Laid, NEW t \in Nat, t < Len(items), NEW p \in Seq(Symbol),
           Len(p) = Extent(t + 1) - Extent(t),
           \A x \in 1..Len(p) : p[x] = wire[Extent(t) + x]
    PROVE  p = Item(items[t + 1])
<1>. DEFINE i == t + 1  w == Item(items[i])
<1>1. Len(items) \in Nat
  BY DEF Laid
<1>2. i \in 1..Len(items) /\ i - 1 = t
  BY <1>1
<1>. HIDE DEF i
<1>3. /\ w \in Seq(Symbol) /\ Extent(i) = Extent(i - 1) + Len(w)
      /\ \A x \in 1..Len(w) : wire[Extent(i - 1) + x] = w[x]
  BY <1>2 DEF Laid, LaidAt
<1>4. Extent(t) \in Nat
  <2>1. t \in 0..Len(items)
    BY <1>1
  <2>. QED
    BY <2>1 DEF Laid
<1>5. Len(p) = Len(w)
  <2>. DEFINE a == Extent(t)  k == Len(w)  q == Extent(i)
  <2>1. k \in Nat /\ a \in Nat /\ q = a + k /\ Len(p) = q - a
    BY <1>2, <1>3, <1>4 DEF i
  <2>. HIDE DEF a, k, q
  <2>2. Len(p) = k
    BY ONLY <2>1
  <2>. QED
    BY <2>2 DEF k
<1>6. \A x \in 1..Len(p) : p[x] = w[x]
  BY <1>2, <1>3, <1>5
<1>. HIDE DEF w
<1>7. p = w
  BY ONLY <1>3, <1>5, <1>6, p \in Seq(Symbol), SeqEqual
<1>. QED
  BY <1>7 DEF w, i

\* An item.
LEMMA TakeItemKeeps ==
    ASSUME Inv, TakeItem, Unmoved
    PROVE  Inv'
<1>. DEFINE t == Len(taken)  N == Len(items)  o == Base  L == Len(buf)
            a == Extent(t)  b == Extent(t + 1)
<1>1. dec \in Scanners /\ dpc = "read" /\ UNCHANGED <<dpc, read, tagVars, outcome>>
  BY DEF TakeItem, Scanning
<1>2. PICK span \in Spans :
              /\ span[2] > 0
              /\ taken' = Append(taken, SubSeq(buf, span[1], span[2]))
              /\ buf' = SubSeq(buf, span[2] + 1, Len(buf))
  BY DEF TakeItem, Accept
<1>3. /\ Sending /\ Laid /\ TypeOK /\ Counted /\ Given /\ Place /\ Judged
      /\ t \in Nat /\ N \in Nat /\ read \in Nat /\ read <= Len(input)
      /\ \A i \in 0..N : Extent(i) \in Nat
  BY InvFacts
<1>4. /\ Held /\ o <= read /\ buf \in Seq(Symbol) /\ L = read - o
      /\ \A x \in 1..L : buf[x] = wire[o + x]
  BY <1>1, <1>3 DEF Place, Held
<1>5. /\ t < N /\ b <= read
      /\ span[1] = a + 1 - o /\ span[2] = b - o
  BY <1>2, <1>3, <1>4, SpanIs
<1>6. t + 1 \in 1..N /\ t + 1 \in 0..N /\ t \in 0..N
  BY <1>3, <1>5
<1>7. a \in Nat /\ b \in Nat /\ a <= b /\ o \in Nat /\ o <= a
  <2>1. a \in Nat /\ b \in Nat
    BY <1>3, <1>6
  <2>2. t + 1 \in t..N
    BY <1>3, <1>6
  <2>3. a <= b
    BY <1>3, <1>6, <2>2, ExtentGrows
  <2>. QED
    BY <2>1, <2>3 DEF Base
<1>. HIDE DEF t, N, o, a, b
<1>. DEFINE f == a - o  g == b - o
<1>8. /\ f \in Nat /\ g \in f..L /\ L \in Nat /\ g \in 0..L /\ g \in Nat /\ o + f = a /\ o + g = b
      /\ f + 1 = a + 1 - o /\ g - f = b - a /\ o + L = read /\ L - g = read - b
  BY <1>3, <1>4, <1>5, <1>7
<1>. HIDE DEF f, L
<1>. DEFINE p == SubSeq(buf, f + 1, g)
<1>9. /\ p \in Seq(Symbol) /\ Len(p) = g - f
      /\ \A x \in 1..g - f : p[x] = buf[f + x]
  <2>. HIDE DEF g, p
  <2>1. buf \in Seq(Symbol) /\ f \in Nat /\ g \in f..Len(buf)
    BY <1>4, <1>8 DEF L
  <2>2. /\ SubSeq(buf, f + 1, g) \in Seq(Symbol)
        /\ Len(SubSeq(buf, f + 1, g)) = g - f /\ g - f \in Nat
        /\ \A j \in 1..(g - f) : SubSeq(buf, f + 1, g)[j] = buf[f + j]
    BY ONLY <2>1, Part
  <2>. QED
    BY <2>2 DEF p
<1>10. span[1] = f + 1 /\ span[2] = g
  BY <1>5, <1>8
<1>11. taken' = Append(taken, p)
  BY <1>2, <1>10
<1>12. p = Item(items[t + 1])
  <2>1. \A x \in 1..g - f : p[x] = wire[a + x]
    <3>. TAKE x \in 1..g - f
    <3>. HIDE DEF g
    <3>1. f + x \in 1..L /\ o + (f + x) = a + x
      BY <1>7, <1>8
    <3>2. p[x] = buf[f + x] /\ buf[f + x] = wire[o + (f + x)]
      BY <1>4, <1>9, <3>1
    <3>. QED
      BY <3>1, <3>2
  <2>2. Len(p) = Extent(t + 1) - Extent(t)
    BY <1>8, <1>9 DEF a, b
  <2>3. \A x \in 1..Len(p) : p[x] = wire[Extent(t) + x]
    BY <1>9, <2>1 DEF a
  <2>4. t \in Nat /\ t < Len(items)
    BY <1>3, <1>5 DEF N
  <2>. HIDE DEF p
  <2>. QED
    BY <1>3, <1>9, <2>2, <2>3, <2>4, TextIs
<1>. HIDE DEF p
<1>13. read' \in read..Len(input) /\ Extent(t + 1) <= read'
  <2>1. Len(input) \in Nat
    BY InvFacts
  <2>. QED
    BY <1>1, <1>3, <1>5, <2>1 DEF b
<1>14. Sending' /\ Given' /\ Counted' /\ Len(taken)' = t + 1
  BY <1>5, <1>11, <1>12, <1>13, OneGiven DEF t, N
<1>15. TypeOK'
  BY <1>1, <1>13, SameTypes
<1>. DEFINE q == SubSeq(buf, g + 1, Len(buf))  k == read - b
<1>16. /\ q \in Seq(Symbol) /\ Len(q) = k /\ k \in Nat
       /\ \A x \in 1..k : q[x] = buf[g + x]
  <2>1. buf \in Seq(Symbol) /\ g \in Nat /\ L \in g..Len(buf) /\ L = Len(buf)
        /\ L - g = k
    BY <1>4, <1>8 DEF L
  <2>. HIDE DEF g, k
  <2>2. /\ SubSeq(buf, g + 1, L) \in Seq(Symbol)
        /\ Len(SubSeq(buf, g + 1, L)) = L - g /\ L - g \in Nat
        /\ \A j \in 1..(L - g) : SubSeq(buf, g + 1, L)[j] = buf[g + j]
    BY ONLY <2>1, Part
  <2>. QED
    BY <2>1, <2>2
<1>17. buf' = q
  BY <1>2, <1>10
<1>. HIDE DEF q
<1>18. ASSUME NEW x \in 1..k PROVE q[x] = wire[b + x]
  <2>1. g + x \in 1..L /\ o + (g + x) = b + x
    BY <1>3, <1>5, <1>7, <1>8
  <2>2. q[x] = buf[g + x] /\ buf[g + x] = wire[o + (g + x)]
    BY <1>4, <1>16, <2>1
  <2>. QED
    BY <2>1, <2>2
<1>19. Held'
  <2>. DEFINE T == t + 1
  <2>1. T = Len(taken') /\ b = (IF T = 0 THEN 0 ELSE Extent(T))
    BY <1>6, <1>14 DEF b
  <2>2. b <= read' /\ buf' \in Seq(Symbol) /\ Len(buf') = read' - b
    BY <1>1, <1>5, <1>16, <1>17
  <2>3. \A x \in 1..Len(buf') : buf'[x] = wire[b + x]
    BY <1>16, <1>17, <1>18
  <2>. HIDE DEF T
  <2>. QED
    BY <2>1, <2>2, <2>3, HeldNext
<1>20. Len(buf') < 4 + Longest + ChunkSize
  <2>1. Longest \in Nat /\ ChunkSize \in Nat
    BY <1>3, LongestFacts, InvFacts
  <2>2. L < 4 + Longest + ChunkSize
    BY <1>1, <1>3 DEF Place, L
  <2>3. Len(buf') = k /\ k <= L
    BY <1>3, <1>7, <1>8, <1>16, <1>17
  <2>. QED
    BY <1>8, <1>16, <2>1, <2>2, <2>3
<1>21. Place'
  <2>1. dec' = dec /\ Longest' = Longest
    BY SameSending
  <2>. QED
    BY <1>1, <1>19, <1>20, <2>1 DEF Place
<1>22. Judged'
  <2>1. outcome = "none"
    BY <1>1, <1>3 DEF TypeOK
  <2>. QED
    BY <1>1, <2>1 DEF Judged
<1>. QED
  BY <1>14, <1>15, <1>21, <1>22 DEF Inv

\* The end of what Node and Rust read.
LEMMA ScanEndsKeeps ==
    ASSUME Inv, ScanEnds, Unmoved
    PROVE  Inv'
<1>. DEFINE t == Len(taken)
<1>1. /\ dec \in Scanners /\ dpc = "read" /\ ~Waiting /\ read = Len(input)
      /\ outcome' = "complete" /\ dpc' = "done"
      /\ UNCHANGED <<scanVars, tagVars, taken>>
  BY DEF ScanEnds, Scanning, AtEnd, Stop
<1>2. /\ Sending /\ Laid /\ TypeOK /\ Counted /\ Given /\ Place /\ Judged
      /\ read \in Nat /\ t \in Nat /\ Len(items) \in Nat
      /\ \A i \in 0..Len(items) : Extent(i) \in Nat
  BY InvFacts
<1>3. /\ dec' = dec /\ Longest' = Longest /\ input' = input /\ enc' = enc /\ items' = items
      /\ \A n : Missing(n)' = Missing(n)
      /\ \A n : Extent(n)' = Extent(n)
  BY SameSending
<1>4. read' = read /\ buf' = buf /\ taken' = taken
  BY <1>1 DEF scanVars
<1>5. Sending' /\ Given' /\ Counted' /\ Len(taken)' = t
  <2>1. read' \in read..Len(input)
    BY <1>1, <1>2, <1>4
  <2>. QED
    BY <1>1, <2>1, SameGiven
<1>6. TypeOK'
  BY <1>1, <1>2, <1>3, <1>4 DEF TypeOK, tagVars
<1>7. Place'
  <2>1. Held /\ Len(buf) < 4 + Longest + ChunkSize
    BY <1>1, <1>2 DEF Place
  <2>2. Held'
    <3>. DEFINE o == Base
    <3>1. t = Len(taken') /\ o = IF t = 0 THEN 0 ELSE Extent(t)
      BY <1>4 DEF Base
    <3>2. o <= read' /\ buf' \in Seq(Symbol) /\ Len(buf') = read' - o
          /\ \A x \in 1..Len(buf') : buf'[x] = wire[o + x]
      BY <1>4, <2>1 DEF Held
    <3>. HIDE DEF o, t
    <3>. QED
      BY <3>1, <3>2, HeldNext
  <2>. QED
    BY <1>1, <1>3, <1>4, <2>1, <2>2 DEF Place
<1>8. Missing(t)
  <2>1. t < Len(items) => read < Extent(t + 1)
    BY <1>1, NoneWaits
  <2>. QED
    BY <1>1, <2>1 DEF Missing
<1>9. Judged'
  <2>1. Missing(Len(taken))'
    <3>1. Len(taken') = t
      BY <1>4
    <3>2. (Extent(Len(taken) + 1))' = Extent(t + 1)
      BY <1>3, <3>1
    <3>3. Missing(Len(taken))' <=> (Len(taken') < Len(items') => Len(input') < (Extent(Len(taken) + 1))')
      BY DEF Missing
    <3>. QED
      BY <1>3, <1>8, <3>1, <3>2, <3>3 DEF Missing
  <2>. QED
    BY <1>1, <1>3, <2>1 DEF Judged
<1>. QED
  BY <1>5, <1>6, <1>7, <1>9 DEF Inv

-----------------------------------------------------------------------------
(***************************************************************************)
(* The steps of Python and Go.                                             *)
(***************************************************************************)
\* Inside an item its tag is open at least as long as the root's.
LEMMA InsideDepth ==
    ASSUME Sending, Laid, NEW t \in Nat, NEW j \in Nat, NEW r, NEW d, NEW m,
           Inside(t, j, r, d, m)
    PROVE  d \in Nat \ {0}
<1>. DEFINE i == t + 1  M == NodesIn(i)  v == items[i]
<1>1. t < Len(items) /\ j \in 1..M /\ d = Level(v, j - 1)
  BY DEF Inside
<1>2. i \in 1..Len(items)
  BY <1>1 DEF Laid
<1>3. /\ M \in Nat \ {0} /\ Level(v, 0) = 1
      /\ \A k \in 1..M - 1 : Level(v, k) \in Nat /\ Level(v, k) > 1
  BY <1>2, NodeFacts
<1>. HIDE DEF i, M, v
<1>4. CASE j = 1
  <2>1. j - 1 = 0
    BY <1>4
  <2>. QED
    BY <1>1, <1>3, <2>1
<1>5. CASE j # 1
  <2>. DEFINE k == j - 1
  <2>1. k \in 1..M - 1
    BY <1>1, <1>3, <1>5
  <2>2. d \in Nat /\ d > 1
    BY <1>1, <1>3, <2>1
  <2>. QED
    BY <2>2
<1>. QED
  BY <1>4, <1>5

\* The tag before which a decoder stands, and what it is.
RootBegins(t, s, e) ==
    /\ Before(t, read, depth) /\ s = 1 /\ e = 4 /\ ~Awry(s, e) /\ Pure(read, e)
    /\ wire[s + 1].c = "open" /\ wire[e - 1] # Slash
RootCloses(t, s, e) ==
    /\ AtRootEnd(t, read, depth) /\ s = Extent(t) /\ e = Len(wire) /\ Pure(read, e)
    /\ wire[s + 1].c = "close"
ItemTag(t, s, e) ==
    \E j \in Nat : Inside(t, j, read, depth, mark) /\ s = Spot(t + 1, j) /\ TagOf(t, j, e)
Ahead(t, s, e) ==
    /\ Upcoming(s, e) /\ e \in Nat
    /\ t < Len(items) => e <= Extent(t + 1)
    /\ ~(depth = 0 /\ read > 0)
    /\ RootBegins(t, s, e) \/ RootCloses(t, s, e) \/ ItemTag(t, s, e)

\* There is such a tag unless the root is closed.
LEMMA NextTag ==
    ASSUME Inv, Parsing, NEW t, t = Len(taken)
    PROVE  \/ Behind(t, read, depth) /\ TagEnd = 0
           \/ \E s, e : Ahead(t, s, e)
<1>. DEFINE N == Len(items)
<1>1. /\ Sending /\ Laid /\ Place /\ t \in Nat /\ N \in Nat /\ read \in Nat
      /\ Len(wire) \in Nat /\ Len(wire) = Extent(N) + 3
      /\ \A i \in 0..N : Extent(i) \in Nat
  BY InvFacts
<1>2. Standing(t, read, depth, mark)
  BY <1>1 DEF Parsing, Place
<1>3. CASE Behind(t, read, depth)
  <2>1. TagEnd = 0
    BY <1>1, <1>3, NoTag DEF Behind
  <2>. QED
    BY <1>3, <2>1
<1>4. CASE Before(t, read, depth)
  <2>1. /\ wire[2] = Open("item") /\ wire[3] = Plural /\ wire[4] = Gt /\ wire[1] = Prolog
        /\ Extent(0) = 4
    BY <1>1 DEF Laid
  <2>2. t = 0 /\ read = 0 /\ depth = 0
    BY <1>4 DEF Before
  <2>3. 0 \in 0..N /\ N \in 0..N
    BY <1>1
  <2>4. 4 <= Extent(N)
    BY <1>1, <2>1, <2>3, ExtentGrows
  <2>5. Upcoming(1, 4)
    <3>1. Free(read, 1)
      <4>1. ASSUME NEW x \in 0 + 1..1 PROVE wire[x].c \notin {"open", "close", "gt"}
        <5>1. x = 1
          BY <4>1
        <5>. QED
          BY <2>1, <5>1, Signs
      <4>. QED
        BY <2>2, <4>1 DEF Free
    <3>2. ASSUME NEW x \in 1 + 2..4 - 1 PROVE wire[x] # Gt
      <4>1. x = 3
        BY <3>2
      <4>. QED
        BY <2>1, <4>1, Signs
    <3>3. 4 \in 1 + 2..Len(wire)
      <4>1. Extent(N) \in Nat
        BY <1>1, <2>3
      <4>. QED
        BY <1>1, <2>4, <4>1
    <3>4. wire[1 + 1].c = "open"
      BY <2>1, Signs
    <3>. QED
      BY <2>1, <2>2, <3>1, <3>2, <3>3, <3>4 DEF Upcoming
  <2>6. ~Awry(1, 4)
    <3>1. ASSUME NEW x \in 1 + 1..4 - 1 PROVE wire[x] # Quote
      <4>1. x = 2 \/ x = 3
        BY <3>1
      <4>. QED
        BY <2>1, <4>1, Signs
    <3>. QED
      BY <3>1 DEF Awry
  <2>6a. Pure(0, 4)
    <3>1. ASSUME NEW x \in 0 + 1..4 PROVE wire[x] # Illegal
      <4>1. x = 1 \/ x = 2 \/ x = 3 \/ x = 4
        BY <3>1
      <4>. QED
        BY <2>1, <4>1, Signs
    <3>. QED
      BY <3>1 DEF Pure
  <2>7. 0 < N => 4 <= Extent(0 + 1)
    <3>1. 0 < N => 0 \in 0..N /\ 0 + 1 \in 0..N
      BY <1>1
    <3>. QED
      BY <1>1, <2>1, <3>1, ExtentGrows
  <2>8. wire[1 + 1].c = "open" /\ wire[4 - 1] # Slash
    BY <2>1, Signs
  <2>9. RootBegins(t, 1, 4)
    BY <1>4, <2>2, <2>6, <2>6a, <2>8 DEF RootBegins
  <2>10. Ahead(t, 1, 4)
    BY <2>2, <2>5, <2>7, <2>9 DEF Ahead
  <2>. QED
    BY <2>10
<1>5. CASE AtRootEnd(t, read, depth)
  <2>. DEFINE E == Extent(N)  W == Len(wire)
  <2>1. /\ wire[E + 1] = Close("item") /\ wire[E + 2] = Plural /\ wire[E + 3] = Gt
        /\ t = N /\ read = E /\ depth = 1
    BY <1>1, <1>5 DEF Laid, AtRootEnd
  <2>2. E \in Nat /\ W = E + 3 /\ W \in Nat
    <3>1. N \in 0..N
      BY <1>1
    <3>. QED
      BY <1>1, <3>1
  <2>. HIDE DEF E, W
  <2>3. Free(E, E)
    BY <2>2 DEF Free
  <2>4. ASSUME NEW x \in E + 2..W - 1 PROVE wire[x] # Gt
    <3>1. x = E + 2
      BY <2>2, <2>4
    <3>. QED
      BY <2>1, <3>1, Signs
  <2>5. wire[E + 1].c = "close"
    BY <2>1, Signs
  <2>6. W \in E + 2..W /\ wire[W] = Gt /\ E <= E
    BY <2>1, <2>2
  <2>7. Upcoming(E, W)
    BY <2>1, <2>2, <2>3, <2>4, <2>5, <2>6 DEF Upcoming, W
  <2>7a. Pure(E, W)
    <3>1. ASSUME NEW x \in E + 1..W PROVE wire[x] # Illegal
      <4>1. x = E + 1 \/ x = E + 2 \/ x = E + 3
        BY <2>2, <3>1
      <4>. QED
        BY <2>1, <4>1, Signs
    <3>. QED
      BY <3>1 DEF Pure
  <2>8. RootCloses(t, E, W)
    BY <1>5, <2>1, <2>5, <2>7a DEF RootCloses, E, W
  <2>9. ~(t < N)
    BY <1>1, <2>1
  <2>10. Ahead(t, E, W)
    BY <2>1, <2>2, <2>7, <2>8, <2>9 DEF Ahead
  <2>. QED
    BY <2>10
<1>6. ASSUME NEW j \in Nat, Inside(t, j, read, depth, mark)
      PROVE  \E s, e : Ahead(t, s, e)
  <2>1. PICK e : TagOf(t, j, e)
    BY <1>1, <1>6, InsideTag
  <2>. DEFINE s == Spot(t + 1, j)
  <2>2. Upcoming(s, e) /\ e <= Extent(t + 1)
    BY <2>1 DEF TagOf
  <2>3. e \in Nat
    BY <1>1, <2>2 DEF Upcoming
  <2>4. depth # 0
    BY <1>1, <1>6, InsideDepth
  <2>5. ItemTag(t, s, e)
    BY <1>6, <2>1 DEF ItemTag
  <2>. HIDE DEF s
  <2>6. Ahead(t, s, e)
    BY <2>2, <2>3, <2>4, <2>5 DEF Ahead
  <2>. QED
    BY <2>6
<1>. QED
  BY <1>2, <1>3, <1>4, <1>5, <1>6 DEF Standing

\* A step of theirs that hands nothing over.
LEMMA ParserMoves ==
    ASSUME Inv, Parsing, Unmoved, UNCHANGED <<buf, dpc, taken, outcome>>,
           read' \in read..Len(input), depth' \in Nat, mark' \in 0..Len(input),
           tree' \in Seq({"whole", "cleared"}),
           Standing(Len(taken), read', depth', mark')
    PROVE  Inv'
<1>1. /\ dec \notin Scanners /\ Sending /\ TypeOK /\ Place /\ read \in Nat /\ outcome = "none"
  BY InvFacts DEF Parsing, TypeOK
<1>2. /\ enc' = enc /\ dec' = dec /\ input' = input
      /\ \A n : Clean(n)' = Clean(n)
      /\ \A t, r, d, m : Standing(t, r, d, m)' = Standing(t, r, d, m)
  BY SameSending
<1>3. Sending' /\ Given' /\ Counted'
  BY SameGiven
<1>4. TypeOK'
  BY <1>1, <1>2 DEF TypeOK
<1>5. Place'
  <2>1. taken' = taken /\ buf' = buf
    OBVIOUS
  <2>2. Clean(Len(taken))'
    BY <1>1, <1>2, <2>1 DEF Place, Clean
  <2>3. Standing(Len(taken), read, depth, mark)'
    BY <1>2, <2>1
  <2>. QED
    BY <1>1, <1>2, <2>1, <2>2, <2>3 DEF Place
<1>6. Judged'
  BY <1>1 DEF Judged
<1>. QED
  BY <1>3, <1>4, <1>5, <1>6 DEF Inv

\* One that hands over the item that ends there.
LEMMA ParserHands ==
    ASSUME Inv, Parsing, Unmoved, UNCHANGED buf, NEW text, Deliver(text),
           Len(taken) < Len(items), text = Item(items[Len(taken) + 1]),
           ~Malformed(items[Len(taken) + 1]),
           read' = Extent(Len(taken) + 1), read' \in read..Len(input),
           depth' = 1, mark' \in 0..Len(input), tree' \in Seq({"whole", "cleared"})
    PROVE  Inv'
<1>. DEFINE t == Len(taken)  T == t + 1
<1>1. /\ dec \notin Scanners /\ Sending /\ Laid /\ TypeOK /\ Place /\ read \in Nat
      /\ t \in Nat /\ Len(items) \in Nat /\ outcome = "none" /\ dpc = "read"
      /\ \A i \in 0..Len(items) : Extent(i) \in Nat
  BY InvFacts DEF Parsing, TypeOK
<1>2. T \in 0..Len(items)
  BY <1>1
<1>3. /\ enc' = enc /\ dec' = dec /\ input' = input /\ items' = items
      /\ \A v : Malformed(v)' = Malformed(v)
      /\ \A u, r, d, m : Standing(u, r, d, m)' = Standing(u, r, d, m)
  BY SameSending
<1>4. /\ taken' = Append(taken, text)
      /\ \/ dpc' = "yielded" /\ outcome' = "none"
         \/ dpc' = "read" /\ outcome' = "none"
         \/ dpc' = "done" /\ outcome' = "stopped"
  BY <1>1 DEF Deliver, Accept, Stop
<1>5. Extent(T) <= read'
  BY <1>1, <1>2
<1>6. Sending' /\ Given' /\ Counted' /\ Len(taken)' = T
  BY <1>4, <1>5, OneGiven
<1>7. TypeOK'
  BY <1>1, <1>3, <1>4 DEF TypeOK
<1>8. Place'
  <2>1. Standing(T, Extent(T), 1, mark')
    BY <1>1, <1>2, NextItem
  <2>2. Standing(Len(taken), read, depth, mark)'
    BY <1>3, <1>6, <2>1
  <2>3. \A i \in 1..T : ~Malformed(items[i])
    <3>1. \A i \in 1..t : ~Malformed(items[i])
      BY <1>1 DEF Place, Clean
    <3>2. \A i \in 1..T : i \in 1..t \/ i = T
      BY <1>1
    <3>. QED
      BY <3>1, <3>2
  <2>4. Clean(Len(taken))'
    BY <1>3, <1>6, <2>3 DEF Clean
  <2>5. buf' = <<>>
    BY <1>1 DEF Place
  <2>. QED
    BY <1>1, <1>3, <2>2, <2>4, <2>5 DEF Place
<1>9. Judged'
  BY <1>4 DEF Judged
<1>. QED
  BY <1>6, <1>7, <1>8, <1>9 DEF Inv

\* The text from where an item began to its end.
LEMMA TextOf ==
    ASSUME Laid, NEW t \in Nat, t < Len(items), NEW p,
           Extent(t + 1) \in Nat, Extent(t + 1) <= Len(input),
           p = SubSeq(input, Extent(t) + 1, Extent(t + 1))
    PROVE  p = Item(items[t + 1])
<1>. DEFINE a == Extent(t)  b == Extent(t + 1)  L == Len(input)
<1>1. /\ a \in Nat /\ L \in Nat /\ input \in Seq(Symbol) /\ b \in Nat /\ b <= L
      /\ \A x \in 1..L : input[x] = wire[x]
  BY DEF Laid
<1>2. a <= b
  <2>1. Len(items) \in Nat
    BY DEF Laid
  <2>2. t \in 0..Len(items) /\ t + 1 \in t..Len(items)
    BY <2>1
  <2>. QED
    BY <2>2, ExtentGrows
<1>3. p = SubSeq(input, a + 1, b)
  OBVIOUS
<1>. HIDE DEF a, b
<1>4. /\ p \in Seq(Symbol) /\ Len(p) = b - a
      /\ \A x \in 1..(b - a) : p[x] = input[a + x]
  <2>1. b \in a..Len(input)
    BY <1>1, <1>2
  <2>2. /\ SubSeq(input, a + 1, b) \in Seq(Symbol)
        /\ Len(SubSeq(input, a + 1, b)) = b - a /\ b - a \in Nat
        /\ \A j \in 1..(b - a) : SubSeq(input, a + 1, b)[j] = input[a + j]
    BY ONLY <1>1, <2>1, Part
  <2>. QED
    BY <1>3, <2>2
<1>5. ASSUME NEW x \in 1..(b - a) PROVE p[x] = wire[a + x]
  <2>1. a + x \in 1..L
    BY <1>1, <1>2
  <2>. QED
    BY <1>1, <1>4, <2>1
<1>. QED
  BY <1>4, <1>5, TextIs DEF a, b

\* What a whole tag is, where all of it arrived.
LEMMA TagIs ==
    ASSUME Inv, Parsing, TagEnd > 0
    PROVE  \E s, e :
              /\ Ahead(Len(taken), s, e) /\ s \in Nat /\ e \in Nat /\ s < e
              /\ read <= s /\ e <= Len(input)
              /\ TagEnd = e /\ TagStart = s + 1
              /\ Tag \in Seq(Symbol) /\ Len(Tag) = e - s
              /\ \A x \in 1..e - s : Tag[x] = wire[s + x]
              /\ Opens <=> wire[s + 1].c = "open"
              /\ Closes <=> wire[s + 1].c = "close"
              /\ IsEmpty <=> wire[e - 1] = Slash
              /\ WellFormed(Tag) <=> ~Awry(s, e)
              /\ Legal <=> Pure(read, e)
<1>1. Laid /\ read \in 0..Len(input)
  BY InvFacts
<1>2. TagEnd # 0
  OBVIOUS
<1>3. PICK s, e : Ahead(Len(taken), s, e)
  BY <1>2, NextTag
<1>4. Upcoming(s, e) /\ e \in Nat
  BY <1>3 DEF Ahead
<1>5. s \in Nat /\ read <= s /\ e \in s + 2..Len(wire) /\ Len(wire) \in Nat
  BY <1>1, <1>4, InvFacts DEF Upcoming
<1>6. e <= Len(input)
  BY <1>1, <1>2, <1>4, TagFound
<1>7. /\ TagEnd = e /\ TagStart = s + 1
      /\ Tag \in Seq(Symbol) /\ Len(Tag) = e - s
      /\ \A x \in 1..e - s : Tag[x] = wire[s + x]
      /\ Tag[1].c = wire[s + 1].c
      /\ IsEmpty <=> wire[e - 1] = Slash
      /\ WellFormed(Tag) <=> ~Awry(s, e)
      /\ Legal <=> Pure(read, e)
  BY <1>1, <1>4, <1>6, TagFound
<1>8. Opens <=> wire[s + 1].c = "open"
  BY <1>7 DEF Opens
<1>9. Closes <=> wire[s + 1].c = "close"
  BY <1>7 DEF Closes
<1>10. s < e
  BY <1>5
<1>. QED
  BY <1>3, <1>4, <1>5, <1>6, <1>7, <1>8, <1>9, <1>10

\* A start tag.
LEMMA StartTagKeeps ==
    ASSUME Inv, StartTag, Unmoved
    PROVE  Inv'
<1>. DEFINE t == Len(taken)
<1>1. /\ Parsing /\ Opens /\ WellFormed(Tag) /\ Legal /\ TagEnd > 0
      /\ read' = TagEnd /\ depth' = (IF IsEmpty THEN depth ELSE depth + 1)
      /\ IF depth = 1 THEN tree' = Hang /\ mark' = TagStart ELSE UNCHANGED <<tree, mark>>
      /\ IF depth = 1 /\ IsEmpty THEN Deliver(Tag) ELSE UNCHANGED <<dpc, taken, outcome>>
      /\ UNCHANGED buf
  BY DEF StartTag, Opens
<1>2. /\ Sending /\ Laid /\ TypeOK /\ Place /\ t \in Nat /\ Len(items) \in Nat /\ read \in Nat
      /\ Len(input) \in Nat /\ \A i \in 0..Len(items) : Extent(i) \in Nat
  BY InvFacts
<1>3. PICK s, e :
        /\ Ahead(t, s, e) /\ s \in Nat /\ e \in Nat /\ s < e
        /\ read <= s /\ e <= Len(input)
        /\ TagEnd = e /\ TagStart = s + 1
        /\ Tag \in Seq(Symbol) /\ Len(Tag) = e - s
        /\ \A x \in 1..e - s : Tag[x] = wire[s + x]
        /\ Opens <=> wire[s + 1].c = "open"
        /\ Closes <=> wire[s + 1].c = "close"
        /\ IsEmpty <=> wire[e - 1] = Slash
        /\ WellFormed(Tag) <=> ~Awry(s, e)
        /\ Legal <=> Pure(read, e)
  BY <1>1, TagIs
<1>4. /\ wire[s + 1].c = "open" /\ ~Awry(s, e) /\ Pure(read, e)
      /\ read' = e /\ read' \in read..Len(input)
  BY <1>1, <1>2, <1>3
<1>5. tree' \in Seq({"whole", "cleared"}) /\ mark' \in 0..Len(input)
  <2>1. tree \in Seq({"whole", "cleared"}) /\ mark \in 0..Len(input)
    BY <1>2 DEF TypeOK
  <2>2. Append(tree, "whole") \in Seq({"whole", "cleared"})
    BY <2>1
  <2>3. Hang \in Seq({"whole", "cleared"})
    BY <2>1, <2>2 DEF Hang
  <2>4. s + 1 \in 0..Len(input)
    BY <1>2, <1>3
  <2>. QED
    BY <1>1, <1>3, <2>1, <2>3, <2>4
<1>6. CASE RootBegins(t, s, e)
  <2>1. t = 0 /\ depth = 0 /\ e = 4 /\ ~IsEmpty
    BY <1>3, <1>6 DEF RootBegins, Before
  <2>2. depth' = 1 /\ UNCHANGED <<dpc, taken, outcome>>
    BY <1>1, <2>1
  <2>3. Extent(0) = 4 /\ 0 \in 0..Len(items)
    BY <1>2 DEF Laid
  <2>4. Standing(0, Extent(0), 1, mark')
    BY <1>2, <2>3, NextItem
  <2>5. Standing(t, read', depth', mark')
    BY <1>4, <2>1, <2>2, <2>3, <2>4
  <2>. QED
    BY <1>1, <1>4, <1>5, <2>2, <2>5, ParserMoves
<1>7. CASE RootCloses(t, s, e)
  BY <1>4, <1>7 DEF RootCloses
<1>8. ASSUME NEW j \in Nat, Inside(t, j, read, depth, mark), s = Spot(t + 1, j),
             TagOf(t, j, e)
      PROVE  Inv'
  <2>. DEFINE n == NodeOf(t + 1, j)  m == Extent(t) + 1
  <2>1. t + 1 \in 1..Len(items) /\ n.v.t # "end"
    BY <1>4, <1>8 DEF TagOf
  <2>2. /\ wire[e - 1] = Slash <=> n.v.t = "null"
        /\ depth = 1 => s = Extent(t)
        /\ depth # 1 => mark = m
        /\ \/ n.v.t = "null" /\ depth = 1 /\ e = Extent(t + 1) /\ ~Malformed(items[t + 1])
           \/ n.v.t = "null" /\ depth # 1 /\ Inside(t, j + 1, e, depth, m)
           \/ n.v.t # "null" /\ depth \in Nat /\ Inside(t, j + 1, e, depth + 1, m)
    BY <1>4, <1>8, <2>1 DEF TagOf
  <2>3. mark' = m
    BY <1>1, <1>3, <2>2
  <2>4. IsEmpty <=> n.v.t = "null"
    BY <1>3, <2>2
  <2>. HIDE DEF n, m
  <2>5. CASE n.v.t = "null" /\ depth = 1
    <3>1. e = Extent(t + 1) /\ ~Malformed(items[t + 1]) /\ s = Extent(t)
      BY <2>2, <2>5
    <3>2. Deliver(Tag) /\ depth' = 1
      BY <1>1, <2>4, <2>5
    <3>3. t < Len(items)
      BY <1>2, <2>1
    <3>4. Tag = Item(items[t + 1])
      <4>1. Len(Tag) = Extent(t + 1) - Extent(t)
        BY <1>3, <3>1
      <4>2. \A x \in 1..Len(Tag) : Tag[x] = wire[Extent(t) + x]
        BY <1>3, <3>1
      <4>. QED
        BY <1>2, <1>3, <3>3, <4>1, <4>2, TextIs
    <3>. QED
      BY <1>1, <1>4, <1>5, <3>1, <3>2, <3>3, <3>4, ParserHands
  <2>6. CASE ~(n.v.t = "null" /\ depth = 1)
    <3>1. UNCHANGED <<dpc, taken, outcome>>
      BY <1>1, <2>4, <2>6
    <3>2. depth \in Nat
      BY <1>2 DEF TypeOK
    <3>3. depth' \in Nat /\ Inside(t, j + 1, e, depth', m)
      BY <1>1, <2>2, <2>4, <2>6, <3>2
    <3>4. Standing(t, read', depth', mark')
      <4>1. j + 1 \in Nat
        OBVIOUS
      <4>. QED
        BY <1>4, <2>3, <3>3, <4>1 DEF Standing
    <3>. QED
      BY <1>1, <1>4, <1>5, <3>1, <3>3, <3>4, ParserMoves
  <2>. QED
    BY <2>5, <2>6
<1>. QED
  BY <1>3, <1>6, <1>7, <1>8 DEF Ahead, ItemTag

\* An end tag.
LEMMA EndTagKeeps ==
    ASSUME Inv, EndTag, Unmoved
    PROVE  Inv'
<1>. DEFINE t == Len(taken)
<1>1. /\ Parsing /\ Closes /\ Legal /\ TagEnd > 0
      /\ read' = TagEnd /\ depth' = depth - 1
      /\ IF depth' = 1 THEN Deliver(SubSeq(input, mark, TagEnd))
                       ELSE UNCHANGED <<dpc, taken, outcome>>
      /\ UNCHANGED <<buf, mark, tree>>
  BY DEF EndTag, Closes
<1>2. /\ Sending /\ Laid /\ TypeOK /\ Place /\ t \in Nat /\ Len(items) \in Nat /\ read \in Nat
      /\ Len(input) \in Nat /\ \A i \in 0..Len(items) : Extent(i) \in Nat
      /\ Len(wire) \in Nat /\ Len(input) <= Len(wire)
  BY InvFacts
<1>3. PICK s, e :
        /\ Ahead(t, s, e) /\ s \in Nat /\ e \in Nat /\ s < e
        /\ read <= s /\ e <= Len(input)
        /\ TagEnd = e
        /\ Closes <=> wire[s + 1].c = "close"
        /\ Legal <=> Pure(read, e)
  BY <1>1, TagIs
<1>4. /\ wire[s + 1].c = "close" /\ Pure(read, e)
      /\ read' = e /\ read' \in read..Len(input)
  BY <1>1, <1>2, <1>3
<1>5. /\ tree' \in Seq({"whole", "cleared"}) /\ mark' \in 0..Len(input)
      /\ UNCHANGED <<buf, mark, tree>>
  BY <1>1, <1>2 DEF TypeOK
<1>6. CASE RootBegins(t, s, e)
  BY <1>4, <1>6 DEF RootBegins
<1>7. CASE RootCloses(t, s, e)
  <2>1. t = Len(items) /\ depth = 1 /\ e = Len(wire)
    BY <1>7 DEF RootCloses, AtRootEnd
  <2>2. depth' = 0 /\ UNCHANGED <<dpc, taken, outcome>>
    BY <1>1, <2>1
  <2>3. Behind(t, read', depth')
    BY <1>4, <2>1, <2>2 DEF Behind
  <2>4. Standing(t, read', depth', mark')
    BY <2>3 DEF Standing
  <2>. QED
    BY <1>1, <1>4, <1>5, <2>2, <2>4, ParserMoves
<1>8. ASSUME NEW j \in Nat, Inside(t, j, read, depth, mark), s = Spot(t + 1, j),
             TagOf(t, j, e)
      PROVE  Inv'
  <2>1. /\ t + 1 \in 1..Len(items) /\ mark = Extent(t) + 1
        /\ \/ depth - 1 = 1 /\ e = Extent(t + 1) /\ ~Malformed(items[t + 1])
           \/ depth - 1 \in Nat \ {1} /\ Inside(t, j + 1, e, depth - 1, mark)
    BY <1>4, <1>8 DEF TagOf
  <2>2. CASE depth - 1 = 1
    <3>1. e = Extent(t + 1) /\ ~Malformed(items[t + 1]) /\ depth' = 1
      BY <1>1, <2>1, <2>2
    <3>. DEFINE p == SubSeq(input, mark, TagEnd)
    <3>2. Deliver(p)
      BY <1>1, <3>1
    <3>3. t < Len(items)
      BY <1>2, <2>1
    <3>4. p = SubSeq(input, Extent(t) + 1, Extent(t + 1))
      BY <1>3, <2>1, <3>1
    <3>. HIDE DEF p
    <3>5. p = Item(items[t + 1])
      BY <1>2, <1>3, <3>1, <3>3, <3>4, TextOf
    <3>. QED
      BY <1>1, <1>4, <1>5, <3>1, <3>2, <3>3, <3>5, ParserHands
  <2>3. CASE depth - 1 # 1
    <3>1. depth' \in Nat /\ Inside(t, j + 1, e, depth', mark') /\ UNCHANGED <<dpc, taken, outcome>>
      BY <1>1, <2>1, <2>3
    <3>2. Standing(t, read', depth', mark')
      <4>1. j + 1 \in Nat
        OBVIOUS
      <4>. QED
        BY <1>4, <3>1, <4>1 DEF Standing
    <3>. QED
      BY <1>1, <1>4, <1>5, <3>1, <3>2, ParserMoves
  <2>. QED
    BY <2>2, <2>3
<1>. QED
  BY <1>3, <1>6, <1>7, <1>8 DEF Ahead, ItemTag

\* Where nothing is read, held or handed over, a decoder stays where it is.
LEMMA PlaceStays ==
    ASSUME Inv, Unmoved, UNCHANGED <<read, buf, depth, mark, taken>>
    PROVE  Sending' /\ Given' /\ Counted' /\ Place'
<1>. DEFINE t == Len(taken)
<1>1. /\ Place /\ read \in Nat /\ read <= Len(input) /\ Len(input) \in Nat
  BY InvFacts
<1>2. /\ dec' = dec /\ Longest' = Longest
      /\ \A n : Clean(n)' = Clean(n)
      /\ \A u, r, d, m : Standing(u, r, d, m)' = Standing(u, r, d, m)
  BY SameSending
<1>3. Sending' /\ Given' /\ Counted'
  <2>1. read' \in read..Len(input)
    BY <1>1
  <2>. QED
    BY <2>1, SameGiven
<1>4. taken' = taken /\ read' = read /\ buf' = buf /\ depth' = depth /\ mark' = mark
  OBVIOUS
<1>5. Place'
  <2>1. CASE dec \in Scanners
    <3>1. Held /\ Len(buf) < 4 + Longest + ChunkSize
      BY <1>1, <2>1 DEF Place
    <3>2. Held'
      <4>. DEFINE o == Base
      <4>1. t = Len(taken') /\ o = IF t = 0 THEN 0 ELSE Extent(t)
        BY <1>4 DEF Base
      <4>2. o <= read' /\ buf' \in Seq(Symbol) /\ Len(buf') = read' - o
            /\ \A x \in 1..Len(buf') : buf'[x] = wire[o + x]
        BY <1>4, <3>1 DEF Held
      <4>. HIDE DEF o, t
      <4>. QED
        BY <4>1, <4>2, HeldNext
    <3>. QED
      BY <1>2, <1>4, <2>1, <3>1, <3>2 DEF Place
  <2>2. CASE dec \notin Scanners
    <3>1. Standing(Len(taken), read, depth, mark) /\ Clean(Len(taken)) /\ buf = <<>>
      BY <1>1, <2>2 DEF Place
    <3>2. Clean(Len(taken))'
      BY <1>2, <1>4, <3>1 DEF Clean
    <3>3. Standing(Len(taken), read, depth, mark)'
      BY <1>2, <1>4, <3>1
    <3>. QED
      BY <1>2, <1>4, <2>2, <3>1, <3>2, <3>3 DEF Place
  <2>. QED
    BY <2>1, <2>2
<1>. QED
  BY <1>3, <1>5

\* What Python clears.
LEMMA ClearKeeps ==
    ASSUME Inv, Clear, Unmoved
    PROVE  Inv'
<1>1. /\ dpc = "yielded" /\ dpc' = "read"
      /\ tree' = [tree EXCEPT ![Len(tree)] = "cleared"]
      /\ UNCHANGED <<read, buf, depth, mark, taken, outcome>>
  BY DEF Clear, scanVars
<1>2. Sending' /\ Given' /\ Counted' /\ Place'
  BY <1>1, PlaceStays
<1>3. TypeOK /\ outcome = "none"
  BY <1>1, InvFacts DEF TypeOK
<1>4. tree' \in Seq({"whole", "cleared"})
  <2>. DEFINE n == Len(tree)
  <2>1. n \in Nat /\ tree \in [1..n -> {"whole", "cleared"}]
    BY <1>3, ElementOfSeq DEF TypeOK
  <2>2. tree' \in [1..n -> {"whole", "cleared"}]
    BY <1>1, <2>1
  <2>. HIDE DEF n
  <2>. QED
    BY <2>1, <2>2, SeqDef
<1>5. enc' = enc /\ dec' = dec /\ input' = input
  BY SameSending
<1>6. TypeOK'
  BY <1>1, <1>3, <1>4, <1>5 DEF TypeOK
<1>7. Judged'
  BY <1>1, <1>3 DEF Judged
<1>. QED
  BY <1>2, <1>6, <1>7 DEF Inv

\* Where it stops.
LEMMA StopKeeps ==
    ASSUME Inv, Unmoved, UNCHANGED <<scanVars, tagVars, taken>>, dec \notin Scanners,
           NEW v \in {"complete", "truncated", "malformed"}, Stop(v),
           v = "complete" => Behind(Len(taken), read, depth),
           v = "truncated" => Truncated /\ Missing(Len(taken)),
           v = "malformed" => /\ Len(taken) < Len(items)
                              /\ Malformed(items[Len(taken) + 1])
    PROVE  Inv'
<1>1. /\ dpc' = "done" /\ outcome' = v
      /\ UNCHANGED <<read, buf, depth, mark, tree, taken>>
  BY DEF Stop, scanVars, tagVars
<1>2. Sending' /\ Given' /\ Counted' /\ Place'
  BY <1>1, PlaceStays
<1>3. /\ enc' = enc /\ dec' = dec /\ input' = input /\ items' = items /\ Truncated' = Truncated
      /\ \A n : Missing(n)' = Missing(n)
      /\ \A n : Extent(n)' = Extent(n)
      /\ \A x : Malformed(x)' = Malformed(x)
      /\ \A t, r, d : Behind(t, r, d)' = Behind(t, r, d)
  BY SameSending
<1>4. TypeOK
  BY InvFacts
<1>5. TypeOK'
  BY <1>1, <1>3, <1>4 DEF TypeOK
<1>6. Judged'
  <2>1. v = "complete" => Behind(Len(taken), read, depth)'
    BY <1>1, <1>3
  <2>2. v = "truncated" => Truncated' /\ Missing(Len(taken))'
    <3>1. taken' = taken
      BY <1>1
    <3>2. (Extent(Len(taken) + 1))' = Extent(Len(taken) + 1)
      BY <1>3, <3>1
    <3>3. Missing(Len(taken))' <=> (Len(taken') < Len(items') => Len(input') < (Extent(Len(taken) + 1))')
      BY DEF Missing
    <3>. QED
      BY <1>3, <3>1, <3>2, <3>3 DEF Missing
  <2>3. v = "malformed" => /\ Len(taken') < Len(items')
                           /\ Malformed(items[Len(taken) + 1])'
    BY <1>1, <1>3
  <2>. QED
    BY <1>1, <1>3, <2>1, <2>2, <2>3 DEF Judged
<1>. QED
  BY <1>2, <1>5, <1>6 DEF Inv

\* A tag the platform's parser refuses.
LEMMA BadTagKeeps ==
    ASSUME Inv, BadTag, Unmoved
    PROVE  Inv'
<1>. DEFINE t == Len(taken)
<1>1. /\ Parsing /\ TagEnd > 0 /\ Stop("malformed")
      /\ ~Legal \/ (Opens /\ ~WellFormed(Tag))
      /\ UNCHANGED <<scanVars, tagVars, taken>> /\ dec \notin Scanners
  BY DEF BadTag, Parsing
<1>2. PICK s, e :
        /\ Ahead(t, s, e)
        /\ Opens <=> wire[s + 1].c = "open"
        /\ WellFormed(Tag) <=> ~Awry(s, e)
        /\ Legal <=> Pure(read, e)
  BY <1>1, TagIs
<1>3. ~Pure(read, e) \/ (Awry(s, e) /\ wire[s + 1].c = "open")
  BY <1>1, <1>2
<1>4. ~RootBegins(t, s, e) /\ ~RootCloses(t, s, e)
  <2>1. wire[s + 1].c = "close" => wire[s + 1].c # "open"
    OBVIOUS
  <2>. QED
    BY <1>3, <2>1 DEF RootBegins, RootCloses
<1>5. PICK j \in Nat : Inside(t, j, read, depth, mark) /\ s = Spot(t + 1, j) /\ TagOf(t, j, e)
  BY <1>2, <1>4 DEF Ahead, ItemTag
<1>6. t + 1 \in 1..Len(items) /\ Malformed(items[t + 1])
  BY <1>3, <1>5 DEF TagOf
<1>7. t < Len(items)
  BY <1>6, InvFacts
<1>. QED
  BY <1>1, <1>6, <1>7, StopKeeps

\* The end of what Python and Go read.
LEMMA InputEndsKeeps ==
    ASSUME Inv, InputEnds, Unmoved
    PROVE  Inv'
<1>. DEFINE t == Len(taken)
<1>1. /\ Parsing /\ TagEnd = 0 /\ dec \notin Scanners
      /\ Stop(IF depth = 0 /\ read > 0 THEN "complete" ELSE "truncated")
      /\ UNCHANGED <<scanVars, tagVars, taken>>
  BY DEF InputEnds, Parsing
<1>2. /\ Laid /\ t \in Nat /\ Len(items) \in Nat /\ read \in 0..Len(input)
      /\ Len(input) \in Nat /\ Len(wire) \in Nat /\ Len(wire) = Extent(Len(items)) + 3
      /\ \A i \in 0..Len(items) : Extent(i) \in Nat
  BY InvFacts
<1>3. CASE Behind(t, read, depth)
  <2>1. read = Len(wire) /\ depth = 0
    BY <1>3 DEF Behind
  <2>2. read > 0
    <3>1. Len(items) \in 0..Len(items)
      BY <1>2
    <3>2. Extent(Len(items)) \in Nat
      BY <1>2, <3>1
    <3>. QED
      BY <1>2, <2>1, <3>2
  <2>3. Stop("complete")
    BY <1>1, <2>1, <2>2
  <2>. QED
    BY <1>1, <1>3, <2>3, StopKeeps
<1>4. CASE ~Behind(t, read, depth)
  <2>1. PICK s, e : Ahead(t, s, e)
    BY <1>1, <1>4, NextTag
  <2>2. /\ Upcoming(s, e) /\ e \in Nat /\ ~(depth = 0 /\ read > 0)
        /\ t < Len(items) => e <= Extent(t + 1)
    BY <2>1 DEF Ahead
  <2>3. e <= Len(wire) /\ e # 0
    BY <1>2, <2>2 DEF Upcoming
  <2>4. Len(input) < e
    <3>1. ~(e <= Len(input))
      BY <1>1, <1>2, <2>2, <2>3, TagFound
    <3>. QED
      BY <1>2, <2>2, <3>1
  <2>5. Truncated
    BY <1>2, <2>2, <2>3, <2>4 DEF Truncated
  <2>6. Missing(t)
    <3>1. ASSUME t < Len(items) PROVE Len(input) < Extent(t + 1)
      <4>1. t + 1 \in 0..Len(items)
        BY <1>2, <3>1
      <4>2. Extent(t + 1) \in Nat
        BY <1>2, <4>1
      <4>. QED
        BY <1>2, <2>2, <2>4, <3>1, <4>2
    <3>. QED
      BY <3>1 DEF Missing
  <2>7. Stop("truncated")
    BY <1>1, <2>2
  <2>. QED
    BY <1>1, <2>5, <2>6, <2>7, StopKeeps
<1>. QED
  BY <1>3, <1>4

\* No step at all.
LEMMA StutterKeeps ==
    ASSUME Inv, UNCHANGED vars
    PROVE  Inv'
<1>1. /\ Unmoved /\ UNCHANGED <<dpc, read, buf, depth, mark, tree, taken, outcome>>
  BY DEF vars, scanVars, tagVars, Unmoved
<1>2. Sending' /\ Given' /\ Counted' /\ Place'
  BY <1>1, PlaceStays
<1>3. /\ enc' = enc /\ dec' = dec /\ input' = input /\ items' = items /\ Truncated' = Truncated
      /\ \A n : Extent(n)' = Extent(n)
      /\ \A x : Malformed(x)' = Malformed(x)
      /\ \A t, r, d : Behind(t, r, d)' = Behind(t, r, d)
  BY <1>1, SameSending
<1>4. TypeOK /\ Judged
  BY InvFacts
<1>5. TypeOK'
  BY <1>1, <1>3, <1>4 DEF TypeOK
<1>6. Missing(Len(taken))' <=> Missing(Len(taken))
  <2>1. taken' = taken
    BY <1>1
  <2>2. (Extent(Len(taken) + 1))' = Extent(Len(taken) + 1)
    BY <1>3, <2>1
  <2>3. Missing(Len(taken))' <=> (Len(taken') < Len(items') => Len(input') < (Extent(Len(taken) + 1))')
    BY DEF Missing
  <2>. QED
    BY <1>3, <2>1, <2>2, <2>3 DEF Missing
<1>7. Judged'
  <2>1. outcome' = outcome /\ taken' = taken /\ read' = read /\ depth' = depth
    BY <1>1
  <2>2. Behind(Len(taken), read, depth)' <=> Behind(Len(taken), read, depth)
    BY <1>3, <2>1
  <2>3. Malformed(items[Len(taken) + 1])' <=> Malformed(items[Len(taken) + 1])
    BY <1>3, <2>1
  <2>. QED
    BY <1>3, <1>4, <1>6, <2>1, <2>2, <2>3 DEF Judged
<1>. QED
  BY <1>2, <1>5, <1>7 DEF Inv

\* Every step keeps the invariant.
LEMMA StepInv == Inv /\ [Next]_vars => Inv'
<1>. SUFFICES ASSUME Inv, [Next]_vars PROVE Inv'
  OBVIOUS
<1>1. CASE Refill
  <2>1. Unmoved
    BY <1>1 DEF Refill, Unmoved
  <2>. QED
    BY <1>1, <2>1, RefillKeeps
<1>2. CASE TakeItem
  <2>1. Unmoved
    BY <1>2 DEF TakeItem, Unmoved
  <2>. QED
    BY <1>2, <2>1, TakeItemKeeps
<1>3. CASE ScanEnds
  <2>1. Unmoved
    BY <1>3 DEF ScanEnds, Unmoved
  <2>. QED
    BY <1>3, <2>1, ScanEndsKeeps
<1>4. CASE StartTag
  <2>1. Unmoved
    BY <1>4 DEF StartTag, Unmoved
  <2>. QED
    BY <1>4, <2>1, StartTagKeeps
<1>5. CASE EndTag
  <2>1. Unmoved
    BY <1>5 DEF EndTag, Unmoved
  <2>. QED
    BY <1>5, <2>1, EndTagKeeps
<1>6. CASE Clear
  <2>1. Unmoved
    BY <1>6 DEF Clear, Unmoved
  <2>. QED
    BY <1>6, <2>1, ClearKeeps
<1>7. CASE BadTag
  <2>1. Unmoved
    BY <1>7 DEF BadTag, Unmoved
  <2>. QED
    BY <1>7, <2>1, BadTagKeeps
<1>8. CASE InputEnds
  <2>1. Unmoved
    BY <1>8 DEF InputEnds, Unmoved
  <2>. QED
    BY <1>8, <2>1, InputEndsKeeps
<1>9. CASE UNCHANGED vars
  BY <1>9, StutterKeeps
<1>. QED
  BY <1>1, <1>2, <1>3, <1>4, <1>5, <1>6, <1>7, <1>8, <1>9 DEF Next

-----------------------------------------------------------------------------
(***************************************************************************)
(* What it shows.                                                          *)
(***************************************************************************)
\* The invariant holds in every state, between any two ports, wherever the
\* connection breaks and however much one read returns: Node and Rust hold what
\* lies behind the items they handed over, Python and Go stand before a tag of
\* the next one, and a verdict is the one that place calls for.
THEOREM XmlInv == Spec => []Inv
<1>1. Inv /\ [Next]_vars => Inv'
  BY StepInv
<1>. QED
  BY InitInv, <1>1, PTL DEF Spec

\* Every decoder keeps the types of its state.
THEOREM XmlTyped == Spec => []TypeOK
<1>1. Inv => TypeOK
  BY DEF Inv
<1>. QED
  BY XmlInv, <1>1, PTL

\* What was handed over is the text of the first items, in order.
Texts == Len(taken) <= Len(items) /\ \A i \in DOMAIN taken : taken[i] = Item(items[i])

\* No decoder merges, splits, skips or invents an item, be it by looking for
\* the next "</item>" or by counting tags.
THEOREM XmlTexts == Spec => []Texts
<1>1. Inv => Texts
  <2>. SUFFICES ASSUME Inv PROVE Texts
    OBVIOUS
  <2>1. Given /\ Counted /\ Len(items) \in Nat
    BY InvFacts
  <2>2. DOMAIN taken = 1..Len(taken)
    BY <2>1 DEF Given
  <2>. QED
    BY <2>1, <2>2 DEF Given, Counted, Texts
<1>. QED
  BY XmlInv, <1>1, PTL

\* A document that arrives whole yields all its items, or fails at one that
\* the encoder made malformed.
THEOREM XmlIntact == Spec => []IntactDecodes
<1>1. Inv => IntactDecodes
  <2>. SUFFICES ASSUME Inv, ~Truncated,
                       outcome \in {"complete", "malformed", "truncated"}
                PROVE  \/ outcome = "complete" /\ Len(taken) = Len(items)
                       \/ outcome = "malformed" /\ \E i \in DOMAIN items : Malformed(items[i])
    BY DEF IntactDecodes
  <2>. DEFINE t == Len(taken)  N == Len(items)
  <2>1. /\ Sending /\ Laid /\ Judged /\ Counted /\ t \in Nat /\ N \in Nat
        /\ Len(input) \in Nat /\ Len(wire) \in Nat /\ Len(wire) = Extent(N) + 3
        /\ t \in 0..N /\ DOMAIN items = 1..N
        /\ \A i \in 0..N : Extent(i) \in Nat
    BY InvFacts, SendingFacts DEF Counted
  <2>2. Len(input) >= Len(wire)
    BY <2>1 DEF Truncated
  <2>3. CASE outcome = "complete"
    <3>1. Missing(t) \/ t = N
      BY <2>1, <2>3 DEF Judged, Behind
    <3>2. ASSUME t < N PROVE ~Missing(t)
      <4>1. t + 1 \in 0..N /\ N \in t + 1..N /\ N \in 0..N
        BY <2>1, <3>2
      <4>2. Extent(t + 1) <= Extent(N)
        BY <2>1, <4>1, ExtentGrows
      <4>3. Extent(t + 1) \in Nat /\ Extent(N) \in Nat
        BY <2>1, <4>1
      <4>4. ~(Len(input) < Extent(t + 1))
        BY <2>1, <2>2, <4>2, <4>3
      <4>. QED
        BY <3>2, <4>4 DEF Missing
    <3>. QED
      BY <2>1, <2>3, <3>1, <3>2
  <2>4. CASE outcome = "malformed"
    <3>1. t < N /\ Malformed(items[t + 1])
      BY <2>1, <2>4 DEF Judged
    <3>2. t + 1 \in 1..N
      BY <2>1, <3>1
    <3>. QED
      BY <2>1, <2>4, <3>1, <3>2
  <2>5. outcome # "truncated"
    BY <2>1 DEF Judged
  <2>. QED
    BY <2>3, <2>4, <2>5
<1>. QED
  BY XmlInv, <1>1, PTL

\* Node and Rust never hold more than the root's tag, the longest item and one
\* read, however long the document is.
THEOREM XmlBounded == Spec => []BufferBounded
<1>1. Inv => BufferBounded
  <2>. SUFFICES ASSUME Inv PROVE BufferBounded
    OBVIOUS
  <2>1. /\ Sending /\ Laid /\ Place /\ ChunkSize \in Nat \ {0}
    BY InvFacts
  <2>2. Longest \in Nat /\ 3 <= Longest
    BY <2>1, LongestFacts
  <2>3. Len(buf) < 4 + Longest + ChunkSize
    <3>1. buf = <<>> => Len(buf) = 0
      OBVIOUS
    <3>2. 0 < 4 + Longest + ChunkSize
      BY <2>1, <2>2
    <3>. QED
      BY <2>1, <3>1, <3>2 DEF Place
  <2>4. Len(RootStart) = 4
    BY DEF RootStart
  <2>. QED
    BY <2>3, <2>4 DEF BufferBounded
<1>. QED
  BY XmlInv, <1>1, PTL

\* How many items arrived, seen from one that did when the next did not.
LEMMA ArrivedIs ==
    ASSUME Sending, Laid, NEW t \in 0..Len(items), t = 0 \/ Arrived(t)
    PROVE  /\ arrived \in 0..Len(items) /\ t <= arrived
           /\ t = Len(items) \/ ~Arrived(t + 1) => arrived = t
<1>. DEFINE N == Len(items)  S == {0} \cup {n \in DOMAIN items : Arrived(n)}
<1>1. N \in Nat /\ DOMAIN items = 1..N /\ arrived = Max(S)
  BY SendingFacts DEF Sending
<1>2. S \in SUBSET Nat /\ t \in S /\ S # {} /\ \A x \in S : x <= N
  BY <1>1
<1>3. arrived \in S /\ t <= arrived
  <2>. HIDE DEF S
  <2>. QED
    BY <1>1, <1>2, GreatestOf
<1>4. ASSUME t < N, ~Arrived(t + 1) PROVE arrived = t
  <2>. SUFFICES ASSUME t + 1 <= arrived PROVE FALSE
    BY <1>1, <1>2, <1>3
  <2>1. arrived # 0 /\ arrived \in Nat
    BY <1>2, <1>3
  <2>2. arrived \in 1..N /\ Arrived(arrived)
    BY <1>1, <1>3, <2>1
  <2>3. Extent(arrived) <= Len(input) /\ Readable(arrived)
    BY <2>2 DEF Arrived
  <2>4. t + 1 \in 0..N /\ arrived \in (t + 1)..N
    BY <1>1, <1>4, <2>2
  <2>5. Extent(t + 1) <= Extent(arrived)
    BY <2>4, ExtentGrows
  <2>6. Extent(t + 1) \in Nat /\ Extent(arrived) \in Nat /\ Len(input) \in Nat
    <3>1. arrived \in 0..N
      BY <2>2
    <3>. QED
      BY <2>4, <3>1 DEF Laid
  <2>7. Extent(t + 1) <= Len(input)
    BY <2>3, <2>5, <2>6
  <2>8. Readable(t + 1)
    <3>1. \A i \in 1..t + 1 : i \in 1..arrived
      BY <2>4
    <3>. QED
      BY <2>3, <3>1 DEF Readable
  <2>. QED
    BY <1>4, <2>7, <2>8 DEF Arrived
<1>5. t = N => arrived = t
  BY <1>1, <1>2, <1>3
<1>6. t # N => t < N
  <2>1. t \in 0..N
    OBVIOUS
  <2>. HIDE DEF N, S
  <2>. QED
    BY ONLY <1>1, <2>1
<1>7. arrived \in 0..N
  BY <1>1, <1>3
<1>. QED
  BY <1>3, <1>4, <1>5, <1>6, <1>7

\* What the caller was told, against what arrived.
Verdict == IF outcome \in {"truncated", "malformed"} THEN "failed" ELSE outcome
Told ==
    /\ arrived \in Nat /\ whole \in BOOLEAN
    /\ Len(taken) \in Nat /\ Len(taken) <= arrived
    /\ Verdict \in {"none", "complete", "failed", "stopped"}
    /\ Verdict = "complete" => whole /\ Len(taken) = arrived
    /\ Verdict = "failed" => ~whole /\ Len(taken) = arrived

\* The verdict, and how many items were handed over before it.
LEMMA InvTold ==
    ASSUME Inv
    PROVE  Told
<1>. DEFINE t == Len(taken)  N == Len(items)  M == Len(input)
<1>1. /\ Sending /\ Laid /\ TypeOK /\ Counted /\ Given /\ Place /\ Judged
      /\ t \in Nat /\ N \in Nat /\ M \in Nat /\ read \in Nat /\ read <= M
      /\ M <= Len(wire) /\ Len(wire) \in Nat /\ t \in 0..N
      /\ \A i \in 0..N : Extent(i) \in Nat
  BY InvFacts DEF Counted
<1>2. t = 0 \/ Arrived(t)
  <2>1. ASSUME t # 0 PROVE Extent(t) <= M
    <3>1. Extent(t) <= read /\ Extent(t) \in Nat
      BY <1>1, <2>1 DEF Counted
    <3>. QED
      BY <1>1, <3>1
  <2>2. Readable(t)
    BY <1>1 DEF Readable, Place, Clean
  <2>. QED
    BY <2>1, <2>2 DEF Arrived
<1>3. /\ arrived \in 0..N /\ t <= arrived
      /\ t = N \/ ~Arrived(t + 1) => arrived = t
  BY <1>1, <1>2, ArrivedIs
<1>4. whole = (dec \in Scanners \/ (~Truncated /\ Readable(N)))
  BY <1>1 DEF Sending
<1>5. Missing(t) => t = N \/ ~Arrived(t + 1)
  <2>1. ASSUME t < N, M < Extent(t + 1) PROVE ~Arrived(t + 1)
    <3>1. t + 1 \in 0..N
      BY <1>1, <2>1
    <3>2. Extent(t + 1) \in Nat
      BY <1>1, <3>1
    <3>3. ~(Extent(t + 1) <= M)
      BY <1>1, <2>1, <3>2
    <3>. QED
      BY <3>3 DEF Arrived
  <2>2. t < N \/ t = N
    BY <1>1
  <2>. QED
    BY <2>1, <2>2 DEF Missing
<1>6. ASSUME outcome = "complete" PROVE whole /\ t = arrived
  <2>1. CASE dec \in Scanners
    <3>1. Missing(t)
      BY <1>1, <1>6, <2>1 DEF Judged
    <3>. QED
      BY <1>3, <1>4, <1>5, <2>1, <3>1
  <2>2. CASE dec \notin Scanners
    <3>1. t = N /\ read = Len(wire)
      BY <1>1, <1>6, <2>2 DEF Judged, Behind
    <3>2. ~Truncated
      BY <1>1, <3>1 DEF Truncated
    <3>3. Readable(N)
      BY <1>1, <2>2, <3>1 DEF Place, Clean, Readable
    <3>. QED
      BY <1>3, <1>4, <3>1, <3>2, <3>3
  <2>. QED
    BY <2>1, <2>2
<1>7. ASSUME outcome = "truncated" PROVE ~whole /\ t = arrived
  <2>1. dec \notin Scanners /\ Truncated /\ Missing(t)
    BY <1>1, <1>7 DEF Judged
  <2>. QED
    BY <1>3, <1>4, <1>5, <2>1
<1>8. ASSUME outcome = "malformed" PROVE ~whole /\ t = arrived
  <2>1. dec \notin Scanners /\ t < N /\ Malformed(items[t + 1])
    BY <1>1, <1>8 DEF Judged
  <2>2. t + 1 \in 1..t + 1 /\ t + 1 \in 1..N
    BY <1>1, <2>1
  <2>3. ~Readable(t + 1) /\ ~Readable(N)
    BY <2>1, <2>2 DEF Readable
  <2>4. ~Arrived(t + 1)
    BY <2>3 DEF Arrived
  <2>. QED
    BY <1>3, <1>4, <2>1, <2>3, <2>4
<1>9. outcome \in {"none", "complete", "truncated", "malformed", "stopped"}
  BY <1>1 DEF TypeOK
<1>10. arrived \in Nat /\ whole \in BOOLEAN
  BY <1>3, <1>4
<1>. QED
  BY <1>1, <1>3, <1>6, <1>7, <1>8, <1>9, <1>10 DEF Told, Verdict

\* A step hands over one item at most, and none follows the verdict.
LEMMA OneMore ==
    ASSUME Inv, Next
    PROVE  outcome = "none" /\ (Len(taken') = Len(taken) \/ Len(taken') = Len(taken) + 1)
<1>1. TypeOK /\ taken \in Seq(Seq(Symbol))
  BY InvFacts DEF Given
<1>2. dpc # "done"
  BY DEF Next, Refill, TakeItem, ScanEnds, StartTag, EndTag, Clear, BadTag, InputEnds,
         Scanning, Parsing
<1>3. taken' = taken \/ \E x : taken' = Append(taken, x)
  BY DEF Next, Refill, TakeItem, ScanEnds, StartTag, EndTag, Clear, BadTag, InputEnds,
         Deliver, Accept
<1>4. ASSUME NEW x, taken' = Append(taken, x) PROVE Len(taken') = Len(taken) + 1
  BY <1>1, <1>4
<1>. QED
  BY <1>1, <1>2, <1>3, <1>4 DEF TypeOK

\* Between any two ports, and wherever the connection broke, every item that
\* arrived is handed over before the verdict, and the verdict is the one the
\* input calls for: every safety property of ArrayDelivery is one of these
\* decoders.
THEOREM XmlDelivers == Spec => Delivery!Init /\ [][Delivery!Next]_Delivery!vars
<1>1. Init => Inv /\ Delivery!Init
  <2>. SUFFICES ASSUME Init PROVE Inv /\ Delivery!Init
    OBVIOUS
  <2>1. Inv /\ Told
    BY InitInv, InvTold
  <2>2. Len(taken) = 0 /\ outcome = "none"
    BY DEF Init
  <2>. QED
    BY <2>1, <2>2 DEF Delivery!Init, Told
<1>2. Inv /\ [Next]_vars => Inv'
  BY StepInv
<1>3. Inv => Told
  BY InvTold
<1>4. Inv' => Told'
  BY <1>3, PTL
<1>5. Inv /\ Inv' /\ [Next]_vars => [Delivery!Next]_Delivery!vars
  <2>. SUFFICES ASSUME Inv, Inv', [Next]_vars
                PROVE  [Delivery!Next]_Delivery!vars
    OBVIOUS
  <2>1. CASE UNCHANGED vars
    BY <2>1 DEF vars, sentVars, Delivery!vars
  <2>2. CASE Next
    <3>. DEFINE k == Len(taken)  m == Len(taken')  v == Verdict'
    <3>0. arrived' = arrived /\ whole' = whole
      BY <2>2 DEF Next, Refill, TakeItem, ScanEnds, StartTag, EndTag, Clear, BadTag,
                  InputEnds, sentVars
    <3>1. outcome = "none" /\ Verdict = "none" /\ (m = k \/ m = k + 1)
      BY <2>2, OneMore DEF Verdict
    <3>2. /\ arrived \in Nat /\ k \in Nat /\ k <= arrived /\ m \in Nat /\ m <= arrived
          /\ v \in {"none", "complete", "failed", "stopped"}
          /\ v = "complete" => whole /\ m = arrived
          /\ v = "failed" => ~whole /\ m = arrived
      BY <1>3, <1>4, <3>0 DEF Told
    <3>3. m = k + 1 => k < arrived
      <4>1. arrived \in Nat /\ k \in Nat /\ m <= arrived
        BY <3>2
      <4>. HIDE DEF k, m
      <4>. QED
        BY ONLY <4>1
    <3>4. [Delivery!Next]_Delivery!vars
      <4>1. \/ v = "none" /\ m = k
            \/ v = "none" /\ m = k + 1
            \/ v # "none"
        BY <3>1
      <4>2. CASE v = "none" /\ m = k
        <5>1. UNCHANGED <<arrived, whole, Len(taken), Verdict>>
          BY <3>0, <3>1, <4>2
        <5>. QED
          BY <5>1 DEF Delivery!vars, Verdict
      <4>3. CASE v = "none" /\ m = k + 1
        <5>1. Delivery!Hand /\ Verdict = "none" /\ Verdict' = Verdict
          BY <3>1, <3>3, <4>3, Zenon DEF Delivery!Hand
        <5>. QED
          BY <3>0, <5>1, Zenon DEF Delivery!Next, Verdict
      <4>4. CASE v # "none"
        <5>1. Delivery!End
          BY <3>2, <4>4, Zenon DEF Delivery!End, Verdict
        <5>2. Delivery!Hand \/ UNCHANGED Len(taken)
          BY <3>1, <3>3, Zenon DEF Delivery!Hand
        <5>. QED
          BY <3>0, <3>1, <5>1, <5>2, Zenon DEF Delivery!Next, Verdict
      <4>. QED
        BY <4>1, <4>2, <4>3, <4>4
    <3>. QED
      BY <3>4
  <2>. QED
    BY <2>1, <2>2
<1>. QED
  BY <1>1, <1>2, <1>5, PTL DEF Spec
==============================================================================
