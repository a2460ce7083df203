-------------------------- MODULE JsonArraysProofs --------------------------
(***************************************************************************)
(* What the decoders of bare arrays guarantee, for every set of values,    *)
(* every encoder, every chunking and every cut.                            *)
(***************************************************************************)
EXTENDS JsonArrays, SequenceTheorems, WellFoundedInduction, TLAPS

-----------------------------------------------------------------------------
(***************************************************************************)
(* The lexer of the scanners on the text of a value, and what one read     *)
(* does to the text held.  Lexed is defined by recursion over the text, so *)
(* its equations are proved by induction first: the library's induction    *)
(* rules take an operator and cannot be instantiated by the provers, and   *)
(* induction over a set of numbers follows from a least element.           *)
(***************************************************************************)
\* A set of numbers that is not empty has a least element.
LEMMA LeastOf ==
    ASSUME NEW T \in SUBSET Nat, T # {}
    PROVE  \E m \in T : \A k \in T : m <= k
<1>. DEFINE Below == OpToRel(<, Nat)
<1>1. IsWellFoundedOn(Below, Nat)
  BY NatLessThanWellFounded
<1>2. \A x, y \in Nat : <<x, y>> \in Below <=> x < y
  BY DEF OpToRel
<1>. HIDE DEF Below
<1>3. PICK m \in T : \A y \in T : ~(<<y, m>> \in Below)
  BY <1>1, WFMin
<1>4. ASSUME NEW y \in T
      PROVE  m <= y
  <2>1. y \in Nat /\ m \in Nat /\ ~(y < m)
    BY <1>2, <1>3
  <2>. QED
    BY <2>1
<1>. QED
  BY <1>3, <1>4

\* A set of numbers with 0 and the successors of its members has them all.
LEMMA Induction ==
    ASSUME NEW G \in SUBSET Nat, 0 \in G, \A n \in G : n + 1 \in G
    PROVE  G = Nat
<1>. SUFFICES ASSUME Nat \ G # {} PROVE FALSE
  OBVIOUS
<1>1. PICK m \in Nat \ G : \A k \in Nat \ G : m <= k
  BY LeastOf
<1>2. m - 1 \in Nat
  BY <1>1
<1>3. m - 1 \in G
  BY <1>1, <1>2
<1>4. (m - 1) + 1 = m
  BY <1>1
<1>. QED
  BY <1>1, <1>3, <1>4

-----------------------------------------------------------------------------
\* What Lexed is of the first n symbols of a text.
IsLexed(g, text, n) ==
    g = [i \in 0..n |-> IF i = 0 THEN Fresh ELSE Lex(g[i - 1], text[i])]

\* Every text can be lexed, up to every symbol.
LEMMA LexedExists ==
    ASSUME NEW text, NEW n \in Nat
    PROVE  \E g : IsLexed(g, text, n)
<1>. DEFINE G == {k \in Nat : \E g : IsLexed(g, text, k)}
<1>1. 0 \in G
  <2>. DEFINE g == [i \in 0..0 |-> Fresh]
  <2>1. IsLexed(g, text, 0)
    BY DEF IsLexed
  <2>. QED
    BY <2>1
<1>2. ASSUME NEW k \in G
      PROVE  k + 1 \in G
  <2>1. PICK g : IsLexed(g, text, k)
    OBVIOUS
  <2>. DEFINE h == [i \in 0..k + 1 |->
                       IF i = k + 1 THEN Lex(g[k], text[k + 1]) ELSE g[i]]
  <2>2. k \in Nat
    OBVIOUS
  <2>3. ASSUME NEW i \in 0..k + 1
        PROVE  h[i] = IF i = 0 THEN Fresh ELSE Lex(h[i - 1], text[i])
    <3>1. CASE i = k + 1
      <4>1. i # 0 /\ i - 1 = k /\ k \in 0..k + 1 /\ k # k + 1
        BY <2>2, <3>1
      <4>2. h[i - 1] = g[k] /\ h[i] = Lex(g[k], text[i])
        BY <3>1, <4>1
      <4>. QED
        BY <4>1, <4>2
    <3>2. CASE i = 0
      <4>1. i # k + 1 /\ 0 \in 0..k
        BY <2>2, <3>2
      <4>2. g[0] = Fresh
        BY <2>1, <4>1 DEF IsLexed
      <4>. QED
        BY <3>2, <4>1, <4>2
    <3>3. CASE i # 0 /\ i # k + 1
      <4>1. /\ i \in 0..k /\ i - 1 \in 0..k + 1 /\ i - 1 # k + 1
        BY <2>2, <3>3
      <4>2. g[i] = Lex(g[i - 1], text[i])
        BY <2>1, <3>3, <4>1 DEF IsLexed
      <4>3. h[i - 1] = g[i - 1] /\ h[i] = g[i]
        BY <3>3, <4>1
      <4>. QED
        BY <3>3, <4>2, <4>3
    <3>. QED
      BY <3>1, <3>2, <3>3
  <2>4. IsLexed(h, text, k + 1)
    <3>. DEFINE r == [i \in 0..k + 1 |->
                         IF i = 0 THEN Fresh ELSE Lex(h[i - 1], text[i])]
    <3>1. \A i \in 0..k + 1 : h[i] = r[i]
      BY <2>3
    <3>2. h = r
      BY <3>1
    <3>. QED
      BY <3>2 DEF IsLexed
  <2>5. k + 1 \in Nat
    BY <2>2
  <2>. QED
    BY <2>4, <2>5
<1>3. G = Nat
  <2>. HIDE DEF G
  <2>1. G \subseteq Nat
    BY DEF G
  <2>. QED
    BY <1>1, <1>2, <2>1, Induction
<1>. QED
  BY <1>3

\* The equations of Lexed.
LEMMA LexedUnfolds ==
    ASSUME NEW text, Len(text) \in Nat
    PROVE  /\ Lexed(text)[0] = Fresh
           /\ \A i \in 1..Len(text) :
                 Lexed(text)[i] = Lex(Lexed(text)[i - 1], text[i])
<1>1. PICK g : IsLexed(g, text, Len(text))
  BY LexedExists
<1>2. IsLexed(Lexed(text), text, Len(text))
  <2>1. g = [i \in 0..Len(text) |->
                IF i = 0 THEN Fresh ELSE Lex(g[i - 1], text[i])]
    BY <1>1 DEF IsLexed
  <2>2. Lexed(text) = [i \in 0..Len(text) |->
                          IF i = 0 THEN Fresh
                          ELSE Lex(Lexed(text)[i - 1], text[i])]
    BY <2>1, Zenon DEF Lexed
  <2>. QED
    BY <2>2 DEF IsLexed
<1>3. 0 \in 0..Len(text)
  OBVIOUS
<1>4. Lexed(text)[0] = Fresh
  BY <1>2, <1>3 DEF IsLexed
<1>5. ASSUME NEW i \in 1..Len(text)
      PROVE  Lexed(text)[i] = Lex(Lexed(text)[i - 1], text[i])
  <2>1. i \in 0..Len(text) /\ i # 0
    OBVIOUS
  <2>. QED
    BY <1>2, <2>1 DEF IsLexed
<1>. QED
  BY <1>4, <1>5

-----------------------------------------------------------------------------
\* The lexical states of the text of a value: what the grammar promises
\* (LexAssumption) and how each follows from the one before.
LEMMA LexFacts ==
    ASSUME NEW e \in Element
    PROVE  /\ Text[e] \in Seq(Symbol) /\ Len(Text[e]) \in Nat \ {0}
           /\ Lexed(Text[e])[0] = Fresh
           /\ Lexed(Text[e])[Len(Text[e])] = Fresh
           /\ Text[e][Len(Text[e])] # "lead"
           /\ \A i \in 1..Len(Text[e]) :
                 /\ Lexed(Text[e])[i] = Lex(Lexed(Text[e])[i - 1], Text[e][i])
                 /\ Lexed(Text[e])[i].depth \in Nat
                 /\ ~EndsValue(Lexed(Text[e])[i - 1], Text[e][i])
<1>1. Text[e] \in Seq(Symbol) /\ Text[e] # <<>>
  BY TextAssumption
<1>2. Len(Text[e]) \in Nat \ {0}
  <2>1. Len(Text[e]) \in Nat
    BY <1>1
  <2>2. Len(Text[e]) # 0
    BY <1>1
  <2>. QED
    BY <2>1, <2>2
<1>3. /\ Lexed(Text[e])[Len(Text[e])] = Fresh
      /\ Text[e][Len(Text[e])] # "lead"
      /\ \A i \in 1..Len(Text[e]) :
            /\ Lexed(Text[e])[i].depth \in Nat
            /\ ~EndsValue(Lexed(Text[e])[i - 1], Text[e][i])
  BY LexAssumption, Zenon
<1>4. /\ Lexed(Text[e])[0] = Fresh
      /\ \A i \in 1..Len(Text[e]) :
            Lexed(Text[e])[i] = Lex(Lexed(Text[e])[i - 1], Text[e][i])
  BY <1>2, LexedUnfolds
<1>. QED
  BY <1>1, <1>2, <1>3, <1>4

\* A slice that is the text of a value is parsed to that value, if the port's
\* parser reads it.
LEMMA Parses ==
    ASSUME NEW e \in Element, NEW port
    PROVE  /\ IsValue(port, Text[e]) <=> e \in Parsable(port)
           /\ ValueOf(Text[e]) = e
<1>1. \A f \in Element : Text[f] = Text[e] => f = e
  BY TextAssumption
<1>. QED
  BY <1>1 DEF IsValue, ValueOf

\* A number nests nowhere.
LEMMA NumbersFlat ==
    ASSUME NEW e \in Numbers, NEW limit \in Nat
    PROVE  ~NestsPast(Text[e], limit)
<1>. DEFINE n == Len(Text[e])
            at == Lexed(Text[e])
            G == {i \in Nat : i <= n => at[i] = Fresh}
<1>1. /\ e \in Element /\ n \in Nat /\ at[0] = Fresh
      /\ \A i \in 1..n : at[i] = Lex(at[i - 1], Text[e][i])
  BY LexFacts DEF Numbers
<1>2. ASSUME NEW i \in 1..n PROVE Text[e][i] \notin Punctuation
  <2>1. Text[e] \in Seq(Symbol) /\ DOMAIN Text[e] = 1..n
    BY <1>1, LexFacts, LenProperties
  <2>2. Text[e][i] \in Digit
    BY <2>1 DEF Numbers
  <2>. QED
    BY <2>2, TextAssumption, NumberAssumption
<1>. HIDE DEF n, at
<1>3. 0 \in G
  BY <1>1
<1>4. ASSUME NEW i \in G PROVE i + 1 \in G
  <2>. SUFFICES ASSUME i + 1 <= n PROVE at[i + 1] = Fresh
    OBVIOUS
  <2>1. i \in Nat /\ i <= n /\ i + 1 \in 1..n /\ (i + 1) - 1 = i
    BY <1>1
  <2>2. at[i] = Fresh
    BY <2>1
  <2>. DEFINE c == Text[e][i + 1]
  <2>3. c \notin Punctuation
    BY <1>2, <2>1
  <2>4. at[i + 1] = Lex(Fresh, c)
    BY <1>1, <2>1, <2>2
  <2>. HIDE DEF c
  <2>5. Lex(Fresh, c) = Fresh
    BY <2>3 DEF Lex, Fresh, Punctuation
  <2>. QED
    BY <2>4, <2>5
<1>5. G = Nat
  <2>. HIDE DEF G
  <2>1. G \subseteq Nat
    BY DEF G
  <2>. QED
    BY <1>3, <1>4, <2>1, Induction
<1>6. ASSUME NEW i \in 0..n PROVE ~Past(limit, at[i].depth)
  <2>1. at[i] = Fresh
    BY <1>1, <1>5
  <2>2. Fresh.depth = 0
    BY DEF Fresh
  <2>. QED
    BY <2>1, <2>2 DEF Past
<1>. QED
  BY <1>6 DEF NestsPast, n, at

\* Two texts that agree as far as the shorter one goes are the same text, or
\* the texts of two numbers.
LEMMA TextsAgree ==
    ASSUME NEW e \in Element, NEW f \in Element,
           Len(Text[e]) <= Len(Text[f]),
           \A j \in 1..Len(Text[e]) : Text[e][j] = Text[f][j]
    PROVE  \/ e = f
           \/ Len(Text[e]) < Len(Text[f]) /\ e \in Numbers /\ f \in Numbers
<1>1. /\ Text[e] \in Seq(Symbol) /\ Len(Text[e]) \in Nat
      /\ Text[f] \in Seq(Symbol) /\ Len(Text[f]) \in Nat
  BY LexFacts
<1>2. CASE Len(Text[e]) = Len(Text[f])
  <2>1. Text[e] = Text[f]
    BY <1>1, <1>2, SeqEqual
  <2>. QED
    BY <2>1, TextAssumption
<1>3. CASE Len(Text[e]) < Len(Text[f])
  <2>1. \A i \in 1..Len(Text[e]) : Text[f][i] = Text[e][i]
    OBVIOUS
  <2>2. e \in Numbers /\ f \in Numbers
    BY <1>3, <2>1, NumberAssumption
  <2>. QED
    BY <1>3, <2>2
<1>. QED
  BY <1>1, <1>2, <1>3

-----------------------------------------------------------------------------
(***************************************************************************)
(* Sequences of symbols: appended, cut and held in a buffer.               *)
(***************************************************************************)
\* What is written behind a text leaves it as it is.
LEMMA ConcatGrows ==
    ASSUME NEW s \in Seq(Symbol), NEW t \in Seq(Symbol)
    PROVE  /\ s \o t \in Seq(Symbol) /\ Len(s \o t) = Len(s) + Len(t)
           /\ Len(s \o t) \in Nat /\ Len(s) <= Len(s \o t)
           /\ \A i \in 1..Len(s) : (s \o t)[i] = s[i]
           /\ \A i \in 1..Len(t) : (s \o t)[Len(s) + i] = t[i]
<1>1. Len(s) \in Nat /\ Len(t) \in Nat
  BY LenProperties
<1>2. s \o t \in Seq(Symbol) /\ Len(s \o t) = Len(s) + Len(t)
      /\ \A i \in 1..(Len(s) + Len(t)) :
            (s \o t)[i] = IF i <= Len(s) THEN s[i] ELSE t[i - Len(s)]
  BY ConcatProperties
<1>. QED
  BY <1>1, <1>2

\* The part of a sequence from the (i+1)-th symbol to the n-th.
LEMMA Part ==
    ASSUME NEW S, NEW s \in Seq(S), NEW i \in Nat, NEW n \in i..Len(s)
    PROVE  /\ SubSeq(s, i + 1, n) \in Seq(S)
           /\ Len(SubSeq(s, i + 1, n)) = n - i /\ n - i \in Nat
           /\ \A j \in 1..(n - i) : SubSeq(s, i + 1, n)[j] = s[i + j]
<1>1. Len(s) \in Nat /\ n \in Nat /\ i <= n /\ n <= Len(s)
  BY LenProperties
<1>2. \A j \in (i + 1)..n : s[j] \in S
  BY <1>1, ElementOfSeq
<1>. DEFINE p == SubSeq(s, i + 1, n)
<1>3. /\ p \in Seq(S)
      /\ Len(p) = IF i + 1 <= n THEN n - (i + 1) + 1 ELSE 0
      /\ \A j \in 1..(n - (i + 1) + 1) : p[j] = s[(i + 1) + j - 1]
  BY <1>1, <1>2, SubSeqProperties
<1>. HIDE DEF p
<1>4. Len(p) = n - i /\ n - i \in Nat
  BY <1>1, <1>3
<1>5. ASSUME NEW j \in 1..(n - i) PROVE p[j] = s[i + j]
  <2>1. j \in 1..(n - (i + 1) + 1) /\ (i + 1) + j - 1 = i + j
    BY <1>1
  <2>. QED
    BY <1>3, <2>1
<1>. QED
  BY <1>3, <1>4, <1>5 DEF p

\* The same for the part at the beginning.
LEMMA FirstPart ==
    ASSUME NEW S, NEW s \in Seq(S), NEW n \in 0..Len(s),
           NEW p, p = SubSeq(s, 1, n)
    PROVE  /\ p \in Seq(S) /\ Len(p) = n
           /\ \A j \in 1..n : p[j] = s[j]
<1>1. n \in Nat /\ n <= Len(s) /\ Len(s) \in Nat
  BY LenProperties
<1>2. \A j \in 1..n : s[j] \in S
  BY <1>1, ElementOfSeq
<1>3. /\ SubSeq(s, 1, n) \in Seq(S)
      /\ Len(SubSeq(s, 1, n)) = IF 1 <= n THEN n - 1 + 1 ELSE 0
      /\ \A j \in 1..(n - 1 + 1) : SubSeq(s, 1, n)[j] = s[1 + j - 1]
  BY <1>1, <1>2, SubSeqProperties
<1>4. p \in Seq(S) /\ Len(p) = n
  BY <1>1, <1>3
<1>5. ASSUME NEW j \in 1..n PROVE p[j] = s[j]
  <2>1. j \in 1..(n - 1 + 1) /\ 1 + j - 1 = j
    BY <1>1
  <2>. QED
    BY <1>3, <2>1
<1>. QED
  BY <1>4, <1>5

\* A window of w that ends behind its first r symbols, and the window c after a
\* read of n symbols, where a is the part of w that arrives.
Refilled(w, a, b, r, n, c) ==
    /\ a \in Seq(Symbol) /\ \A i \in 1..Len(a) : a[i] = w[i]
    /\ b \in Seq(Symbol) /\ r \in Nat /\ Len(b) <= r
    /\ \A j \in 1..Len(b) : b[j] = w[(r - Len(b)) + j]
    /\ n \in Nat /\ r + n <= Len(a)
    /\ c = b \o SubSeq(a, r + 1, r + n)

\* It is a window of w again.
LEMMA FillWindow ==
    ASSUME NEW w, NEW a, NEW b, NEW r, NEW n, NEW c, Refilled(w, a, b, r, n, c)
    PROVE  /\ c \in Seq(Symbol) /\ Len(c) = Len(b) + n
           /\ \A j \in 1..Len(b) : c[j] = b[j]
           /\ \A j \in 1..Len(c) : c[j] = w[(r - Len(b)) + j]
<1>. /\ a \in Seq(Symbol) /\ \A i \in 1..Len(a) : a[i] = w[i]
     /\ b \in Seq(Symbol) /\ r \in Nat /\ Len(b) <= r
     /\ \A j \in 1..Len(b) : b[j] = w[(r - Len(b)) + j]
     /\ n \in Nat /\ r + n <= Len(a)
     /\ c = b \o SubSeq(a, r + 1, r + n)
  BY DEF Refilled
<1>1. Len(a) \in Nat /\ Len(b) \in Nat
  BY LenProperties
<1>. DEFINE p == SubSeq(a, r + 1, r + n)
<1>2. /\ p \in Seq(Symbol) /\ Len(p) = n
      /\ \A j \in 1..n : p[j] = a[r + j]
  <2>1. r + n \in r..Len(a) /\ (r + n) - r = n
    BY <1>1
  <2>. QED
    BY <2>1, Part
<1>. HIDE DEF p
<1>3. c = b \o p
  BY DEF p
<1>4. /\ c \in Seq(Symbol) /\ Len(c) = Len(b) + n
      /\ \A j \in 1..Len(b) : c[j] = b[j]
      /\ \A j \in 1..n : c[Len(b) + j] = p[j]
  <2>1. b \in Seq(Symbol)
    OBVIOUS
  <2>2. p \in Seq(Symbol)
    BY <1>2
  <2>3. /\ b \o p \in Seq(Symbol) /\ Len(b \o p) = Len(b) + Len(p)
        /\ \A j \in 1..Len(b) : (b \o p)[j] = b[j]
        /\ \A j \in 1..Len(p) : (b \o p)[Len(b) + j] = p[j]
    BY ONLY <2>1, <2>2, ConcatGrows
  <2>. QED
    BY ONLY <1>2, <1>3, <2>3
<1>5. ASSUME NEW j \in 1..Len(c) PROVE c[j] = w[(r - Len(b)) + j]
  <2>1. CASE j \in 1..Len(b)
    BY <1>4, <2>1
  <2>2. CASE j \notin 1..Len(b)
    <3>. DEFINE i == j - Len(b)
    <3>1. i \in 1..n /\ j = Len(b) + i /\ r + i \in 1..Len(a)
          /\ (r - Len(b)) + j = r + i
      BY <1>1, <1>4, <2>2
    <3>. HIDE DEF i
    <3>2. c[j] = p[i] /\ p[i] = a[r + i] /\ a[r + i] = w[r + i]
      BY <1>2, <1>4, <3>1
    <3>. QED
      BY <3>1, <3>2
  <2>. QED
    BY <2>1, <2>2
<1>. QED
  BY <1>4, <1>5


-----------------------------------------------------------------------------
(***************************************************************************)
(* The wire.  Value i stands behind the first Slot(i) symbols and ends     *)
(* with symbol Extent(i).                                                  *)
(***************************************************************************)
N       == Len(items)
T(i)    == Text[items[i]]
Slot(i) == Extent(i - 1) + (IF i > 1 THEN 1 ELSE 0)

Dangling == ending = "encodeFails" /\ items # <<>> /\ CommaFirst(enc)

\* What is written behind the first n values.
LaidTail ==
    IF Dangling
      THEN /\ N > 0 /\ ~Closed
           /\ Len(wire) = Extent(N) + 1 /\ wire[Extent(N) + 1] = ","
      ELSE IF Closed
        THEN Len(wire) = Extent(N) + 1 /\ wire[Extent(N) + 1] = "]"
        ELSE Len(wire) = Extent(N)

Laid ==
    /\ enc \in Encoders /\ dec \in Decoders
    /\ ending \in {"returned", "sourceFails", "encodeFails"}
    /\ items \in Seq(Element) /\ wire \in Seq(Symbol)
    /\ cut \in 0..Len(wire)
    /\ Len(wire) > 0 /\ wire[1] = "["
    /\ Extent(0) = 1
    /\ \A i \in 0..N : Extent(i) \in Nat \ {0} /\ Extent(i) <= Len(wire)
    /\ \A i \in 1..N :
          /\ Extent(i) = Slot(i) + Len(T(i))
          /\ \A j \in 1..Len(T(i)) : wire[Slot(i) + j] = T(i)[j]
          /\ i > 1 => wire[Slot(i)] = ","
    /\ LaidTail

-----------------------------------------------------------------------------
(***************************************************************************)
(* The inductive invariant.  The decoder stands at a place of the wire     *)
(* that Laid knows: Cursor symbols of it are behind the cursor, and the    *)
(* value the decoder comes to is the one after those it has handed over.   *)
(***************************************************************************)
Taken  == Len(yielded)
Here   == Taken + 1
Base   == read - Len(buf)
Cursor == Base + pos

\* The text held is the part of the wire that was read last; the pull parsers
\* hold none.
Held ==
    /\ dpc \in {"start", "scan", "done"}
    /\ outcome \in {"none", "complete", "failed", "stopped"}
    /\ outcome = "none" <=> dpc # "done"
    /\ read \in 0..cut /\ buf \in Seq(Symbol) /\ Len(buf) <= read
    /\ \A j \in 1..Len(buf) : buf[j] = wire[Base + j]
    /\ pos \in 0..Len(buf) /\ elemStart \in 0..pos
    /\ lex \in [depth : Nat, inString : BOOLEAN, escape : BOOLEAN]
    /\ yielded \in Seq(Seq(Symbol))
    /\ dec \in PullPorts => buf = <<>>

\* A pull parser has taken the end of a cut stream for the end of a number.
CutOff ==
    /\ dec \in PullPorts /\ read = cut /\ Truncated
    /\ Taken > 0 /\ items[Taken] \in Numbers /\ cut < Extent(Taken)
    /\ Len(yielded[Taken]) > 0 /\ Len(yielded[Taken]) < Len(T(Taken))
    /\ \A j \in 1..Len(yielded[Taken]) : yielded[Taken][j] = T(Taken)[j]

\* What was handed over are the first values, each accepted and arrived.
Given ==
    /\ Taken <= N
    /\ \A i \in 1..Taken :
          /\ ~Refused(items[i])
          /\ \/ yielded[i] = T(i) /\ Arrived(i)
             \/ CutOff /\ i = Taken

AtStart ==
    /\ Base = 0 /\ pos = 0 /\ elemStart = 0 /\ lex = Fresh
    /\ yielded = <<>> /\ Len(buf) <= ChunkSize
    /\ dec \in PullPorts => read = 0

\* A scanner stands in the value it comes to, no deeper than it may be, in the
\* lexical state of the value's text up to there.
BehindComma(i) == i > 1 => wire[Slot(i)] = ","
Passed == pos - elemStart
ScanAt ==
    /\ Base + elemStart = Slot(Here)
    /\ BehindComma(Here)
    /\ Len(buf) - pos <= ChunkSize /\ elemStart <= Room
    /\ IF Here <= N
         THEN /\ Passed <= Len(T(Here))
              /\ lex = Lexed(T(Here))[Passed]
              /\ \A j \in 0..Passed : ~Past(MaxDepth, Lexed(T(Here))[j].depth)
         ELSE Passed = 0 /\ lex = Fresh

\* Python's parser stands behind the i-th value or before the next one; among
\* numbers of more than one digit it may also stand inside one, and may have
\* handed over more values than were written.
Between(c, i) ==
    \/ c = Extent(i) /\ (i > 0 \/ N = 0)
    \/ c = Slot(i + 1) /\ (i < N \/ Dangling)
Inside(c, i) ==
    /\ i < N /\ items[i + 1] \in Numbers
    /\ c \in Slot(i + 1)..(Extent(i + 1) - 1)
ParseAt ==
    /\ elemStart = 0
    /\ ~Splittable => Between(Cursor, Taken)
    /\ \E i \in 0..N : Between(Cursor, i) \/ Inside(Cursor, i)

PullAt == CutOff \/ read = Extent(Taken)

\* The verdict comes where nothing more can be handed over, and it is a normal
\* end just where the input may end.
Judged ==
    outcome # "stopped" =>
        /\ Here <= N => Refused(items[Here]) \/ ~Arrived(Here)
        /\ outcome = "complete" <=> Whole(Taken)

ArraysInv ==
    /\ Laid /\ Held /\ BufferBounded
    /\ ~Splittable => Given
    /\ dpc = "start" => AtStart
    /\ dpc = "scan" => /\ dec \in ScanPorts => ScanAt
                       /\ dec \in Parsers   => ParseAt
                       /\ dec \in PullPorts => PullAt
    /\ dpc = "done" /\ ~Splittable => Judged

-----------------------------------------------------------------------------
(***************************************************************************)
(* The text of the values, by induction over their number.                 *)
(***************************************************************************)
IsJoined(g, values, n) ==
    g = [k \in 0..n |-> IF k = 0 THEN <<>>
                        ELSE g[k - 1] \o Comma(k) \o Text[values[k]]]

\* Any number of values can be joined.
LEMMA JoinedExists ==
    ASSUME NEW values, NEW n \in Nat
    PROVE  \E g : IsJoined(g, values, n)
<1>. DEFINE G == {k \in Nat : \E g : IsJoined(g, values, k)}
<1>1. 0 \in G
  <2>. DEFINE g == [i \in 0..0 |-> <<>>]
  <2>1. IsJoined(g, values, 0)
    BY DEF IsJoined
  <2>. QED
    BY <2>1
<1>2. ASSUME NEW k \in G
      PROVE  k + 1 \in G
  <2>1. PICK g : IsJoined(g, values, k)
    OBVIOUS
  <2>. DEFINE last == g[k] \o Comma(k + 1) \o Text[values[k + 1]]
  <2>. DEFINE h == [i \in 0..k + 1 |-> IF i = k + 1 THEN last ELSE g[i]]
  <2>2. k \in Nat
    OBVIOUS
  <2>3. ASSUME NEW i \in 0..k + 1
        PROVE  h[i] = IF i = 0 THEN <<>>
                      ELSE h[i - 1] \o Comma(i) \o Text[values[i]]
    <3>1. CASE i = k + 1
      <4>1. i # 0 /\ i - 1 = k /\ k \in 0..k + 1 /\ k # k + 1
        BY <2>2, <3>1
      <4>. HIDE DEF last
      <4>2. h[i - 1] = g[k] /\ h[i] = last
        BY <3>1, <4>1
      <4>. QED
        BY <3>1, <4>1, <4>2 DEF last
    <3>2. CASE i = 0
      <4>1. i # k + 1 /\ 0 \in 0..k
        BY <2>2, <3>2
      <4>2. g[0] = <<>>
        BY <2>1, <4>1 DEF IsJoined
      <4>. QED
        BY <3>2, <4>1, <4>2
    <3>3. CASE i # 0 /\ i # k + 1
      <4>1. /\ i \in 0..k /\ i - 1 \in 0..k + 1 /\ i - 1 # k + 1
        BY <2>2, <3>3
      <4>2. g[i] = g[i - 1] \o Comma(i) \o Text[values[i]]
        BY <2>1, <3>3, <4>1 DEF IsJoined
      <4>. HIDE DEF last
      <4>3. h[i - 1] = g[i - 1] /\ h[i] = g[i]
        BY <3>3, <4>1
      <4>. QED
        BY <3>3, <4>2, <4>3
    <3>. QED
      BY <3>1, <3>2, <3>3
  <2>. HIDE DEF last
  <2>4. IsJoined(h, values, k + 1)
    <3>. DEFINE r == [i \in 0..k + 1 |->
                         IF i = 0 THEN <<>>
                         ELSE h[i - 1] \o Comma(i) \o Text[values[i]]]
    <3>1. \A i \in 0..k + 1 : h[i] = r[i]
      BY <2>3
    <3>2. h = r
      BY <3>1
    <3>. QED
      BY <3>2 DEF IsJoined
  <2>5. k + 1 \in Nat
    BY <2>2
  <2>. QED
    BY <2>4, <2>5
<1>3. G = Nat
  <2>. HIDE DEF G
  <2>1. G \subseteq Nat
    BY DEF G
  <2>. QED
    BY <1>1, <1>2, <2>1, Induction
<1>. QED
  BY <1>3

\* The equations of Joined.
LEMMA JoinedUnfolds ==
    ASSUME NEW values, Len(values) \in Nat
    PROVE  /\ Joined(values)[0] = <<>>
           /\ \A k \in 1..Len(values) :
                 Joined(values)[k] =
                     Joined(values)[k - 1] \o Comma(k) \o Text[values[k]]
<1>1. PICK g : IsJoined(g, values, Len(values))
  BY JoinedExists
<1>2. IsJoined(Joined(values), values, Len(values))
  <2>1. g = [k \in 0..Len(values) |->
                IF k = 0 THEN <<>> ELSE g[k - 1] \o Comma(k) \o Text[values[k]]]
    BY <1>1 DEF IsJoined
  <2>2. Joined(values) =
            [k \in 0..Len(values) |->
                IF k = 0 THEN <<>>
                ELSE Joined(values)[k - 1] \o Comma(k) \o Text[values[k]]]
    BY <2>1, Zenon DEF Joined
  <2>. QED
    BY <2>2 DEF IsJoined
<1>3. 0 \in 0..Len(values)
  OBVIOUS
<1>4. Joined(values)[0] = <<>>
  BY <1>2, <1>3 DEF IsJoined
<1>5. ASSUME NEW k \in 1..Len(values)
      PROVE  Joined(values)[k] =
                 Joined(values)[k - 1] \o Comma(k) \o Text[values[k]]
  <2>1. k \in 0..Len(values) /\ k # 0
    OBVIOUS
  <2>. QED
    BY <1>2, <2>1 DEF IsJoined
<1>. QED
  BY <1>4, <1>5

\* A sequence of one symbol.
LEMMA Single ==
    ASSUME NEW S, NEW c \in S
    PROVE  <<c>> \in Seq(S) /\ Len(<<c>>) = 1 /\ <<c>>[1] = c
OBVIOUS

\* The comma stands before every value but the first.
LEMMA CommaText ==
    ASSUME NEW k \in Nat
    PROVE  /\ Comma(k) \in Seq(Symbol)
           /\ Len(Comma(k)) = IF k > 1 THEN 1 ELSE 0
           /\ k > 1 => Comma(k)[1] = ","
<1>1. "," \in Symbol
  BY DEF Symbol, Punctuation
<1>2. <<",">> \in Seq(Symbol) /\ Len(<<",">>) = 1 /\ <<",">>[1] = ","
  BY <1>1, Single
<1>. DEFINE one == <<",">>
<1>3. one \in Seq(Symbol) /\ Len(one) = 1 /\ one[1] = ","
  BY <1>2
<1>. HIDE DEF one
<1>4. <<>> \in Seq(Symbol) /\ Len(<<>>) = 0
  BY EmptySeq
<1>5. Comma(k) = IF k > 1 THEN one ELSE <<>>
  BY DEF Comma, one
<1>. QED
  BY <1>3, <1>4, <1>5

\* Every part of the text is a text.
LEMMA JoinedText ==
    ASSUME NEW values \in Seq(Element), NEW k \in 0..Len(values)
    PROVE  Joined(values)[k] \in Seq(Symbol)
<1>. DEFINE J == Joined(values)
            G == {n \in Nat : n <= Len(values) => J[n] \in Seq(Symbol)}
<1>1. Len(values) \in Nat
  BY LenProperties
<1>2. J[0] = <<>> /\ \A n \in 1..Len(values) :
                        J[n] = J[n - 1] \o Comma(n) \o Text[values[n]]
  BY <1>1, JoinedUnfolds
<1>. HIDE DEF J
<1>3. 0 \in G
  <2>1. J[0] \in Seq(Symbol)
    BY <1>2, EmptySeq
  <2>. QED
    BY <2>1
<1>4. ASSUME NEW n \in G PROVE n + 1 \in G
  <2>. SUFFICES ASSUME n + 1 <= Len(values) PROVE J[n + 1] \in Seq(Symbol)
    OBVIOUS
  <2>1. n \in Nat /\ n <= Len(values) /\ J[n] \in Seq(Symbol)
    BY <1>1
  <2>2. n + 1 \in 1..Len(values) /\ (n + 1) - 1 = n
    BY <1>1, <2>1
  <2>3. J[n + 1] = J[n] \o Comma(n + 1) \o Text[values[n + 1]]
    BY <1>2, <2>2
  <2>4. Text[values[n + 1]] \in Seq(Symbol)
    BY <2>2, ElementOfSeq, LexFacts
  <2>5. Comma(n + 1) \in Seq(Symbol)
    <3>1. n + 1 \in Nat
      BY <2>1
    <3>. QED
      BY <3>1, CommaText, Zenon
  <2>6. J[n] \o Comma(n + 1) \in Seq(Symbol)
    BY <2>1, <2>5, ConcatGrows
  <2>. QED
    BY <2>3, <2>4, <2>6, ConcatGrows
<1>5. G = Nat
  <2>. HIDE DEF G
  <2>1. G \subseteq Nat
    BY DEF G
  <2>. QED
    BY <1>3, <1>4, <2>1, Induction
<1>6. k \in Nat /\ k <= Len(values)
  BY <1>1
<1>. QED
  BY <1>5, <1>6 DEF J

\* What the k-th value adds.
LEMMA JoinedStep ==
    ASSUME NEW values \in Seq(Element), NEW k \in 1..Len(values)
    PROVE  LET J == Joined(values)
               a == Len(J[k - 1])
               c == IF k > 1 THEN 1 ELSE 0
               t == Text[values[k]]
           IN  /\ a \in Nat /\ J[k] \in Seq(Symbol)
               /\ Len(J[k]) = (a + c) + Len(t)
               /\ \A i \in 1..a : J[k][i] = J[k - 1][i]
               /\ k > 1 => J[k][a + 1] = ","
               /\ \A j \in 1..Len(t) : J[k][(a + c) + j] = t[j]
<1>. DEFINE J == Joined(values)
            a == Len(J[k - 1])
            c == IF k > 1 THEN 1 ELSE 0
<1>1. /\ Len(values) \in Nat /\ k \in Nat /\ c \in {0, 1}
      /\ k - 1 \in 0..Len(values) /\ k \in 0..Len(values)
      /\ c = 1 <=> k > 1
  BY LenProperties
<1>2. J[k] = J[k - 1] \o Comma(k) \o Text[values[k]]
  BY <1>1, JoinedUnfolds
<1>3. J[k - 1] \in Seq(Symbol) /\ J[k] \in Seq(Symbol)
  BY <1>1, JoinedText
<1>4. Text[values[k]] \in Seq(Symbol)
  BY ElementOfSeq, LexFacts
<1>. DEFINE p == J[k - 1]
            m == Comma(k)
            t == Text[values[k]]
            u == p \o m
            w == u \o t
<1>5. m \in Seq(Symbol) /\ Len(m) = c /\ (k > 1 => m[1] = ",")
  BY <1>1, CommaText
<1>6. /\ p \in Seq(Symbol) /\ t \in Seq(Symbol) /\ J[k] = w /\ a = Len(p)
  BY <1>2, <1>3, <1>4
<1>. HIDE DEF p, m, t, w, a, c, u
<1>7. /\ u \in Seq(Symbol) /\ Len(u) = a + c
      /\ \A i \in 1..a : u[i] = p[i]
      /\ \A i \in 1..c : u[a + i] = m[i]
  BY <1>5, <1>6, ConcatGrows DEF u
<1>8. a \in Nat /\ c \in Nat /\ Len(t) \in Nat
  BY <1>1, <1>6, LenProperties
<1>9. /\ Len(w) = (a + c) + Len(t)
      /\ \A i \in 1..(a + c) : w[i] = u[i]
      /\ \A i \in 1..Len(t) : w[(a + c) + i] = t[i]
  <2>1. /\ Len(w) = Len(u) + Len(t)
        /\ \A i \in 1..Len(u) : w[i] = u[i]
        /\ \A i \in 1..Len(t) : w[Len(u) + i] = t[i]
    BY <1>6, <1>7, ConcatGrows DEF w
  <2>. QED
    BY <1>7, <2>1, Zenon
<1>10. \A i \in 1..a : w[i] = p[i]
  BY <1>7, <1>8, <1>9
<1>11. ASSUME k > 1 PROVE w[a + 1] = ","
  <2>1. c = 1 /\ 1 \in 1..c /\ a + 1 \in 1..(a + c)
    BY <1>1, <1>8, <1>11
  <2>. QED
    BY <1>5, <1>7, <1>9, <1>11, <2>1
<1>. QED
  BY <1>3, <1>6, <1>8, <1>9, <1>10, <1>11 DEF p, t, a, c

\* The text of the first k values begins that of more of them.
LEMMA JoinedGrows ==
    ASSUME NEW values \in Seq(Element), NEW k \in 0..Len(values),
           NEW m \in k..Len(values)
    PROVE  /\ Len(Joined(values)[k]) <= Len(Joined(values)[m])
           /\ \A i \in 1..Len(Joined(values)[k]) :
                 Joined(values)[m][i] = Joined(values)[k][i]
<1>. DEFINE J == Joined(values)
            Grows(n) == /\ Len(J[k]) <= Len(J[n])
                        /\ \A i \in 1..Len(J[k]) : J[n][i] = J[k][i]
            G == {d \in Nat : k + d <= Len(values) => Grows(k + d)}
<1>1. Len(values) \in Nat /\ k \in Nat /\ k <= Len(values)
  BY LenProperties
<1>2. \A n \in 0..Len(values) : Len(J[n]) \in Nat
  BY JoinedText, LenProperties
<1>3. \A n \in 1..Len(values) :
          /\ Len(J[n - 1]) <= Len(J[n])
          /\ \A i \in 1..Len(J[n - 1]) : J[n][i] = J[n - 1][i]
  <2>. TAKE n \in 1..Len(values)
  <2>. DEFINE a == Len(J[n - 1])
              c == IF n > 1 THEN 1 ELSE 0
  <2>1. /\ a \in Nat /\ Len(J[n]) = (a + c) + Len(Text[values[n]])
        /\ \A i \in 1..a : J[n][i] = J[n - 1][i]
    BY JoinedStep
  <2>2. Len(Text[values[n]]) \in Nat
    BY ElementOfSeq, LexFacts
  <2>3. c \in {0, 1} /\ n \in Nat
    BY <1>1
  <2>. DEFINE l == Len(J[n])
              x == Len(Text[values[n]])
  <2>. HIDE DEF a, c, l, x
  <2>4. a \in Nat /\ l = (a + c) + x /\ x \in Nat
    BY <2>1, <2>2 DEF l, x
  <2>5. a <= l
    BY <2>3, <2>4
  <2>. QED
    BY <2>1, <2>5 DEF a, l
<1>. HIDE DEF J
<1>4. 0 \in G
  <2>1. k + 0 = k /\ Len(J[k]) \in Nat
    BY <1>1, <1>2
  <2>. QED
    BY <2>1
<1>5. ASSUME NEW d \in G PROVE d + 1 \in G
  <2>. SUFFICES ASSUME k + (d + 1) <= Len(values) PROVE Grows(k + (d + 1))
    OBVIOUS
  <2>1. /\ d \in Nat /\ k + d <= Len(values)
        /\ k + (d + 1) \in 1..Len(values) /\ (k + (d + 1)) - 1 = k + d
        /\ k + d \in 0..Len(values)
    BY <1>1
  <2>2. Grows(k + d)
    BY <2>1
  <2>. DEFINE n == k + (d + 1)
  <2>3. /\ Len(J[k + d]) <= Len(J[n])
        /\ \A i \in 1..Len(J[k + d]) : J[n][i] = J[k + d][i]
    BY <1>3, <2>1
  <2>4. Len(J[k]) \in Nat /\ Len(J[k + d]) \in Nat /\ Len(J[n]) \in Nat
    BY <1>1, <1>2, <2>1
  <2>. HIDE DEF n
  <2>5. Grows(n)
    BY <2>2, <2>3, <2>4
  <2>. QED
    BY <2>5 DEF n
<1>6. G = Nat
  <2>. HIDE DEF G
  <2>1. G \subseteq Nat
    BY DEF G
  <2>. QED
    BY <1>4, <1>5, <2>1, Induction
<1>7. m - k \in Nat /\ k + (m - k) = m /\ m <= Len(values)
  BY <1>1
<1>8. Grows(k + (m - k))
  <2>. HIDE DEF Grows
  <2>. QED
    BY <1>6, <1>7
<1>. QED
  BY <1>7, <1>8 DEF J

-----------------------------------------------------------------------------
(***************************************************************************)
(* The wire that Init leaves.                                              *)
(***************************************************************************)
LEMMA ExtentFacts ==
    ASSUME items \in Seq(Element)
    PROVE  /\ N \in Nat /\ Extent(0) = 1
           /\ \A i \in 0..N : Extent(i) \in Nat \ {0}
           /\ \A i \in 1..N :
                 /\ items[i] \in Element
                 /\ T(i) \in Seq(Symbol) /\ Len(T(i)) \in Nat \ {0}
                 /\ Slot(i) \in Nat \ {0} /\ Extent(i) = Slot(i) + Len(T(i))
           /\ \A i \in 0..N : \A m \in i..N : Extent(i) <= Extent(m)
           /\ \A i \in 0..N : Slot(i + 1) = Extent(i) + (IF i > 0 THEN 1 ELSE 0)
<1>. DEFINE J == Joined(items)
<1>1. N \in Nat
  BY LenProperties DEF N
<1>2. \A i \in 0..N : Extent(i) = 1 + Len(J[i]) /\ Len(J[i]) \in Nat
  BY JoinedText, LenProperties DEF Extent, N
<1>3. J[0] = <<>>
  BY <1>1, JoinedUnfolds DEF N
<1>4. Extent(0) = 1
  <2>1. Len(J[0]) = 0 /\ 0 \in 0..N
    BY <1>1, <1>3
  <2>. QED
    BY <1>2, <2>1
<1>5. \A i \in 0..N : Extent(i) \in Nat \ {0}
  BY <1>2
<1>6. ASSUME NEW i \in 1..N
      PROVE  /\ items[i] \in Element
             /\ T(i) \in Seq(Symbol) /\ Len(T(i)) \in Nat \ {0}
             /\ Slot(i) \in Nat \ {0} /\ Extent(i) = Slot(i) + Len(T(i))
  <2>1. items[i] \in Element
    BY ElementOfSeq DEF N
  <2>2. T(i) \in Seq(Symbol) /\ Len(T(i)) \in Nat \ {0}
    BY <2>1, LexFacts DEF T
  <2>. DEFINE a == Len(J[i - 1])
              c == IF i > 1 THEN 1 ELSE 0
              t == Len(T(i))
  <2>3. Len(J[i]) = (a + c) + t
    BY JoinedStep DEF N, T
  <2>4. i - 1 \in 0..N /\ i \in 0..N /\ c \in {0, 1}
    BY <1>1
  <2>5. a \in Nat /\ Extent(i - 1) = 1 + a /\ Extent(i) = 1 + Len(J[i])
    BY <1>2, <2>4
  <2>6. Slot(i) = (1 + a) + c
    BY <2>5 DEF Slot
  <2>. HIDE DEF a, c, t
  <2>7. t \in Nat
    BY <2>2 DEF t
  <2>. QED
    BY <2>1, <2>2, <2>3, <2>4, <2>5, <2>6, <2>7 DEF t
<1>7. ASSUME NEW i \in 0..N, NEW m \in i..N
      PROVE  Extent(i) <= Extent(m)
  <2>1. Len(J[i]) <= Len(J[m])
    BY JoinedGrows DEF N
  <2>2. m \in 0..N
    BY <1>1
  <2>. HIDE DEF J
  <2>. QED
    BY <1>2, <2>1, <2>2
<1>8. ASSUME NEW i \in 0..N
      PROVE  Slot(i + 1) = Extent(i) + (IF i > 0 THEN 1 ELSE 0)
  <2>1. (i + 1) - 1 = i /\ (i + 1 > 1 <=> i > 0)
    BY <1>1
  <2>. QED
    BY <2>1 DEF Slot
<1>. QED
  BY <1>1, <1>4, <1>5, <1>6, <1>7, <1>8

\* The opening bracket and the values, wherever the text goes on.
Body == <<"[">> \o Joined(items)[N]

\* In that text each value stands at its slot, behind a comma or the bracket.
LEMMA BodyLaid ==
    ASSUME items \in Seq(Element)
    PROVE  /\ Body \in Seq(Symbol) /\ Len(Body) = Extent(N) /\ Body[1] = "["
           /\ \A i \in 1..N :
                 /\ \A j \in 1..Len(T(i)) : Body[Slot(i) + j] = T(i)[j]
                 /\ i > 1 => Body[Slot(i)] = ","
<1>. DEFINE J == Joined(items)
            b == <<"[">>
            u == Body
<1>1. N \in Nat /\ N \in 0..N /\ N = Len(items)
  BY LenProperties DEF N
<1>2. J[N] \in Seq(Symbol)
  BY <1>1, JoinedText
<1>3. b \in Seq(Symbol) /\ Len(b) = 1 /\ b[1] = "["
  <2>1. "[" \in Symbol
    BY DEF Symbol, Punctuation
  <2>. QED
    BY <2>1, Single
<1>4. u = b \o J[N]
  BY DEF Body
<1>. HIDE DEF b, u
<1>5. /\ u \in Seq(Symbol) /\ Len(u) = 1 + Len(J[N]) /\ u[1] = "["
      /\ \A i \in 1..Len(J[N]) : u[1 + i] = J[N][i]
  <2>. DEFINE w == b \o J[N]
  <2>1. /\ w \in Seq(Symbol) /\ Len(w) = Len(b) + Len(J[N])
        /\ \A i \in 1..Len(b) : w[i] = b[i]
        /\ \A i \in 1..Len(J[N]) : w[Len(b) + i] = J[N][i]
    BY <1>2, <1>3, ConcatGrows
  <2>2. u = w
    BY <1>4
  <2>. HIDE DEF w
  <2>3. 1 \in 1..Len(b)
    BY <1>3
  <2>. QED
    BY <1>3, <2>1, <2>2, <2>3, Zenon
<1>6. Len(u) = Extent(N)
  BY <1>5 DEF Extent
<1>7. ASSUME NEW i \in 1..N
      PROVE  /\ \A j \in 1..Len(T(i)) : u[Slot(i) + j] = T(i)[j]
             /\ i > 1 => u[Slot(i)] = ","
  <2>. DEFINE a == Len(J[i - 1])
              c == IF i > 1 THEN 1 ELSE 0
              t == Len(T(i))
              l == Len(J[i])
  <2>1. /\ a \in Nat /\ l = (a + c) + t
        /\ i > 1 => J[i][a + 1] = ","
        /\ \A j \in 1..t : J[i][(a + c) + j] = T(i)[j]
    BY JoinedStep DEF N, T
  <2>2. i \in 0..N /\ N \in i..N /\ i - 1 \in 0..N /\ c \in {0, 1}
        /\ (i > 1 => c = 1)
    BY <1>1
  <2>3. l <= Len(J[N]) /\ \A x \in 1..l : J[N][x] = J[i][x]
    BY <1>1, <2>2, JoinedGrows
  <2>4. Slot(i) = (1 + a) + c
    BY DEF Slot, Extent
  <2>5. t \in Nat /\ l \in Nat /\ Len(J[N]) \in Nat
    BY <1>1, <2>2, ExtentFacts, JoinedText, LenProperties
  <2>. DEFINE L == Len(J[N])
              s == Slot(i)
  <2>. HIDE DEF J, a, c, t, l, L, s
  <2>8. /\ a \in Nat /\ c \in Nat /\ t \in Nat /\ l \in Nat /\ L \in Nat
        /\ l = (a + c) + t /\ l <= L /\ s = (1 + a) + c
        /\ i > 1 => c = 1
    <3>1. a \in Nat /\ l = (a + c) + t
      BY <2>1
    <3>2. c \in Nat /\ (i > 1 => c = 1)
      BY <2>2
    <3>3. l <= L
      BY <2>3 DEF L
    <3>4. t \in Nat /\ l \in Nat /\ L \in Nat
      BY <2>5 DEF L
    <3>5. s = (1 + a) + c
      BY <2>4 DEF s
    <3>. QED
      BY <3>1, <3>2, <3>3, <3>4, <3>5
  <2>6. ASSUME NEW j \in 1..t PROVE u[Slot(i) + j] = T(i)[j]
    <3>. DEFINE x == (a + c) + j
    <3>1. x \in 1..l /\ x \in 1..L /\ s + j = 1 + x
      BY <2>8
    <3>2. J[i][x] = T(i)[j]
      BY <2>1
    <3>. HIDE DEF x
    <3>. QED
      BY <1>5, <2>3, <3>1, <3>2 DEF L, s
  <2>7. ASSUME i > 1 PROVE u[Slot(i)] = ","
    <3>1. a + 1 \in 1..l /\ a + 1 \in 1..L /\ s = 1 + (a + 1)
      BY <2>7, <2>8
    <3>2. J[i][a + 1] = ","
      BY <2>1, <2>7
    <3>. QED
      BY <1>5, <2>3, <3>1, <3>2 DEF L, s
  <2>. QED
    BY <2>6, <2>7 DEF t
<1>. QED
  BY <1>5, <1>6, <1>7 DEF u

\* What an encoder leaves on the wire.
LEMMA InitLaid == Init => Laid
<1>. SUFFICES ASSUME Init PROVE Laid
  OBVIOUS
<1>. DEFINE comma == <<",">>
            close == <<"]">>
            hanging == IF Dangling THEN comma ELSE <<>>
            closing == IF Closed THEN close ELSE <<>>
            u == Body \o hanging
            w == u \o closing
<1>1. /\ items \in Seq(Element) /\ cut \in 0..Len(wire)
      /\ enc \in Encoders /\ dec \in Decoders
      /\ ending \in {"returned", "sourceFails", "encodeFails"}
  <2>1. items \in Seq(Element)
    <3>1. items \in UNION {[1..n -> Writable(enc)] : n \in 0..MaxItems}
      BY DEF Init, SeqOf
    <3>2. PICK n \in 0..MaxItems : items \in [1..n -> Writable(enc)]
      BY <3>1
    <3>3. n \in Nat /\ Writable(enc) \subseteq Element
      BY ArraysAssumption DEF Writable
    <3>4. items \in [1..n -> Element]
      BY <3>2, <3>3
    <3>. QED
      BY <3>3, <3>4, SeqDef
  <2>. QED
    BY <2>1 DEF Init
<1>2. wire = w
  BY DEF Init, Written, Body, Dangling, N
<1>3. /\ comma \in Seq(Symbol) /\ Len(comma) = 1 /\ comma[1] = ","
      /\ close \in Seq(Symbol) /\ Len(close) = 1 /\ close[1] = "]"
      /\ <<>> \in Seq(Symbol) /\ Len(<<>>) = 0
  <2>1. "," \in Symbol /\ "]" \in Symbol
    BY DEF Symbol, Punctuation
  <2>. QED
    BY <2>1, Single, EmptySeq
<1>. HIDE DEF comma, close
<1>4. /\ hanging \in Seq(Symbol)
      /\ Dangling => Len(hanging) = 1 /\ hanging[1] = ","
      /\ ~Dangling => Len(hanging) = 0
  BY <1>3
<1>5. /\ closing \in Seq(Symbol)
      /\ Closed => Len(closing) = 1 /\ closing[1] = "]"
      /\ ~Closed => Len(closing) = 0
  BY <1>3
<1>. HIDE DEF hanging, closing
<1>6. /\ Body \in Seq(Symbol) /\ Len(Body) = Extent(N) /\ Body[1] = "["
      /\ \A i \in 1..N :
            /\ \A j \in 1..Len(T(i)) : Body[Slot(i) + j] = T(i)[j]
            /\ i > 1 => Body[Slot(i)] = ","
  BY <1>1, BodyLaid
<1>7. /\ u \in Seq(Symbol) /\ Len(u) = Len(Body) + Len(hanging)
      /\ \A i \in 1..Len(Body) : u[i] = Body[i]
      /\ \A i \in 1..Len(hanging) : u[Len(Body) + i] = hanging[i]
  BY <1>4, <1>6, ConcatGrows
<1>. HIDE DEF u
<1>8. /\ w \in Seq(Symbol) /\ Len(w) = Len(u) + Len(closing)
      /\ \A i \in 1..Len(u) : w[i] = u[i]
      /\ \A i \in 1..Len(closing) : w[Len(u) + i] = closing[i]
  BY <1>5, <1>7, ConcatGrows
<1>. HIDE DEF w
<1>9. /\ N \in Nat /\ Extent(0) = 1 /\ Extent(N) \in Nat \ {0}
      /\ \A i \in 0..N : Extent(i) \in Nat \ {0} /\ Extent(i) <= Extent(N)
      /\ \A i \in 1..N :
            /\ Slot(i) \in Nat \ {0} /\ Len(T(i)) \in Nat
            /\ Extent(i) = Slot(i) + Len(T(i))
  <2>1. N \in Nat
    BY <1>1, ExtentFacts
  <2>2. \A i \in 0..N : N \in i..N
    BY <2>1
  <2>3. N \in 0..N
    BY <2>1
  <2>. QED
    BY <1>1, <2>1, <2>2, <2>3, ExtentFacts
<1>10. Dangling => ~Closed /\ N > 0
  <2>. SUFFICES ASSUME Dangling PROVE ~Closed /\ N > 0
    OBVIOUS
  <2>1. ending = "encodeFails" /\ items # <<>> /\ enc # "java"
    BY DEF Dangling, CommaFirst
  <2>2. N # 0
    BY <1>1, <2>1, EmptySeq DEF N
  <2>. QED
    BY <1>9, <2>1, <2>2 DEF Closed, AutoCloses
<1>. DEFINE x == Extent(N)
            lh == Len(hanging)
            lc == Len(closing)
            lu == Len(u)
            lw == Len(w)
<1>20. /\ x \in Nat \ {0} /\ lh \in Nat /\ lc \in Nat /\ Len(Body) = x
       /\ lu = x + lh /\ lw = lu + lc
       /\ \A i \in 1..lh : u[x + i] = hanging[i]
  <2>1. lh \in Nat /\ lc \in Nat
    BY <1>4, <1>5, LenProperties
  <2>2. x \in Nat \ {0} /\ Len(Body) = x /\ lw = lu + lc
    BY <1>6, <1>8, <1>9
  <2>3. lu = x + lh /\ \A i \in 1..lh : u[x + i] = hanging[i]
    BY <1>6, <1>7, Zenon
  <2>. QED
    BY <2>1, <2>2, <2>3
<1>21. /\ \A i \in 1..lu : w[i] = u[i]
       /\ \A i \in 1..lc : w[lu + i] = closing[i]
       /\ \A i \in 1..x : u[i] = Body[i]
  BY <1>7, <1>8, <1>20
<1>22. /\ Dangling => lh = 1 /\ hanging[1] = "," /\ lc = 0
       /\ ~Dangling => lh = 0
       /\ Closed => lc = 1 /\ closing[1] = "]"
       /\ ~Closed => lc = 0
  BY <1>4, <1>5, <1>10
<1>. HIDE DEF x, lh, lc, lu, lw
<1>11. LaidTail
  <2>1. CASE Dangling
    <3>3. lh = 1 /\ lc = 0 /\ x \in Nat /\ lu = x + lh /\ lw = lu + lc
      BY <1>20, <1>22, <2>1
    <3>1. lu = x + 1 /\ lw = x + 1 /\ 1 \in 1..lh /\ x + 1 \in 1..lu
      BY ONLY <3>3
    <3>2. w[x + 1] = ","
      BY <1>20, <1>21, <1>22, <2>1, <3>1
    <3>. QED
      BY <1>2, <1>10, <2>1, <3>1, <3>2 DEF LaidTail, x, lw
  <2>2. CASE ~Dangling /\ Closed
    <3>1. lu = x /\ lw = x + 1 /\ 1 \in 1..lc
      BY <1>20, <1>22, <2>2
    <3>2. w[x + 1] = "]"
      BY <1>21, <1>22, <2>2, <3>1
    <3>. QED
      BY <1>2, <2>2, <3>1, <3>2 DEF LaidTail, x, lw
  <2>3. CASE ~Dangling /\ ~Closed
    <3>1. lw = x
      BY <1>20, <1>22, <2>3
    <3>. QED
      BY <1>2, <2>3, <3>1 DEF LaidTail, x, lw
  <2>. QED
    BY <2>1, <2>2, <2>3
<1>12. /\ lw \in Nat /\ x <= lw
       /\ \A i \in 1..x : w[i] = Body[i]
  <2>1. lu \in Nat /\ lw \in Nat /\ x <= lu /\ x <= lw
    BY <1>20
  <2>2. \A i \in 1..x : i \in 1..lu
    BY <1>20, <2>1
  <2>. QED
    BY <1>21, <2>1, <2>2
<1>13. wire[1] = "[" /\ Len(wire) > 0
  <2>1. 1 \in 1..x /\ lw > 0
    BY <1>12, <1>20
  <2>. QED
    BY <1>2, <1>6, <1>12, <2>1 DEF lw
<1>14. ASSUME NEW i \in 1..N
       PROVE  /\ \A j \in 1..Len(T(i)) : wire[Slot(i) + j] = T(i)[j]
              /\ i > 1 => wire[Slot(i)] = ","
  <2>1. /\ Slot(i) \in Nat \ {0} /\ Len(T(i)) \in Nat
        /\ Extent(i) = Slot(i) + Len(T(i)) /\ Extent(i) <= Extent(N)
    BY <1>9
  <2>. DEFINE s == Slot(i)
              t == Len(T(i))
  <2>4. s \in Nat \ {0} /\ t \in Nat /\ x \in Nat /\ s + t <= x
    BY <1>20, <2>1 DEF x
  <2>. HIDE DEF s, t
  <2>2. s \in 1..x
    BY ONLY <2>4
  <2>3. \A j \in 1..t : s + j \in 1..x
    BY ONLY <2>4
  <2>. QED
    BY <1>2, <1>6, <1>12, <2>2, <2>3 DEF s, t
<1>15. \A i \in 0..N : Extent(i) <= Len(wire)
  BY <1>2, <1>9, <1>12, <1>20 DEF x, lw
<1>. QED
  BY <1>1, <1>2, <1>8, <1>9, <1>11, <1>13, <1>14, <1>15 DEF Laid

-----------------------------------------------------------------------------
(***************************************************************************)
(* What stands where on the wire.                                          *)
(***************************************************************************)
LEMMA PlaceFacts ==
    ASSUME Laid
    PROVE  /\ N \in Nat /\ Len(wire) \in Nat /\ cut \in Nat /\ cut <= Len(wire)
           /\ Extent(0) = 1
           /\ \A i \in 0..N : /\ Extent(i) \in Nat \ {0}
                              /\ Extent(i) <= Extent(N) /\ Extent(i) <= Len(wire)
           /\ \A i \in 1..N :
                 /\ items[i] \in Element
                 /\ T(i) \in Seq(Symbol) /\ Len(T(i)) \in Nat \ {0}
                 /\ Slot(i) \in Nat \ {0} /\ Extent(i) = Slot(i) + Len(T(i))
           /\ \A i \in 0..N : Slot(i + 1) = Extent(i) + (IF i > 0 THEN 1 ELSE 0)
<1>1. /\ items \in Seq(Element) /\ wire \in Seq(Symbol) /\ cut \in 0..Len(wire)
      /\ \A i \in 0..N : Extent(i) <= Len(wire)
  BY DEF Laid
<1>2. N \in Nat /\ Len(wire) \in Nat
  BY <1>1, LenProperties DEF N
<1>3. \A i \in 0..N : N \in i..N
  BY <1>2
<1>4. \A i \in 0..N : Extent(i) <= Extent(N)
  BY <1>1, <1>3, ExtentFacts
<1>5. cut \in Nat /\ cut <= Len(wire)
  BY <1>1, <1>2
<1>. QED
  BY <1>1, <1>2, <1>4, <1>5, ExtentFacts

\* The text of value i+1 stands whole before Extent(i+1), between two places
\* that are one symbol apart from the values around it.
LEMMA NextPlace ==
    ASSUME Laid, NEW i \in 0..N, i < N
    PROVE  /\ i + 1 \in 1..N
           /\ Slot(i + 1) < Extent(i + 1) /\ Extent(i + 1) <= Extent(N)
           /\ Extent(i) <= Slot(i + 1)
           /\ i > 0 => Slot(i + 1) = Extent(i) + 1 /\ wire[Extent(i) + 1] = ","
           /\ i = 0 => Slot(i + 1) = 1
<1>1. i + 1 \in 1..N /\ i + 1 \in 0..N /\ i \in Nat /\ N \in Nat
  BY PlaceFacts
<1>2. /\ Extent(i) \in Nat /\ Slot(i + 1) \in Nat /\ Len(T(i + 1)) \in Nat \ {0}
      /\ Extent(i + 1) = Slot(i + 1) + Len(T(i + 1))
      /\ Extent(i + 1) <= Extent(N)
      /\ Slot(i + 1) = Extent(i) + (IF i > 0 THEN 1 ELSE 0)
      /\ Extent(0) = 1
  BY <1>1, PlaceFacts
<1>3. i > 0 => wire[Slot(i + 1)] = ","
  <2>1. \A k \in 1..N : k > 1 => wire[Slot(k)] = ","
    BY DEF Laid
  <2>2. i > 0 => i + 1 > 1
    BY <1>1
  <2>. QED
    BY <1>1, <2>1, <2>2
<1>. DEFINE s == Slot(i + 1)
            x == Extent(i + 1)
            y == Extent(i)
<1>4. /\ y \in Nat /\ s \in Nat /\ s < x /\ y <= s
      /\ i > 0 => s = y + 1
      /\ i = 0 => s = 1
  <2>1. s = y + (IF i > 0 THEN 1 ELSE 0) /\ (i = 0 => y = 1)
    BY <1>2
  <2>. DEFINE l == Len(T(i + 1))
  <2>2. y \in Nat /\ s \in Nat /\ x = s + l /\ l \in Nat \ {0}
    BY <1>2
  <2>. HIDE DEF s, x, y, l
  <2>. QED
    BY ONLY <1>1, <2>1, <2>2
<1>. HIDE DEF x, y
<1>5. i > 0 => wire[y + 1] = ","
  BY <1>3, <1>4
<1>. QED
  BY <1>1, <1>2, <1>4, <1>5 DEF x, y

\* Behind a value comes a comma, or the bracket that closes the array.
LEMMA BehindValue ==
    ASSUME Laid, NEW i \in 0..N, i > 0 \/ N = 0, Extent(i) < Len(wire)
    PROVE  \/ /\ wire[Extent(i) + 1] = "," /\ i > 0 /\ (i < N \/ Dangling)
              /\ Slot(i + 1) = Extent(i) + 1
           \/ /\ wire[Extent(i) + 1] = "]" /\ i = N /\ Closed /\ ~Dangling
              /\ Len(wire) = Extent(i) + 1
<1>1. i \in Nat /\ N \in Nat
  BY PlaceFacts
<1>2. CASE i < N
  <2>1. i > 0
    BY <1>1, <1>2
  <2>. QED
    BY <1>2, <2>1, NextPlace
<1>3. CASE i = N
  <2>1. LaidTail
    BY DEF Laid
  <2>2. Slot(i + 1) = Extent(i) + (IF i > 0 THEN 1 ELSE 0)
    BY PlaceFacts
  <2>3. CASE Dangling
    <3>1. N > 0 /\ wire[Extent(N) + 1] = ","
      BY <2>1, <2>3 DEF LaidTail
    <3>. QED
      BY <1>3, <2>2, <2>3, <3>1
  <2>4. CASE ~Dangling
    <3>1. Closed
      <4>1. Extent(N) < Len(wire) /\ Extent(N) \in Nat /\ Len(wire) \in Nat
        BY <1>1, <1>3, PlaceFacts
      <4>. QED
        BY <2>1, <2>4, <4>1 DEF LaidTail
    <3>. QED
      BY <1>3, <2>1, <2>4, <3>1 DEF LaidTail
  <2>. QED
    BY <2>3, <2>4
<1>4. i < N \/ i = N
  BY <1>1
<1>. QED
  BY <1>2, <1>3, <1>4, Zenon

\* A value begins with neither.
Ends(c) == c \in {",", "]"}

\* The grammar has no outermost comma or bracket at the start of a value.
LEMMA FirstOf ==
    ASSUME NEW e \in Element
    PROVE  ~Ends(Text[e][1])
<1>1. 1 \in 1..Len(Text[e])
  BY LexFacts
<1>2. ~EndsValue(Lexed(Text[e])[1 - 1], Text[e][1]) /\ Lexed(Text[e])[0] = Fresh
  BY <1>1, LexFacts
<1>. DEFINE c == Text[e][1]
            at == Lexed(Text[e])
<1>. HIDE DEF c, at
<1>3. ~EndsValue(at[0], c) /\ at[0] = Fresh
  <2>1. 1 - 1 = 0
    OBVIOUS
  <2>. QED
    BY <1>2, <2>1 DEF c, at
<1>4. ~Fresh.inString /\ Fresh.depth = 0
  BY DEF Fresh
<1>5. ~Ends(c)
  BY <1>3, <1>4 DEF EndsValue, Ends
<1>. QED
  BY <1>5 DEF c

\* No text follows a comma behind the last value.
LEMMA NothingDangles ==
    ASSUME Laid, Dangling
    PROVE  Slot(N + 1) = Len(wire) /\ N > 0 /\ ~Closed
<1>1. N > 0 /\ ~Closed /\ Len(wire) = Extent(N) + 1
  BY DEF Laid, LaidTail
<1>2. N \in 0..N
  BY PlaceFacts
<1>3. Slot(N + 1) = Extent(N) + (IF N > 0 THEN 1 ELSE 0)
  BY <1>2, PlaceFacts
<1>. QED
  BY <1>1, <1>3

-----------------------------------------------------------------------------
(***************************************************************************)
(* What a value parser takes.                                              *)
(***************************************************************************)
\* The greatest of a set of numbers, where it is known.
LEMMA MaxIs ==
    ASSUME NEW S \in SUBSET Int, NEW m \in S, \A y \in S : y <= m
    PROVE  Max(S) = m
<1>. DEFINE P(x) == \A y \in S : x >= y
<1>1. m \in S /\ P(m)
  <2>1. \A y \in S : y \in Int /\ m \in Int
    OBVIOUS
  <2>. QED
    BY <2>1
<1>2. \A x \in S : P(x) => x = m
  <2>. TAKE x \in S
  <2>1. x \in Int /\ m \in Int /\ x <= m
    OBVIOUS
  <2>. QED
    BY <2>1
<1>3. Max(S) \in S /\ P(Max(S))
  <2>1. Max(S) = CHOOSE x \in S : P(x)
    BY DEF Max
  <2>. HIDE DEF P
  <2>. QED
    BY <1>1, <2>1, Zenon
<1>. HIDE DEF P
<1>. QED
  BY <1>2, <1>3

\* The first symbols of a text.
LEMMA PrefixOf ==
    ASSUME NEW t \in Seq(Symbol), NEW v \in Seq(Symbol)
    PROVE  IsPrefix(t, v) <=>
               Len(t) <= Len(v) /\ \A j \in 1..Len(t) : v[j] = t[j]
<1>1. Len(t) \in Nat /\ Len(v) \in Nat
  BY LenProperties
<1>. DEFINE p == SubSeq(t, 1, Len(t))
            q == SubSeq(v, 1, Len(t))
<1>2. p \in Seq(Symbol) /\ Len(p) = Len(t) /\ \A j \in 1..Len(t) : p[j] = t[j]
  <2>1. Len(t) \in 0..Len(t)
    BY <1>1
  <2>. QED
    BY <2>1, FirstPart
<1>3. ASSUME Len(t) <= Len(v)
      PROVE  q \in Seq(Symbol) /\ Len(q) = Len(t) /\ \A j \in 1..Len(t) : q[j] = v[j]
  <2>1. Len(t) \in 0..Len(v)
    BY <1>1, <1>3
  <2>. QED
    BY <2>1, FirstPart
<1>4. IsPrefix(t, v) <=> Len(t) <= Len(v) /\ p = q
  BY DEF IsPrefix
<1>. HIDE DEF p, q
<1>5. ASSUME Len(t) <= Len(v), \A j \in 1..Len(t) : v[j] = t[j]
      PROVE  p = q
  BY <1>2, <1>3, <1>5, SeqEqual
<1>. QED
  BY <1>2, <1>3, <1>4, <1>5

\* A parser takes the digits it sees, up to the first symbol that is not one.
LEMMA DigitRunIs ==
    ASSUME NEW v \in Seq(Symbol), NEW k \in 0..Len(v),
           \A i \in 1..k : v[i] \in Digit,
           k < Len(v) => v[k + 1] \notin Digit
    PROVE  DigitRun(v) = k
<1>. DEFINE S == {n \in 0..Len(v) : \A i \in 1..n : v[i] \in Digit}
<1>1. Len(v) \in Nat /\ k \in Nat /\ k <= Len(v)
  BY LenProperties
<1>2. k \in S /\ S \in SUBSET Int
  BY <1>1
<1>3. ASSUME NEW y \in S PROVE y <= k
  <2>1. y \in Nat /\ y <= Len(v) /\ \A i \in 1..y : v[i] \in Digit
    BY <1>1
  <2>2. ASSUME ~(y <= k) PROVE FALSE
    <3>1. k < Len(v) /\ k + 1 \in 1..y
      BY <1>1, <2>1, <2>2
    <3>. QED
      BY <2>1, <3>1
  <2>. QED
    BY <2>2
<1>4. DigitRun(v) = Max(S)
  BY DEF DigitRun
<1>. HIDE DEF S
<1>. QED
  BY <1>2, <1>3, <1>4, MaxIs

\* Digits are not punctuation.
LEMMA DigitFacts == \A c \in Digit : ~Ends(c)
BY TextAssumption, NumberAssumption DEF Punctuation, Ends

\* Nothing is taken from an empty text, nor where no value begins.
LEMMA NothingParsed ==
    ASSUME NEW v \in Seq(Symbol), Len(v) > 0 => Ends(v[1])
    PROVE  Parsed(v) = {}
<1>1. Len(v) \in Nat /\ 0 \in 0..Len(v)
  BY LenProperties
<1>2. DigitRun(v) = 0
  <2>1. 0 < Len(v) => v[0 + 1] \notin Digit
    BY <1>1, DigitFacts
  <2>2. \A i \in 1..0 : v[i] \in Digit
    OBVIOUS
  <2>. QED
    BY <1>1, <2>1, <2>2, DigitRunIs
<1>3. ASSUME NEW e \in Element PROVE ~IsPrefix(Text[e], v)
  <2>. SUFFICES ASSUME IsPrefix(Text[e], v) PROVE FALSE
    OBVIOUS
  <2>1. /\ Len(Text[e]) \in Nat \ {0} /\ Text[e] \in Seq(Symbol)
        /\ ~Ends(Text[e][1])
    BY LexFacts, FirstOf
  <2>2. Len(Text[e]) <= Len(v) /\ \A j \in 1..Len(Text[e]) : v[j] = Text[e][j]
    BY <2>1, PrefixOf
  <2>3. Len(v) > 0 /\ 1 \in 1..Len(Text[e])
    BY <1>1, <2>1, <2>2
  <2>. QED
    BY <2>1, <2>2, <2>3
<1>. QED
  BY <1>2, <1>3 DEF Parsed

\* All the digits of a run that a separator or the end of the text follows.
LEMMA ParseNumber ==
    ASSUME NEW v \in Seq(Symbol), NEW k \in 1..Len(v),
           \A j \in 1..k : v[j] \in Digit,
           k < Len(v) => Ends(v[k + 1])
    PROVE  Parsed(v) = {SubSeq(v, 1, k)}
<1>1. Len(v) \in Nat /\ k \in 0..Len(v) /\ k > 0
  BY LenProperties
<1>2. k < Len(v) => v[k + 1] \notin Digit
  BY DigitFacts
<1>3. DigitRun(v) = k
  BY <1>1, <1>2, DigitRunIs
<1>. QED
  BY <1>1, <1>3 DEF Parsed

\* Of a value that is not a number the whole text is taken, or nothing.
LEMMA ParseOther ==
    ASSUME NEW v \in Seq(Symbol), NEW e \in Element \ Numbers,
           \A j \in 1..Len(Text[e]) : j <= Len(v) => v[j] = Text[e][j]
    PROVE  /\ \A t \in Parsed(v) : /\ t = Text[e] /\ Len(t) <= Len(v)
                                   /\ dec = "python" \/ e \in Parsable(dec)
           /\ Len(Text[e]) <= Len(v) /\ (dec = "python" \/ e \in Parsable(dec))
                 => Text[e] \in Parsed(v)
<1>1. /\ Len(v) \in Nat /\ Len(Text[e]) \in Nat \ {0} /\ Text[e] \in Seq(Symbol)
      /\ e \in Element /\ e \notin Numbers
  BY LenProperties, LexFacts
<1>2. CASE Len(v) = 0
  <2>1. Parsed(v) = {}
    <3>1. Len(v) > 0 => Ends(v[1])
      BY <1>2
    <3>. QED
      BY <3>1, NothingParsed, Zenon
  <2>. QED
    BY <1>1, <1>2, <2>1
<1>3. CASE Len(v) # 0
  <2>1. DigitRun(v) = 0
    <3>1. 1 \in 1..Len(Text[e]) /\ 1 <= Len(v)
      BY <1>1, <1>3
    <3>2. v[0 + 1] \notin Digit
      BY <1>1, <3>1, NumberAssumption
    <3>3. 0 \in 0..Len(v) /\ \A j \in 1..0 : v[j] \in Digit
      BY <1>1
    <3>. QED
      BY <3>2, <3>3, DigitRunIs
  <2>2. Parsed(v) = {Text[f] : f \in {f \in Element :
                        /\ IsPrefix(Text[f], v)
                        /\ dec = "python" \/ f \in Parsable(dec)}}
    BY <2>1 DEF Parsed
  <2>3. ASSUME NEW f \in Element, IsPrefix(Text[f], v)
        PROVE  f = e
    <3>1. Text[f] \in Seq(Symbol) /\ Len(Text[f]) \in Nat
      BY LexFacts
    <3>2. Len(Text[f]) <= Len(v) /\ \A j \in 1..Len(Text[f]) : v[j] = Text[f][j]
      BY <2>3, <3>1, PrefixOf
    <3>3. CASE Len(Text[f]) <= Len(Text[e])
      <4>1. ASSUME NEW j \in 1..Len(Text[f]) PROVE Text[f][j] = Text[e][j]
        <5>1. j \in 1..Len(Text[e]) /\ j <= Len(v)
          BY <1>1, <3>1, <3>2, <3>3
        <5>. QED
          BY <3>2, <5>1
      <4>. QED
        BY <1>1, <3>3, <4>1, TextsAgree
    <3>4. CASE Len(Text[e]) <= Len(Text[f])
      <4>1. ASSUME NEW j \in 1..Len(Text[e]) PROVE Text[e][j] = Text[f][j]
        <5>1. j \in 1..Len(Text[f]) /\ j <= Len(v)
          BY <1>1, <3>1, <3>2, <3>4
        <5>. QED
          BY <3>2, <5>1
      <4>. QED
        BY <1>1, <3>4, <4>1, TextsAgree
    <3>. QED
      BY <1>1, <3>1, <3>3, <3>4
  <2>4. ASSUME NEW t \in Parsed(v)
        PROVE  /\ t = Text[e] /\ Len(t) <= Len(v)
               /\ dec = "python" \/ e \in Parsable(dec)
    <3>1. PICK f \in Element : /\ t = Text[f] /\ IsPrefix(Text[f], v)
                               /\ dec = "python" \/ f \in Parsable(dec)
      BY <2>2
    <3>2. f = e
      BY <2>3, <3>1
    <3>. QED
      BY <1>1, <3>1, <3>2, PrefixOf
  <2>5. ASSUME Len(Text[e]) <= Len(v), dec = "python" \/ e \in Parsable(dec)
        PROVE  Text[e] \in Parsed(v)
    <3>1. \A j \in 1..Len(Text[e]) : v[j] = Text[e][j]
      BY <1>1, <2>5
    <3>2. IsPrefix(Text[e], v)
      BY <1>1, <2>5, <3>1, PrefixOf
    <3>. QED
      BY <2>2, <2>5, <3>2
  <2>. QED
    BY <2>4, <2>5
<1>. QED
  BY <1>2, <1>3

-----------------------------------------------------------------------------
\* A text that was read from the wire, behind its first p symbols.
Reads(v, p) ==
    /\ v \in Seq(Symbol) /\ p + Len(v) <= cut
    /\ \A j \in 1..Len(v) : v[j] = wire[p + j]

\* Of a number, behind its first d digits, the digits that can be seen are
\* taken.
LEMMA DigitsAt ==
    ASSUME Laid, NEW i \in 1..N, items[i] \in Numbers,
           NEW d \in Nat, d < Len(T(i)),
           NEW v, Reads(v, Slot(i) + d), Len(v) > 0
    PROVE  \E k \in 1..Len(v) :
              /\ Parsed(v) = {SubSeq(v, 1, k)}
              /\ d + k <= Len(T(i)) /\ (d + k < Len(T(i)) => k = Len(v))
              /\ \A j \in 1..k : v[j] = T(i)[d + j]
<1>. DEFINE s == Slot(i)
            l == Len(T(i))
            n == Len(v)
<1>1. /\ v \in Seq(Symbol) /\ n \in Nat /\ (s + d) + n <= cut
      /\ \A j \in 1..n : v[j] = wire[(s + d) + j]
  BY LenProperties DEF Reads
<1>2. /\ s \in Nat /\ l \in Nat /\ Extent(i) = s + l /\ Len(wire) \in Nat
      /\ cut \in Nat /\ cut <= Len(wire) /\ i \in 0..N /\ i > 0 /\ N \in Nat
  BY PlaceFacts
<1>3. \A j \in 1..l : wire[s + j] = T(i)[j] /\ T(i)[j] \in Digit
  <2>1. \A j \in 1..l : wire[s + j] = T(i)[j]
    BY DEF Laid
  <2>2. \A j \in DOMAIN T(i) : T(i)[j] \in Digit
    BY DEF Numbers, T
  <2>3. DOMAIN T(i) = 1..l
    BY PlaceFacts, LenProperties
  <2>. QED
    BY <2>1, <2>2, <2>3
<1>. DEFINE k == IF n <= l - d THEN n ELSE l - d
<1>4. /\ k \in 1..n /\ d + k <= l /\ (d + k < l => k = n) /\ k \in Nat
      /\ k < n => d + k = l
  <2>. HIDE DEF s, l, n
  <2>. QED
    BY <1>1, <1>2 DEF l, n
<1>. HIDE DEF k, s, l, n
<1>5. ASSUME NEW j \in 1..k PROVE v[j] = T(i)[d + j] /\ v[j] \in Digit
  <2>1. j \in 1..n /\ d + j \in 1..l /\ (s + d) + j = s + (d + j)
    BY <1>1, <1>2, <1>4
  <2>. QED
    BY <1>1, <1>3, <2>1
<1>6. ASSUME k < n PROVE Ends(v[k + 1])
  <2>1. /\ k + 1 \in 1..n /\ (s + d) + (k + 1) = Extent(i) + 1
        /\ Extent(i) < Len(wire)
    BY <1>1, <1>2, <1>4, <1>6
  <2>2. wire[Extent(i) + 1] = "," \/ wire[Extent(i) + 1] = "]"
    BY <1>2, <2>1, BehindValue
  <2>. DEFINE c == wire[Extent(i) + 1]
  <2>3. v[k + 1] = c
    BY <1>1, <2>1
  <2>. HIDE DEF c
  <2>4. Ends(c)
    BY <2>2 DEF c, Ends
  <2>. QED
    BY <2>3, <2>4
<1>7. Parsed(v) = {SubSeq(v, 1, k)}
  BY <1>1, <1>4, <1>5, <1>6, ParseNumber DEF n
<1>. QED
  BY <1>4, <1>5, <1>7 DEF l, n

\* Of another value the whole text is taken, once it has arrived.
LEMMA TextAt ==
    ASSUME Laid, NEW i \in 1..N, items[i] \notin Numbers,
           NEW v, Reads(v, Slot(i))
    PROVE  /\ \A t \in Parsed(v) :
                 /\ t = T(i) /\ Len(t) <= Len(v)
                 /\ dec = "python" \/ items[i] \in Parsable(dec)
           /\ Len(T(i)) <= Len(v) /\ (dec = "python" \/ items[i] \in Parsable(dec))
                 => T(i) \in Parsed(v)
<1>1. v \in Seq(Symbol) /\ \A j \in 1..Len(v) : v[j] = wire[Slot(i) + j]
  BY DEF Reads
<1>2. \A j \in 1..Len(T(i)) : wire[Slot(i) + j] = T(i)[j]
  BY DEF Laid
<1>3. items[i] \in Element \ Numbers /\ Len(v) \in Nat /\ Len(T(i)) \in Nat
  BY <1>1, PlaceFacts, LenProperties
<1>4. \A j \in 1..Len(T(i)) : j <= Len(v) => v[j] = T(i)[j]
  <2>. TAKE j \in 1..Len(T(i))
  <2>1. j <= Len(v) => j \in 1..Len(v)
    BY <1>3
  <2>. QED
    BY <1>1, <1>2, <2>1
<1>. QED
  BY <1>1, <1>3, <1>4, ParseOther DEF T

-----------------------------------------------------------------------------
(***************************************************************************)
(* No step changes what was written, nor how much of it arrives.           *)
(***************************************************************************)
Unmoved == wireVars' = wireVars /\ dec' = dec

\* By inspection of the actions.
LEMMA Fixed == [Next]_vars => Unmoved
BY DEF Next, vars, decVars, Open, Refill, ScanChar, Separator, CloseArray,
       ScanCut, SkipComma, ParseClose, RawDecode, Fill, FillFails, PullOpen,
       PullElement, PullClose, PullFails, Unmoved

\* What follows from it for the definitions over the wire.
LEMMA SameWire ==
    ASSUME Unmoved
    PROVE  /\ enc' = enc /\ items' = items /\ ending' = ending /\ wire' = wire
           /\ cut' = cut /\ dec' = dec /\ arrived' = arrived /\ whole' = whole
           /\ N' = N /\ Laid' = Laid /\ Splittable' = Splittable
           /\ Truncated' = Truncated /\ Closed' = Closed /\ Dangling' = Dangling
           /\ Accepted' = Accepted /\ Sent' = Sent /\ Intact' = Intact
<1>1. /\ enc' = enc /\ items' = items /\ ending' = ending /\ wire' = wire
      /\ cut' = cut /\ dec' = dec /\ arrived' = arrived /\ whole' = whole
  BY DEF Unmoved, wireVars
<1>2. N' = N /\ Truncated' = Truncated /\ Closed' = Closed /\ Sent' = Sent
  BY <1>1 DEF N, Truncated, Closed, Sent
<1>3. Dangling' = Dangling /\ Intact' = Intact
  BY <1>1, <1>2 DEF Dangling, Intact
<1>4. Laid' = Laid
  BY <1>1, <1>2, <1>3 DEF Laid, LaidTail, Extent, Slot, T
<1>5. Splittable' = Splittable
  BY <1>1, <1>2 DEF Splittable
<1>6. Accepted' = Accepted
  BY <1>1, <1>2 DEF Accepted, Refused
<1>. QED
  BY <1>1, <1>2, <1>3, <1>4, <1>5, <1>6

-----------------------------------------------------------------------------
(***************************************************************************)
(* The text held.                                                          *)
(***************************************************************************)
LEMMA InputFacts ==
    ASSUME Laid
    PROVE  /\ Input \in Seq(Symbol) /\ Len(Input) = cut
           /\ \A j \in 1..Len(Input) : Input[j] = wire[j]
<1>1. wire \in Seq(Symbol) /\ cut \in 0..Len(wire)
  BY DEF Laid
<1>. QED
  BY <1>1, FirstPart DEF Input

\* The positions in the buffer and on the wire agree, and so do the symbols.
LEMMA HeldFacts ==
    ASSUME Laid, Held
    PROVE  /\ read \in Nat /\ cut \in Nat /\ read <= cut /\ Len(buf) \in Nat
           /\ pos \in Nat /\ elemStart \in Nat /\ elemStart <= pos /\ pos <= Len(buf)
           /\ Base \in Nat /\ Cursor \in Nat /\ Cursor <= read
           /\ Base + Len(buf) = read /\ Cursor = Base + pos
           /\ Starved <=> Cursor = read
           /\ ~Starved => Char = wire[Cursor + 1] /\ Cursor < read
           /\ View \in Seq(Symbol) /\ Len(View) = read - Cursor
           /\ Reads(View, Cursor)
<1>1. /\ read \in Nat /\ cut \in Nat /\ read <= cut /\ Len(buf) \in Nat
      /\ pos \in Nat /\ elemStart \in Nat /\ elemStart <= pos /\ pos <= Len(buf)
      /\ Len(buf) <= read
  BY PlaceFacts, LenProperties DEF Held
<1>. DEFINE b == Len(buf)
<1>2. /\ Base \in Nat /\ Cursor \in Nat /\ Cursor <= read
      /\ Base + b = read /\ Cursor = Base + pos
      /\ Starved <=> Cursor = read
  BY <1>1 DEF Base, Cursor, Starved
<1>3. ASSUME ~Starved PROVE Char = wire[Cursor + 1] /\ Cursor < read
  <2>1. pos + 1 \in 1..b /\ Base + (pos + 1) = Cursor + 1 /\ Cursor < read
    BY <1>1, <1>2, <1>3 DEF Starved
  <2>2. buf[pos + 1] = wire[Base + (pos + 1)]
    BY <2>1 DEF Held
  <2>. QED
    BY <2>1, <2>2 DEF Char
<1>4. /\ View \in Seq(Symbol) /\ Len(View) = b - pos
      /\ \A j \in 1..(b - pos) : View[j] = buf[pos + j]
  <2>1. b \in pos..b /\ buf \in Seq(Symbol)
    BY <1>1 DEF Held
  <2>. QED
    BY <1>1, <2>1, Part DEF View
<1>5. Len(View) = read - Cursor
  BY <1>1, <1>2, <1>4
<1>6. Reads(View, Cursor)
  <2>1. Cursor + Len(View) <= cut
    BY <1>1, <1>2, <1>5
  <2>2. ASSUME NEW j \in 1..Len(View) PROVE View[j] = wire[Cursor + j]
    <3>1. j \in 1..(b - pos) /\ pos + j \in 1..b /\ Base + (pos + j) = Cursor + j
      BY <1>1, <1>2, <1>4
    <3>2. buf[pos + j] = wire[Base + (pos + j)]
      BY <3>1 DEF Held
    <3>. QED
      BY <1>4, <3>1, <3>2
  <2>. QED
    BY <1>4, <2>1, <2>2 DEF Reads
<1>. QED
  BY <1>1, <1>2, <1>3, <1>4, <1>5, <1>6

\* What compaction may leave in the buffer, as a number.
LEMMA RoomFacts ==
    /\ ChunkSize \in Nat \ {0} /\ CompactAt \in Nat \ {0} /\ Room \in Nat
    /\ dec = "node" => Room >= 1 /\ Room >= CompactAt - 1
<1>1. ChunkSize \in Nat \ {0} /\ CompactAt \in Nat \ {0}
  BY ArraysAssumption
<1>. DEFINE m == IF CompactAt - 1 > 1 THEN CompactAt - 1 ELSE 1
            S == {1, CompactAt - 1}
<1>2. S \in SUBSET Int /\ m \in S /\ \A y \in S : y <= m
  BY <1>1
<1>3. Max(S) = m
  <2>. HIDE DEF S, m
  <2>. QED
    BY <1>2, MaxIs
<1>4. Room = IF dec = "node" THEN m ELSE 0
  BY <1>3 DEF Room
<1>. QED
  BY <1>1, <1>4

\* A buffer that does not grow stays within its bound.
LEMMA StaysBounded ==
    ASSUME Laid, Held, Held', Laid', Unmoved, BufferBounded, Len(buf') <= Len(buf)
    PROVE  BufferBounded'
<1>1. PICK n \in {0} \cup {Len(Text[e]) : e \in Element} :
          Len(buf) <= n + ChunkSize + Room
  BY DEF BufferBounded
<1>2. Room' = Room
  BY SameWire DEF Room
<1>3. n \in Nat /\ Len(buf) \in Nat /\ Len(buf') \in Nat /\ ChunkSize \in Nat /\ Room \in Nat
  <2>1. n \in Nat
    BY LexFacts
  <2>2. Len(buf') \in Nat
    BY LenProperties DEF Held
  <2>. QED
    BY <2>1, <2>2, HeldFacts, RoomFacts
<1>4. Len(buf') <= n + ChunkSize + Room
  BY <1>1, <1>3
<1>. QED
  BY <1>2, <1>4 DEF BufferBounded

\* One read, and what is left of the buffer before it.
LEMMA ReadMore ==
    ASSUME Laid, Held, NEW n \in 1..ChunkSize, Chunk(n), Unmoved,
           buf' = buf \o SubSeq(Input, read + 1, read + n)
    PROVE  /\ n \in Nat /\ read' = read + n /\ read' <= cut
           /\ buf' \in Seq(Symbol) /\ Len(buf') = Len(buf) + n
           /\ Base' = Base
           /\ \A j \in 1..Len(buf') : buf'[j] = wire[Base + j]
<1>1. n \in Nat /\ read' = read + n /\ read' <= cut
  BY RoomFacts, InputFacts DEF Chunk
<1>. DEFINE a == Input
<1>2. /\ a \in Seq(Symbol) /\ \A i \in 1..Len(a) : a[i] = wire[i]
      /\ buf \in Seq(Symbol) /\ read \in Nat /\ Len(buf) <= read
      /\ \A j \in 1..Len(buf) : buf[j] = wire[(read - Len(buf)) + j]
      /\ read + n <= Len(a)
  BY InputFacts, HeldFacts DEF Chunk, Held, Base
<1>. HIDE DEF a
<1>3. /\ buf' \in Seq(Symbol) /\ Len(buf') = Len(buf) + n
      /\ \A j \in 1..Len(buf') : buf'[j] = wire[(read - Len(buf)) + j]
  <2>1. buf' = buf \o SubSeq(a, read + 1, read + n)
    BY DEF a
  <2>2. Refilled(wire, a, buf, read, n, buf')
    BY <1>1, <1>2, <2>1 DEF Refilled
  <2>. QED
    BY ONLY <2>2, FillWindow
<1>4. Base' = Base
  <2>1. read \in Nat /\ Len(buf) \in Nat
    BY HeldFacts
  <2>2. read' - Len(buf') = read - Len(buf)
    BY <1>1, <1>3, <2>1
  <2>. QED
    BY <2>2 DEF Base
<1>. QED
  BY <1>1, <1>3, <1>4 DEF Base

-----------------------------------------------------------------------------
(***************************************************************************)
(* What was handed over.                                                   *)
(***************************************************************************)
LEMMA SameGiven ==
    ASSUME Unmoved, yielded' = yielded, read' = read \/ dec \notin PullPorts, Given
    PROVE  Given'
<1>1. /\ items' = items /\ cut' = cut /\ dec' = dec /\ Truncated' = Truncated /\ N' = N
  BY SameWire
<1>2. CutOff' = CutOff
  BY <1>1 DEF CutOff, Taken, T, Extent
<1>. QED
  BY <1>1, <1>2 DEF Given, Taken, T, Refused, Arrived, Extent

\* One more value, whole and accepted, keeps what was handed over right.
LEMMA MoreGiven ==
    ASSUME Laid, Unmoved, Given, ~CutOff, yielded \in Seq(Seq(Symbol)), Here <= N,
           yielded' = Append(yielded, T(Here)),
           ~Refused(items[Here]), Arrived(Here)
    PROVE  Given'
<1>1. /\ items' = items /\ cut' = cut /\ dec' = dec /\ N' = N
  BY SameWire
<1>2. Taken \in Nat /\ Taken' = Here /\ Here = Taken + 1 /\ Here \in 1..N
  <2>1. Taken \in Nat
    BY LenProperties DEF Taken
  <2>2. Here \in 1..N
    BY <2>1, PlaceFacts DEF Here
  <2>3. T(Here) \in Seq(Symbol)
    BY <2>2, PlaceFacts
  <2>4. Len(yielded') = Len(yielded) + 1
    BY <2>3, AppendProperties
  <2>. QED
    BY <2>1, <2>2, <2>4 DEF Here, Taken
<1>3. /\ \A i \in 1..Taken : yielded'[i] = yielded[i]
      /\ yielded'[Here] = T(Here)
  <2>1. T(Here) \in Seq(Symbol)
    BY <1>2, PlaceFacts
  <2>. QED
    BY <1>2, <2>1, AppendProperties DEF Taken
<1>4. ASSUME NEW i \in 1..Here
      PROVE  ~Refused(items[i]) /\ yielded'[i] = T(i) /\ Arrived(i)
  <2>1. CASE i = Here
    BY <1>3, <2>1
  <2>2. CASE i # Here
    <3>1. i \in 1..Taken
      BY <1>2, <2>2
    <3>. QED
      BY <1>3, <3>1 DEF Given
  <2>. QED
    BY <2>1, <2>2
<1>5. ASSUME NEW i \in 1..Here
      PROVE  Refused(items[i])' = Refused(items[i]) /\ T(i)' = T(i) /\ Arrived(i)' = Arrived(i)
  BY <1>1 DEF Refused, T, Arrived, Extent
<1>. QED
  BY <1>1, <1>2, <1>4, <1>5 DEF Given

-----------------------------------------------------------------------------
(***************************************************************************)
(* The scanners.                                                           *)
(***************************************************************************)
\* The value a scanner stands in and the consumed prefix bound what it holds.
LEMMA ScanBound == Laid /\ Held /\ ScanAt => BufferBounded
<1>. SUFFICES ASSUME Laid, Held, ScanAt PROVE BufferBounded
  OBVIOUS
<1>1. /\ pos \in Nat /\ elemStart \in Nat /\ Len(buf) \in Nat
      /\ Len(buf) - pos <= ChunkSize /\ elemStart <= Room
      /\ Room \in Nat /\ ChunkSize \in Nat
  BY HeldFacts, RoomFacts DEF ScanAt
<1>2. CASE Here <= N
  <2>1. Here \in 1..N
    BY <1>2, PlaceFacts, LenProperties DEF Here, Taken, Held
  <2>. DEFINE l == Len(T(Here))
  <2>2. l \in Nat /\ items[Here] \in Element /\ l = Len(Text[items[Here]])
    BY <2>1, PlaceFacts DEF T
  <2>3. pos - elemStart <= l
    BY <1>2 DEF ScanAt, Passed
  <2>. HIDE DEF l
  <2>4. Len(buf) <= l + ChunkSize + Room
    BY <1>1, <2>2, <2>3
  <2>. QED
    BY <2>2, <2>4 DEF BufferBounded
<1>3. CASE ~(Here <= N)
  <2>1. pos - elemStart = 0
    BY <1>3 DEF ScanAt, Passed
  <2>2. Len(buf) <= 0 + ChunkSize + Room
    BY <1>1, <2>1
  <2>. QED
    BY <2>2 DEF BufferBounded
<1>. QED
  BY <1>2, <1>3

\* Before the bracket the buffer holds one read at most.
LEMMA StartBound == Laid /\ Held /\ AtStart => BufferBounded
<1>. SUFFICES ASSUME Laid, Held, AtStart PROVE BufferBounded
  OBVIOUS
<1>1. Len(buf) <= 0 + ChunkSize + Room
  BY HeldFacts, RoomFacts DEF AtStart
<1>. QED
  BY <1>1 DEF BufferBounded

\* A scanner that has moved in its buffer but not on the wire.
LEMMA SameScan ==
    ASSUME Unmoved, yielded' = yielded, lex' = lex,
           Base' + elemStart' = Base + elemStart, Passed' = Passed,
           elemStart' <= Room, Len(buf') - pos' <= ChunkSize, ScanAt
    PROVE  ScanAt'
<1>1. /\ items' = items /\ wire' = wire /\ dec' = dec /\ N' = N
  BY SameWire
<1>2. Here' = Here /\ Room' = Room
  BY <1>1 DEF Here, Taken, Room
<1>3. Slot(Here)' = Slot(Here) /\ T(Here)' = T(Here)
  BY <1>1, <1>2 DEF Slot, Extent, T
<1>4. BehindComma(Here)' = BehindComma(Here)
  BY <1>1, <1>2, <1>3 DEF BehindComma
<1>. QED
  BY <1>1, <1>2, <1>3, <1>4 DEF ScanAt, Past

\* A read, in Node and Rust, and before the bracket in Python.
LEMMA RefillStep ==
    ASSUME ArraysInv, Refill
    PROVE  ArraysInv'
<1>1. Unmoved /\ Laid /\ Held /\ dec \notin PullPorts /\ dec' = dec
  BY DEF Refill, Unmoved, ArraysInv, Buffered
<1>2. /\ pos' = pos /\ elemStart' = elemStart /\ lex' = lex /\ dpc' = dpc
      /\ yielded' = yielded /\ outcome' = outcome
      /\ dpc # "done" /\ pos = Len(buf)
      /\ dec \in ScanPorts \/ dpc = "start"
  BY DEF Refill, Starved
<1>3. PICK n \in 1..ChunkSize :
          /\ Chunk(n)
          /\ buf' = buf \o SubSeq(Input, read + 1, read + n)
  BY DEF Refill
<1>4. /\ n \in Nat /\ read' = read + n /\ read' <= cut
      /\ buf' \in Seq(Symbol) /\ Len(buf') = Len(buf) + n
      /\ Base' = Base
      /\ \A j \in 1..Len(buf') : buf'[j] = wire[Base + j]
  BY <1>1, <1>3, ReadMore
<1>5. /\ read \in Nat /\ Len(buf) \in Nat /\ pos \in Nat /\ elemStart \in Nat
      /\ elemStart <= pos /\ cut \in Nat /\ Base + Len(buf) = read /\ Base \in Nat
      /\ ChunkSize \in Nat
  BY <1>1, HeldFacts, RoomFacts
<1>6. Held'
  <2>1. read' \in 0..cut /\ Len(buf') <= read' /\ pos' \in 0..Len(buf')
    BY <1>2, <1>4, <1>5
  <2>2. cut' = cut /\ wire' = wire
    BY <1>1, SameWire
  <2>. QED
    BY <1>1, <1>2, <1>4, <2>1, <2>2 DEF Held
<1>7. ASSUME dpc = "start" PROVE AtStart'
  BY <1>1, <1>2, <1>4, <1>5, <1>7 DEF ArraysInv, AtStart
<1>8. ASSUME dpc = "scan", dec \in ScanPorts PROVE ScanAt'
  <2>1. ScanAt
    BY <1>8 DEF ArraysInv
  <2>2. Passed' = Passed /\ Base' + elemStart' = Base + elemStart
        /\ elemStart' <= Room
    BY <1>2, <1>4, <2>1 DEF Passed, ScanAt
  <2>3. Len(buf') - pos' <= ChunkSize
    BY <1>2, <1>3, <1>4, <1>5
  <2>. QED
    BY <1>1, <1>2, <2>1, <2>2, <2>3, SameScan
<1>9. Laid' /\ Splittable' = Splittable
  BY <1>1, SameWire
<1>10. dpc = "start" \/ (dpc = "scan" /\ dec \in ScanPorts)
  BY <1>1, <1>2 DEF Held
<1>11. BufferBounded'
  <2>1. dpc = "start" => BufferBounded'
    BY <1>6, <1>7, <1>9, StartBound, PTL
  <2>2. dpc = "scan" /\ dec \in ScanPorts => BufferBounded'
    BY <1>6, <1>8, <1>9, ScanBound, PTL
  <2>. QED
    BY <1>10, <2>1, <2>2
<1>12. ~Splittable => Given'
  BY <1>1, <1>2, SameGiven DEF ArraysInv
<1>. QED
  BY <1>1, <1>2, <1>6, <1>7, <1>8, <1>9, <1>10, <1>11, <1>12
     DEF ArraysInv, ScanPorts, Parsers, PullPorts

\* A parser that moved to a place between values or inside one.
LEMMA NewPlace ==
    ASSUME Unmoved, elemStart' = 0,
           ~Splittable => Between(Cursor', Taken'),
           \E i \in 0..N : Between(Cursor', i) \/ Inside(Cursor', i)
    PROVE  ParseAt'
<1>1. /\ items' = items /\ N' = N /\ Splittable' = Splittable /\ Dangling' = Dangling
  BY SameWire
<1>2. ~Splittable => Between(Cursor, Taken)'
  BY <1>1 DEF Between, Slot, Extent
<1>3. \E i \in 0..N : Between(Cursor, i)' \/ Inside(Cursor, i)'
  BY <1>1 DEF Between, Inside, Slot, Extent
<1>. QED
  BY <1>1, <1>2, <1>3 DEF ParseAt

\* A scanner at the beginning of a value, or behind the last.
LEMMA ScanNext ==
    ASSUME Laid, Unmoved, Here' \in 1..(N + 1),
           Base' + elemStart' = Slot(Here'), BehindComma(Here'),
           lex' = Fresh, pos' = elemStart', pos' \in Nat,
           Len(buf') - pos' <= ChunkSize, elemStart' <= Room
    PROVE  ScanAt'
<1>1. /\ items' = items /\ wire' = wire /\ dec' = dec /\ N' = N
  BY SameWire
<1>2. Room' = Room /\ Passed' = 0 /\ N \in Nat
  <2>1. N \in Nat
    BY PlaceFacts
  <2>2. Passed' = pos' - elemStart'
    BY DEF Passed
  <2>5. pos' = elemStart' /\ pos' \in Nat
    OBVIOUS
  <2>6. \A k \in Nat : k - k = 0
    OBVIOUS
  <2>3. Passed' = 0
    BY <2>2, <2>5, <2>6, Zenon
  <2>4. Room' = Room
    BY <1>1 DEF Room
  <2>. QED
    BY <2>1, <2>3, <2>4
<1>3. Slot(Here)' = Slot(Here')
  BY <1>1 DEF Slot, Extent
<1>4. ASSUME Here' <= N
      PROVE  /\ T(Here)' = T(Here') /\ Len(T(Here')) \in Nat
             /\ Lexed(T(Here'))[0] = Fresh
  <2>1. Here' \in 1..N
    BY <1>2, <1>4
  <2>2. items[Here'] \in Element /\ Len(T(Here')) \in Nat
    BY <2>1, PlaceFacts
  <2>3. T(Here') = Text[items[Here']]
    BY DEF T
  <2>4. T(Here)' = T(Here')
    BY <1>1 DEF T
  <2>5. Lexed(Text[items[Here']])[0] = Fresh
    BY <2>2, LexFacts
  <2>. QED
    BY <2>2, <2>3, <2>4, <2>5
<1>5. ~Past(MaxDepth, Fresh.depth)
  <2>1. Fresh.depth = 0
    BY DEF Fresh
  <2>2. MaxDepth \in Nat
    BY ArraysAssumption
  <2>. QED
    BY <2>1, <2>2 DEF Past
<1>6. ASSUME Here' <= N
      PROVE  /\ Passed' <= Len(T(Here)') /\ lex' = Lexed(T(Here)')[Passed']
             /\ \A j \in 0..Passed' : ~Past(MaxDepth, Lexed(T(Here)')[j].depth)
  <2>. DEFINE n == Passed'
              t == T(Here)'
  <2>1. n = 0 /\ Len(t) \in Nat /\ Lexed(t)[0] = Fresh
    BY <1>2, <1>4, <1>6
  <2>. HIDE DEF n, t
  <2>2. \A j \in 0..n : j = 0
    BY <2>1
  <2>3. n <= Len(t) /\ lex' = Lexed(t)[n] /\ \A j \in 0..n : ~Past(MaxDepth, Lexed(t)[j].depth)
    BY <1>5, <2>1, <2>2
  <2>. QED
    BY <2>3 DEF n, t
<1>7. BehindComma(Here)'
  BY <1>1, <1>3 DEF BehindComma
<1>. QED
  BY <1>1, <1>2, <1>3, <1>6, <1>7 DEF ScanAt, Past

-----------------------------------------------------------------------------
\* The opening bracket.
LEMMA OpenStep ==
    ASSUME ArraysInv, Open
    PROVE  ArraysInv'
<1>1. Unmoved /\ Laid /\ Held /\ dec \notin PullPorts /\ dec' = dec
  BY DEF Open, Unmoved, ArraysInv, Buffered
<1>2. /\ read' = read /\ lex' = lex /\ yielded' = yielded
      /\ dpc = "start" /\ ~Starved
  BY DEF Open
<1>3. AtStart /\ Base = 0 /\ pos = 0 /\ elemStart = 0 /\ lex = Fresh
      /\ yielded = <<>> /\ Len(buf) <= ChunkSize
  BY <1>2 DEF ArraysInv, AtStart
<1>4. /\ read \in Nat /\ Len(buf) \in Nat /\ Len(buf) = read /\ Len(buf) > 0
      /\ cut \in Nat
  BY <1>1, <1>2, <1>3, HeldFacts DEF Starved
<1>5. Char = "["
  <2>1. Char = wire[Cursor + 1] /\ Cursor = 0
    BY <1>1, <1>2, <1>3, HeldFacts
  <2>2. wire[1] = "["
    BY <1>1 DEF Laid
  <2>. QED
    BY <2>1, <2>2
<1>6. /\ dpc' = "scan" /\ outcome' = outcome
      /\ IF dec = "rust" THEN buf' = Tail(buf) /\ pos' = 0
                         ELSE pos' = 1 /\ buf' = buf
      /\ elemStart' = IF dec = "node" THEN 1 ELSE 0
  BY <1>3, <1>5 DEF Open
<1>7. /\ buf' \in Seq(Symbol) /\ Len(buf') <= Len(buf) /\ Len(buf') \in Nat
      /\ Base' \in Nat /\ Base' + pos' = 1 /\ pos' \in 0..Len(buf')
      /\ Base' = read - Len(buf')
      /\ \A j \in 1..Len(buf') : buf'[j] = wire[Base' + j]
  <2>1. \A j \in 1..Len(buf) : buf[j] = wire[j]
    BY <1>1, <1>3, <1>4 DEF Held
  <2>2. Base' = read - Len(buf')
    BY <1>2 DEF Base
  <2>3. CASE dec = "rust"
    <3>1. buf \in Seq(Symbol) /\ buf # <<>>
      BY <1>1, <1>4 DEF Held
    <3>2. /\ buf' \in Seq(Symbol) /\ Len(buf') = Len(buf) - 1
          /\ \A j \in 1..Len(buf') : buf'[j] = buf[j + 1]
      BY <1>6, <2>3, <3>1, HeadTailProperties
    <3>3. Base' = 1
      BY <1>4, <2>2, <3>2
    <3>. QED
      BY <1>4, <1>6, <2>1, <2>2, <2>3, <3>2, <3>3
  <2>4. CASE dec # "rust"
    BY <1>1, <1>4, <1>6, <2>1, <2>2, <2>4 DEF Held
  <2>. QED
    BY <2>3, <2>4
<1>8. Here' = 1 /\ Taken' = 0 /\ Slot(1) = 1 /\ N \in Nat /\ Extent(0) = 1
      /\ Slot(0 + 1) = 1
  <2>1. Here' = 1 /\ Taken' = 0
    BY <1>2, <1>3 DEF Here, Taken
  <2>2. N \in Nat /\ Extent(0) = 1 /\ 0 \in 0..N
    BY <1>1, PlaceFacts
  <2>3. Slot(0 + 1) = 1
    BY <1>1, <2>2, PlaceFacts
  <2>. QED
    BY <2>1, <2>2, <2>3
<1>9. Held'
  <2>1. read' \in 0..cut' /\ wire' = wire
    BY <1>1, <1>2, SameWire DEF Held
  <2>2. elemStart' \in 0..pos'
    BY <1>6
  <2>. QED
    BY <1>1, <1>2, <1>4, <1>6, <1>7, <2>1, <2>2 DEF Held
<1>10. ASSUME dec \in ScanPorts PROVE ScanAt'
  <2>1. pos' = elemStart' /\ elemStart' <= Room /\ pos' \in Nat
    BY <1>6, <1>10, RoomFacts DEF ScanPorts
  <2>2. Len(buf') - pos' <= ChunkSize
    BY <1>3, <1>4, <1>6, <1>7, RoomFacts
  <2>3. Base' + elemStart' = Slot(Here') /\ Here' \in 1..(N + 1) /\ BehindComma(Here')
    BY <1>7, <1>8, <2>1 DEF BehindComma
  <2>. QED
    BY <1>1, <1>2, <1>3, <2>1, <2>2, <2>3, ScanNext
<1>11. ASSUME dec \in Parsers PROVE ParseAt'
  <2>1. elemStart' = 0 /\ Cursor' = 1
    BY <1>6, <1>7, <1>11 DEF Parsers, Cursor
  <2>2. Between(Cursor', 0)
    BY <1>8, <2>1 DEF Between
  <2>. QED
    BY <1>1, <1>8, <2>1, <2>2, NewPlace
<1>12. Laid' /\ Splittable' = Splittable
  BY <1>1, SameWire
<1>13. BufferBounded'
  BY <1>1, <1>7, <1>9, <1>12, StaysBounded DEF ArraysInv
<1>14. ~Splittable => Given'
  BY <1>1, <1>2, SameGiven DEF ArraysInv
<1>. QED
  BY <1>1, <1>6, <1>9, <1>10, <1>11, <1>12, <1>13, <1>14 DEF ArraysInv

-----------------------------------------------------------------------------
\* Only Python's parser can split a number.
LEMMA WhoSplits == dec # "python" => ~Splittable
BY DEF Splittable

\* The value under the cursor is one of the array, or the cursor is behind them.
LEMMA HereFacts ==
    ASSUME Laid, Held, Given
    PROVE  /\ Taken \in 0..N /\ Taken \in Nat /\ Here = Taken + 1
           /\ Here \in 1..(N + 1) /\ Here - 1 = Taken
           /\ Here <= N => Here \in 1..N
           /\ ~(Here <= N) => Here = N + 1 /\ Taken = N
<1>1. N \in Nat
  BY PlaceFacts
<1>2. Taken \in Nat
  BY LenProperties DEF Held, Taken
<1>3. Taken <= N
  BY DEF Given
<1>. QED
  BY <1>1, <1>2, <1>3 DEF Here

\* The symbol under the cursor: the next of the value the scanner is in, ...
InText ==
    /\ Here \in 1..N /\ Passed \in Nat /\ Passed < Len(T(Here))
    /\ Char = T(Here)[Passed + 1] /\ ~EndsValue(lex, Char)
    /\ Lex(lex, Char) = Lexed(T(Here))[Passed + 1]
    /\ Lex(lex, Char).depth \in Nat

\* ... the one behind it, ...
BehindText ==
    /\ Here \in 1..N /\ Cursor = Extent(Here) /\ Slice = T(Here) /\ lex = Fresh
    /\ \A j \in 0..Len(T(Here)) : ~Past(MaxDepth, Lexed(T(Here))[j].depth)
    /\ \/ /\ Char = "," /\ (Here < N \/ Dangling)
          /\ Slot(Here + 1) = Cursor + 1
       \/ /\ Char = "]" /\ Here = N /\ Closed /\ Len(wire) = Cursor + 1

\* ... or the bracket of an empty array.
AtEmpty ==
    /\ N = 0 /\ Here = 1 /\ Cursor = Extent(0) /\ Slice = <<>> /\ lex = Fresh
    /\ Char = "]" /\ Closed /\ Len(wire) = Cursor + 1

\* The slice is the text from its start on the wire up to the cursor.
LEMMA SliceFacts ==
    ASSUME Laid, Held
    PROVE  /\ Slice \in Seq(Symbol) /\ Len(Slice) = Passed /\ Passed \in Nat
           /\ Cursor = (Base + elemStart) + Passed
           /\ \A j \in 1..Passed : Slice[j] = wire[(Base + elemStart) + j]
<1>1. /\ pos \in Nat /\ elemStart \in Nat /\ elemStart <= pos /\ pos <= Len(buf)
      /\ Len(buf) \in Nat /\ Base \in Nat /\ Cursor = Base + pos
      /\ buf \in Seq(Symbol)
  BY HeldFacts DEF Held
<1>2. /\ Slice \in Seq(Symbol) /\ Len(Slice) = pos - elemStart
      /\ \A j \in 1..(pos - elemStart) : Slice[j] = buf[elemStart + j]
  <2>1. pos \in elemStart..Len(buf)
    BY <1>1
  <2>. QED
    BY <1>1, <2>1, Part DEF Slice
<1>3. Passed = pos - elemStart /\ Passed \in Nat
  BY <1>1 DEF Passed
<1>4. ASSUME NEW j \in 1..Passed
      PROVE  Slice[j] = wire[(Base + elemStart) + j]
  <2>1. /\ j \in 1..(pos - elemStart) /\ elemStart + j \in 1..Len(buf)
        /\ Base + (elemStart + j) = (Base + elemStart) + j
    BY <1>1, <1>3
  <2>2. buf[elemStart + j] = wire[Base + (elemStart + j)]
    BY <2>1 DEF Held
  <2>. QED
    BY <1>2, <2>1, <2>2
<1>5. Cursor = (Base + elemStart) + Passed
  BY <1>1, <1>3
<1>. QED
  BY <1>2, <1>3, <1>4, <1>5

\* One of the three holds wherever a scanner may stand.
LEMMA ScanFacts ==
    ASSUME Laid, Held, Given, dec \in ScanPorts, ScanAt, ~Starved
    PROVE  InText \/ BehindText \/ AtEmpty
<1>1. /\ Taken \in 0..N /\ Here = Taken + 1 /\ Here \in 1..(N + 1) /\ N \in Nat
      /\ Here <= N => Here \in 1..N
      /\ ~(Here <= N) => Here = N + 1 /\ Taken = N
  BY HereFacts, PlaceFacts
<1>2. /\ Cursor = Slot(Here) + Passed /\ Passed \in Nat
      /\ Slice \in Seq(Symbol) /\ Len(Slice) = Passed
      /\ \A j \in 1..Passed : Slice[j] = wire[Slot(Here) + j]
  BY SliceFacts DEF ScanAt
<1>3. /\ Char = wire[Cursor + 1] /\ Cursor < read /\ read <= cut /\ cut <= Len(wire)
      /\ Cursor \in Nat /\ read \in Nat /\ cut \in Nat /\ Len(wire) \in Nat
  BY HeldFacts, PlaceFacts
<1>4. CASE Here <= N
  <2>. DEFINE t == T(Here)
              l == Len(t)
              at == Lexed(t)
  <2>1. /\ Here \in 1..N /\ t \in Seq(Symbol) /\ l \in Nat /\ t = Text[items[Here]]
        /\ items[Here] \in Element
        /\ Extent(Here) = Slot(Here) + l /\ Slot(Here) \in Nat
    BY <1>1, <1>4, PlaceFacts DEF T
  <2>2. /\ Passed <= l /\ lex = at[Passed]
        /\ \A j \in 0..Passed : ~Past(MaxDepth, at[j].depth)
    BY <1>4 DEF ScanAt
  <2>3. \A j \in 1..l : wire[Slot(Here) + j] = t[j]
    BY <2>1 DEF Laid
  <2>4. /\ at[0] = Fresh /\ at[l] = Fresh
        /\ \A i \in 1..l : /\ at[i] = Lex(at[i - 1], t[i])
                           /\ at[i].depth \in Nat
                           /\ ~EndsValue(at[i - 1], t[i])
    BY <2>1, LexFacts
  <2>. HIDE DEF t, l, at
  <2>5. CASE Passed < l
    <3>. DEFINE p == Passed + 1
    <3>1. p \in 1..l /\ p - 1 = Passed /\ Cursor + 1 = Slot(Here) + p
      BY <1>2, <2>1, <2>5
    <3>2. Char = t[p]
      BY <1>3, <2>3, <3>1
    <3>. HIDE DEF p
    <3>3. /\ at[p] = Lex(at[p - 1], t[p]) /\ at[p].depth \in Nat
          /\ ~EndsValue(at[p - 1], t[p])
      BY <2>4, <3>1
    <3>4. at[p - 1] = lex
      BY <2>2, <3>1
    <3>5. /\ Lex(lex, Char) = at[p] /\ Lex(lex, Char).depth \in Nat
          /\ ~EndsValue(lex, Char)
      BY <3>2, <3>3, <3>4
    <3>. QED
      BY <1>2, <2>1, <2>5, <3>2, <3>5 DEF InText, t, l, at, p
  <2>6. CASE Passed = l
    <3>1. Cursor = Extent(Here)
      BY <1>2, <2>1, <2>6
    <3>2. Slice = t
      <4>1. Len(Slice) = Len(t) /\ \A j \in 1..Len(Slice) : Slice[j] = t[j]
        BY <1>2, <2>3, <2>6 DEF l
      <4>. QED
        BY <1>2, <2>1, <4>1, SeqEqual
    <3>3. lex = Fresh
      BY <2>2, <2>4, <2>6
    <3>4. Here \in 0..N /\ Here > 0 /\ Extent(Here) < Len(wire)
      BY <1>3, <2>1, <3>1
    <3>5. \/ /\ wire[Extent(Here) + 1] = "," /\ (Here < N \/ Dangling)
             /\ Slot(Here + 1) = Extent(Here) + 1
          \/ /\ wire[Extent(Here) + 1] = "]" /\ Here = N /\ Closed
             /\ Len(wire) = Extent(Here) + 1
      BY <3>4, BehindValue
    <3>6. Char = wire[Extent(Here) + 1]
      BY <1>3, <3>1
    <3>. QED
      BY <2>1, <2>2, <2>6, <3>1, <3>2, <3>3, <3>5, <3>6 DEF BehindText, t, l, at
  <2>. QED
    BY <1>2, <2>1, <2>2, <2>5, <2>6
<1>5. CASE ~(Here <= N)
  <2>1. Here = N + 1 /\ Taken = N
    BY <1>1, <1>5
  <2>2. Passed = 0 /\ lex = Fresh /\ BehindComma(Here)
    BY <1>5 DEF ScanAt
  <2>3. Cursor = Slot(N + 1)
    <3>1. Slot(N + 1) \in Nat
      BY <1>1, <1>2, <2>1, PlaceFacts
    <3>. QED
      BY <1>2, <2>1, <2>2, <3>1
  <2>4. N \in 0..N /\ Slot(N + 1) = Extent(N) + (IF N > 0 THEN 1 ELSE 0)
        /\ Extent(N) \in Nat
    <3>1. N \in 0..N
      BY <1>1
    <3>. QED
      BY <3>1, PlaceFacts
  <2>5. CASE N = 0
    <3>1. Cursor = Extent(0) /\ 0 \in 0..N /\ Extent(0) < Len(wire)
      BY <1>3, <2>3, <2>4, <2>5
    <3>2. /\ wire[Extent(0) + 1] = "]" /\ Closed /\ Len(wire) = Extent(0) + 1
      BY <2>5, <3>1, BehindValue
    <3>3. Slice = <<>>
      BY <1>2, <2>2, EmptySeq
    <3>. QED
      BY <1>3, <2>1, <2>2, <2>5, <3>1, <3>2, <3>3 DEF AtEmpty
  <2>6. CASE N # 0
    <3>1. N > 0 /\ Slot(N + 1) = Extent(N) + 1 /\ Extent(N) < Len(wire)
      BY <1>1, <1>3, <2>3, <2>4, <2>6
    <3>2. wire[Extent(N) + 1] = ","
      <4>1. BehindComma(N + 1) /\ N + 1 > 1
        BY <1>1, <2>1, <2>2, <3>1
      <4>. QED
        BY <3>1, <4>1, Zenon DEF BehindComma
    <3>3. Dangling
      <4>1. \/ wire[Extent(N) + 1] = "," /\ (N < N \/ Dangling)
            \/ wire[Extent(N) + 1] = "]"
        BY <2>4, <3>1, BehindValue, Zenon
      <4>2. ~(N < N)
        BY <1>1
      <4>3. "," # "]"
        OBVIOUS
      <4>. QED
        BY <3>2, <4>1, <4>2, <4>3, Zenon
    <3>4. Slot(N + 1) = Len(wire)
      BY <3>3, NothingDangles
    <3>. QED
      BY <1>3, <2>3, <3>4
  <2>. QED
    BY <2>5, <2>6
<1>. QED
  BY <1>4, <1>5

\* The texts of the values, as a sequence.
LEMMA SentFacts ==
    ASSUME Laid
    PROVE  /\ Sent \in Seq(Seq(Symbol)) /\ Len(Sent) = N /\ DOMAIN items = 1..N
           /\ \A i \in 1..N : Sent[i] = T(i)
<1>1. items \in Seq(Element) /\ N \in Nat /\ DOMAIN items = 1..N
  BY PlaceFacts, LenProperties DEF Laid, N
<1>2. \A i \in 1..N : T(i) \in Seq(Symbol)
  BY PlaceFacts
<1>3. Sent = [i \in 1..N |-> T(i)]
  BY <1>1 DEF Sent, T
<1>4. Sent \in [1..N -> Seq(Symbol)]
  BY <1>2, <1>3
<1>. QED
  BY <1>1, <1>3, <1>4, SeqDef, LenProperties

\* Nothing refused: the decoder accepts every value.
LEMMA AllAccepted ==
    ASSUME Laid, \A i \in 1..N : ~Refused(items[i])
    PROVE  Accepted = Sent
BY SentFacts DEF Accepted

\* The values before the first that is refused.
LEMMA SomeAccepted ==
    ASSUME Laid, NEW n \in Nat, n < N, \A i \in 1..n : ~Refused(items[i]),
           Refused(items[n + 1])
    PROVE  Accepted = SubSeq(Sent, 1, n) /\ Accepted # Sent
<1>. DEFINE bad == {i \in DOMAIN items : Refused(items[i])}
            m == n + 1
<1>1. N \in Nat /\ DOMAIN items = 1..N
  BY PlaceFacts, SentFacts
<1>2. m \in bad /\ \A i \in bad : i \in Nat /\ m <= i
  <2>1. ASSUME NEW i \in bad PROVE i \in Nat /\ m <= i
    <3>1. i \in 1..N /\ Refused(items[i])
      BY <1>1
    <3>2. i \notin 1..n
      BY <3>1
    <3>. QED
      BY <1>1, <3>1, <3>2
  <2>. QED
    BY <1>1, <2>1
<1>3. Min(bad) = m
  <2>. HIDE DEF bad, m
  <2>1. \A x \in bad : (\A y \in bad : x <= y) => x = m
    <3>. TAKE x \in bad
    <3>1. x \in Nat /\ m \in Nat /\ m <= x
      BY <1>2
    <3>. QED
      BY <1>2, <3>1
  <2>2. \A y \in bad : m <= y
    BY <1>2
  <2>. QED
    BY <1>2, <2>1, <2>2, Zenon DEF Min
<1>4. Accepted = SubSeq(Sent, 1, n)
  <2>1. bad # {}
    BY <1>2
  <2>2. Accepted = IF bad = {} THEN Sent ELSE SubSeq(Sent, 1, Min(bad) - 1)
    BY DEF Accepted
  <2>3. m - 1 = n
    OBVIOUS
  <2>. QED
    BY <1>3, <2>1, <2>2, <2>3, Zenon
<1>5. Len(SubSeq(Sent, 1, n)) = n /\ Len(Sent) = N
  <2>1. n \in 0..Len(Sent)
    BY <1>1, SentFacts
  <2>. QED
    BY <2>1, SentFacts, FirstPart
<1>. QED
  BY <1>1, <1>4, <1>5

\* A refused value is a value that is not accepted.
LEMMA NotAccepted ==
    ASSUME Laid, NEW i \in 1..N, Refused(items[i])
    PROVE  Accepted # Sent
<1>. DEFINE bad == {k \in 1..N : Refused(items[k])}
<1>1. N \in Nat
  BY PlaceFacts
<1>2. PICK m \in bad : \A k \in bad : m <= k
  <2>1. bad \in SUBSET Nat /\ bad # {}
    BY <1>1
  <2>. HIDE DEF bad
  <2>. QED
    BY <2>1, LeastOf
<1>. DEFINE n == m - 1
<1>3. n \in Nat /\ n < N /\ n + 1 = m
  BY <1>1
<1>4. \A k \in 1..n : ~Refused(items[k])
  <2>. TAKE k \in 1..n
  <2>1. k \in 1..N /\ ~(m <= k)
    BY <1>1, <1>3
  <2>. QED
    BY <1>2, <2>1
<1>5. Refused(items[n + 1])
  BY <1>2, <1>3
<1>. HIDE DEF n
<1>. QED
  BY <1>3, <1>4, <1>5, SomeAccepted

-----------------------------------------------------------------------------
(***************************************************************************)
(* The steps of the scanners.                                              *)
(***************************************************************************)
LEMMA NewVerdict ==
    ASSUME Unmoved,
           Here' <= N => Refused(items[Here']) \/ ~Arrived(Here'),
           outcome' = "complete" <=> Whole(Taken')
    PROVE  Judged'
<1>1. /\ items' = items /\ cut' = cut /\ dec' = dec /\ N' = N
      /\ Truncated' = Truncated /\ Closed' = Closed
      /\ Accepted' = Accepted /\ Sent' = Sent
  BY SameWire
<1>2. Refused(items[Here])' = Refused(items[Here'])
  BY <1>1 DEF Refused
<1>3. Arrived(Here)' = Arrived(Here')
  BY <1>1 DEF Arrived, Extent
<1>4. Whole(Taken)' = Whole(Taken')
  BY <1>1 DEF Whole, Extent
<1>. QED
  BY <1>1, <1>2, <1>3, <1>4 DEF Judged

\* Without a trailer only a decoder that is not Python's knows the end.
LEMMA WholeScan ==
    ASSUME dec # "python"
    PROVE  Whole(Taken') <=> ~Truncated /\ Closed /\ Accepted = Sent
BY DEF Whole

\* Without a new value the place in the array stays.
LEMMA SameHere ==
    ASSUME yielded' = yielded
    PROVE  Taken' = Taken /\ Here' = Here
BY DEF Taken, Here

\* An error at a value that the decoder refuses is a right verdict.
LEMMA RefusedVerdict ==
    ASSUME Laid, Held, Given, Unmoved, dec # "python", yielded' = yielded,
           outcome' = "failed", Here <= N, Refused(items[Here])
    PROVE  Judged'
<1>1. Here' = Here /\ Here \in 1..N
  BY SameHere, HereFacts
<1>2. Accepted # Sent
  BY <1>1, NotAccepted
<1>3. ~Whole(Taken')
  BY <1>2, WholeScan
<1>4. Refused(items[Here'])
  BY <1>1
<1>5. outcome' # "complete"
  OBVIOUS
<1>. QED
  BY <1>3, <1>4, <1>5, NewVerdict

\* A lexical state is followed by one.
LEMMA LexType ==
    ASSUME NEW s \in [depth : Nat, inString : BOOLEAN, escape : BOOLEAN], NEW c,
           Lex(s, c).depth \in Nat
    PROVE  Lex(s, c) \in [depth : Nat, inString : BOOLEAN, escape : BOOLEAN]
<1>1. s.inString \in BOOLEAN /\ s.escape \in BOOLEAN
  OBVIOUS
<1>2. CASE s.inString
  BY <1>1, <1>2 DEF Lex
<1>3. CASE ~s.inString
  <2>1. Lex(s, c) = [s EXCEPT !.inString = (c = "quote"),
                     !.depth = IF c \in {"{", "["} THEN @ + 1
                               ELSE IF c \in {"}", "]"} THEN @ - 1 ELSE @]
    BY <1>3 DEF Lex
  <2>. DEFINE d == IF c \in {"{", "["} THEN s.depth + 1
                   ELSE IF c \in {"}", "]"} THEN s.depth - 1 ELSE s.depth
              q == c = "quote"
  <2>2. Lex(s, c) = [s EXCEPT !.inString = q, !.depth = d]
    BY <2>1
  <2>3. q \in BOOLEAN
    OBVIOUS
  <2>. HIDE DEF d, q
  <2>4. Lex(s, c).depth = d
    BY <2>2
  <2>. QED
    BY <2>2, <2>3, <2>4
<1>. QED
  BY <1>1, <1>2, <1>3

\* A symbol of a value; the guard may refuse the depth it reaches.
LEMMA ScanCharStep ==
    ASSUME ArraysInv, ScanChar
    PROVE  ArraysInv'
<1>1. /\ Unmoved /\ Laid /\ Held /\ dec' = dec /\ dec \in ScanPorts
      /\ dec # "python" /\ dec \notin Parsers /\ dec \notin PullPorts
      /\ ~Splittable /\ Given /\ dpc = "scan" /\ ~Starved /\ ScanAt
  BY WhoSplits DEF ScanChar, Scanning, Unmoved, ArraysInv, ScanPorts, Parsers, PullPorts
<1>2. /\ read' = read /\ buf' = buf /\ elemStart' = elemStart /\ yielded' = yielded
  BY DEF ScanChar
<1>11. /\ lex' = Lex(lex, Char)
       /\ ~Outermost(",") /\ ~Outermost("]")
       /\ IF Past(MaxDepth, lex'.depth)
            THEN outcome' = "failed" /\ dpc' = "done" /\ pos' = pos
            ELSE pos' = pos + 1 /\ dpc' = dpc /\ outcome' = outcome
  BY DEF ScanChar, Stop
<1>3. InText
  <2>1. ASSUME lex = Fresh, Char = "," \/ Char = "]" PROVE FALSE
    BY <1>11, <2>1 DEF Outermost, Fresh
  <2>. QED
    BY <1>1, <2>1, ScanFacts DEF BehindText, AtEmpty
<1>4. /\ Here \in 1..N /\ Passed \in Nat /\ Passed < Len(T(Here))
      /\ lex' = Lexed(T(Here))[Passed + 1] /\ lex'.depth \in Nat
      /\ Len(T(Here)) \in Nat /\ Here <= N /\ N \in Nat
      /\ T(Here) = Text[items[Here]] /\ items[Here] \in Element
  <2>1. Here \in 1..N /\ N \in Nat
    BY <1>1, <1>3, PlaceFacts DEF InText
  <2>2. Len(T(Here)) \in Nat /\ items[Here] \in Element /\ Here <= N
    BY <1>1, <2>1, PlaceFacts
  <2>. QED
    BY <1>3, <1>11, <2>1, <2>2 DEF InText, T
<1>5. /\ pos \in Nat /\ pos < Len(buf) /\ Len(buf) \in Nat /\ Base \in Nat
      /\ elemStart \in Nat /\ elemStart <= pos /\ ChunkSize \in Nat
  BY <1>1, HeldFacts, RoomFacts DEF Starved
<1>6. lex' \in [depth : Nat, inString : BOOLEAN, escape : BOOLEAN]
  <2>1. lex \in [depth : Nat, inString : BOOLEAN, escape : BOOLEAN]
    BY <1>1 DEF Held
  <2>2. Lex(lex, Char).depth \in Nat
    BY <1>4, <1>11
  <2>. QED
    BY <1>11, <2>1, <2>2, LexType
<1>7. /\ Laid' /\ Splittable' = Splittable /\ cut' = cut /\ wire' = wire
      /\ items' = items /\ N' = N
  BY <1>1, SameWire
<1>8. Base' = Base /\ Here' = Here /\ Taken' = Taken
  BY <1>2, SameHere DEF Base
<1>9. CASE Past(MaxDepth, lex'.depth)
  <2>1. outcome' = "failed" /\ dpc' = "done" /\ pos' = pos
    BY <1>9, <1>11
  <2>2. Held'
    BY <1>1, <1>2, <1>6, <1>7, <1>8, <2>1 DEF Held
  <2>3. Refused(items[Here])
    <3>1. Passed + 1 \in 0..Len(T(Here))
      BY <1>4
    <3>2. NestsPast(T(Here), MaxDepth)
      BY <1>4, <1>9, <3>1 DEF NestsPast
    <3>. QED
      BY <1>1, <1>4, <3>2 DEF Refused
  <2>4. Judged'
    BY <1>1, <1>2, <1>4, <2>1, <2>3, RefusedVerdict
  <2>5. BufferBounded'
    <3>1. Len(buf') <= Len(buf) /\ BufferBounded
      BY <1>2, <1>5 DEF ArraysInv
    <3>. QED
      BY <1>1, <1>7, <2>2, <3>1, StaysBounded
  <2>6. Given'
    BY <1>1, <1>2, SameGiven
  <2>. QED
    BY <1>1, <1>7, <2>1, <2>2, <2>4, <2>5, <2>6 DEF ArraysInv
<1>10. CASE ~Past(MaxDepth, lex'.depth)
  <2>1. pos' = pos + 1 /\ dpc' = dpc /\ outcome' = outcome
    BY <1>10, <1>11
  <2>2. Held'
    <3>1. pos' \in 0..Len(buf') /\ elemStart' \in 0..pos'
      BY <1>2, <1>5, <2>1
    <3>. QED
      BY <1>1, <1>2, <1>6, <1>7, <1>8, <2>1, <3>1 DEF Held
  <2>3. ScanAt'
    <3>1. Passed' = Passed + 1
      BY <1>2, <1>5, <2>1 DEF Passed
    <3>. DEFINE t == T(Here)
                p == Passed
    <3>2. Slot(Here)' = Slot(Here) /\ T(Here)' = t /\ Room' = Room
      BY <1>1, <1>7, <1>8 DEF Slot, Extent, T, Room
    <3>3. BehindComma(Here)' = BehindComma(Here)
      BY <1>7, <1>8, <3>2 DEF BehindComma
    <3>4. /\ Base + elemStart = Slot(Here) /\ BehindComma(Here)
          /\ Len(buf) - pos <= ChunkSize /\ elemStart <= Room
          /\ \A j \in 0..p : ~Past(MaxDepth, Lexed(t)[j].depth)
      BY <1>1, <1>4 DEF ScanAt
    <3>5. Len(buf') - pos' <= ChunkSize
      BY <1>2, <1>5, <2>1, <3>4
    <3>6. /\ p \in Nat /\ p < Len(t) /\ Len(t) \in Nat
          /\ lex' = Lexed(t)[p + 1]
      BY <1>4
    <3>. HIDE DEF t, p
    <3>7. \A j \in 0..(p + 1) : ~Past(MaxDepth, Lexed(t)[j].depth)
      <4>1. \A j \in 0..(p + 1) : j \in 0..p \/ j = p + 1
        BY <3>6
      <4>. QED
        BY <1>10, <3>4, <3>6, <4>1
    <3>8. p + 1 <= Len(t)
      BY <3>6
    <3>9. Passed' = p + 1
      BY <3>1 DEF p
    <3>10. \A j \in 0..Passed' : ~Past(MaxDepth, Lexed(t)[j].depth)
      BY <3>7, <3>9
    <3>11. (Here <= N)'
      BY <1>4, <1>7, <1>8
    <3>12. Base' + elemStart' = Slot(Here)' /\ BehindComma(Here)' /\ elemStart' <= Room'
      BY <1>2, <1>8, <3>2, <3>3, <3>4
    <3>13. Passed' <= Len(T(Here)') /\ lex' = Lexed(T(Here)')[Passed']
      BY <3>2, <3>6, <3>8, <3>9
    <3>14. \A j \in 0..Passed' : ~Past(MaxDepth, Lexed(T(Here)')[j].depth)
      BY <3>2, <3>10
    <3>. QED
      BY <3>5, <3>11, <3>12, <3>13, <3>14 DEF ScanAt, Past
  <2>4. BufferBounded'
    <3>1. Len(buf') <= Len(buf) /\ BufferBounded
      BY <1>2, <1>5 DEF ArraysInv
    <3>. QED
      BY <1>1, <1>7, <2>2, <3>1, StaysBounded
  <2>5. Given'
    BY <1>1, <1>2, SameGiven
  <2>. QED
    BY <1>1, <1>7, <2>1, <2>2, <2>3, <2>4, <2>5 DEF ArraysInv
<1>. QED
  BY <1>9, <1>10

\* Behind a comma the text held begins one symbol further, or is cut there.
LEMMA PassComma ==
    ASSUME Laid, Held, dec \in ScanPorts, ~Starved, read' = read,
           IF dec = "rust" \/ pos + 1 >= CompactAt
             THEN buf' = SubSeq(buf, pos + 2, Len(buf)) /\ pos' = 0 /\ elemStart' = 0
             ELSE pos' = pos + 1 /\ elemStart' = pos + 1 /\ buf' = buf
    PROVE  /\ buf' \in Seq(Symbol) /\ Len(buf') \in Nat /\ Len(buf') <= Len(buf)
           /\ pos' \in 0..Len(buf') /\ pos' = elemStart' /\ elemStart' <= Room
           /\ Base' \in Nat /\ Base' + pos' = Cursor + 1
           /\ Len(buf') - pos' <= Len(buf) - pos /\ Len(buf') <= read
           /\ \A j \in 1..Len(buf') : buf'[j] = wire[Base' + j]
<1>1. /\ pos \in Nat /\ pos < Len(buf) /\ Len(buf) \in Nat /\ Base \in Nat
      /\ read \in Nat /\ Base + Len(buf) = read /\ Cursor = Base + pos
      /\ buf \in Seq(Symbol) /\ \A j \in 1..Len(buf) : buf[j] = wire[Base + j]
  BY HeldFacts DEF Starved, Held
<1>2. Base' = read - Len(buf')
  BY DEF Base
<1>3. CASE dec = "rust" \/ pos + 1 >= CompactAt
  <2>1. buf' = SubSeq(buf, pos + 2, Len(buf)) /\ pos' = 0 /\ elemStart' = 0
    BY <1>3
  <2>. DEFINE p == pos + 1
              l == Len(buf)
  <2>2. p \in Nat /\ l \in p..Len(buf) /\ p + 1 = pos + 2
    BY <1>1
  <2>3. /\ buf' \in Seq(Symbol) /\ Len(buf') = l - p
        /\ \A j \in 1..(l - p) : buf'[j] = buf[p + j]
    <3>. DEFINE c == SubSeq(buf, p + 1, l)
    <3>1. buf' = c
      BY <2>1, <2>2
    <3>2. buf \in Seq(Symbol)
      BY <1>1
    <3>. HIDE DEF p, l
    <3>3. /\ c \in Seq(Symbol) /\ Len(c) = l - p
          /\ \A j \in 1..(l - p) : c[j] = buf[p + j]
      BY ONLY <2>2, <3>2, Part
    <3>. HIDE DEF c
    <3>. QED
      BY ONLY <3>1, <3>3
  <2>7. Base \in Nat /\ Base + l = read /\ l \in Nat /\ read \in Nat /\ p \in Nat /\ p <= l
    BY <1>1, <2>2
  <2>. HIDE DEF p, l
  <2>4. Base' = Base + p /\ Base' \in Nat /\ Len(buf') \in Nat /\ Len(buf') <= l
    BY ONLY <1>2, <2>3, <2>7
  <2>5. ASSUME NEW j \in 1..Len(buf') PROVE buf'[j] = wire[Base' + j]
    <3>4. j \in 1..Len(buf') /\ Len(buf') = l - p /\ Base' = Base + p
      BY <2>3, <2>4
    <3>1. /\ j \in 1..(l - p) /\ p + j \in 1..l
          /\ Base + (p + j) = Base' + j
      BY ONLY <2>7, <3>4
    <3>2. buf[p + j] = wire[Base + (p + j)]
      BY <1>1, <3>1 DEF l
    <3>. QED
      BY <2>3, <3>1, <3>2
  <2>6. 0 <= Room /\ Len(buf') - pos' <= Len(buf) - pos /\ Len(buf') <= read
    <3>1. Room \in Nat
      BY RoomFacts
    <3>2. pos' = 0 /\ Len(buf') = l - p /\ p = pos + 1 /\ pos \in Nat
      BY <1>1, <2>1, <2>3 DEF p
    <3>3. 0 <= Room /\ Len(buf') - pos' <= l - pos /\ Len(buf') <= read
      BY ONLY <2>7, <3>1, <3>2
    <3>. QED
      BY <3>3 DEF l
  <2>8. pos' \in 0..Len(buf') /\ Base' + pos' = Cursor + 1
    <3>1. pos' = 0 /\ p = pos + 1 /\ pos \in Nat /\ Cursor = Base + pos
      BY <1>1, <2>1 DEF p
    <3>. QED
      BY ONLY <2>4, <2>7, <3>1
  <2>. QED
    BY <2>1, <2>3, <2>4, <2>5, <2>6, <2>8 DEF l
<1>4. CASE ~(dec = "rust" \/ pos + 1 >= CompactAt)
  <2>1. pos' = pos + 1 /\ elemStart' = pos + 1 /\ buf' = buf
    BY <1>4
  <2>2. dec = "node" /\ pos + 1 <= CompactAt - 1
    BY <1>1, <1>4, RoomFacts DEF ScanPorts
  <2>3. pos + 1 <= Room
    BY <1>1, <2>2, RoomFacts
  <2>4. Base' = Base
    BY <2>1 DEF Base
  <2>5. /\ pos + 1 \in 0..Len(buf) /\ Base + (pos + 1) = Cursor + 1
        /\ Len(buf) - (pos + 1) <= Len(buf) - pos /\ Len(buf) <= read
    BY <1>1
  <2>. QED
    BY <1>1, <2>1, <2>3, <2>4, <2>5
<1>. QED
  BY <1>3, <1>4

\* A value a scanner has passed through is refused only for what it is.
LEMMA PassedText ==
    ASSUME Laid, dec \in ScanPorts, BehindText
    PROVE  /\ Refused(items[Here]) <=> items[Here] \notin Parsable(dec)
           /\ IsValue(dec, Slice) <=> items[Here] \in Parsable(dec)
           /\ Slice # <<>>
<1>1. Here \in 1..N /\ Slice = T(Here)
  BY DEF BehindText
<1>2. items[Here] \in Element /\ T(Here) = Text[items[Here]] /\ Len(T(Here)) \in Nat \ {0}
  BY <1>1, PlaceFacts DEF T
<1>3. ~NestsPast(Text[items[Here]], MaxDepth)
  BY <1>2 DEF BehindText, NestsPast
<1>4. dec # "python"
  BY DEF ScanPorts
<1>5. Refused(items[Here]) <=> items[Here] \notin Parsable(dec)
  BY <1>2, <1>3, <1>4 DEF Refused, Parsable
<1>6. IsValue(dec, Slice) <=> items[Here] \in Parsable(dec)
  BY <1>1, <1>2, Parses
<1>7. Slice # <<>>
  BY <1>1, <1>2, EmptySeq
<1>. QED
  BY <1>5, <1>6, <1>7

\* A comma ends a value, and the buffer may be compacted.
LEMMA SeparatorStep ==
    ASSUME ArraysInv, Separator
    PROVE  ArraysInv'
<1>1. /\ Unmoved /\ Laid /\ Held /\ dec' = dec /\ dec \in ScanPorts
      /\ dec # "python" /\ dec \notin Parsers /\ dec \notin PullPorts
      /\ ~Splittable /\ Given /\ dpc = "scan" /\ ~Starved /\ ScanAt
      /\ BufferBounded
  BY WhoSplits DEF Separator, Scanning, Unmoved, ArraysInv, ScanPorts, Parsers, PullPorts
<1>2. read' = read /\ lex' = lex
  BY DEF Separator
<1>3. /\ buf' \in Seq(Symbol) /\ Len(buf') \in Nat /\ Len(buf') <= Len(buf)
      /\ pos' \in 0..Len(buf') /\ pos' = elemStart' /\ elemStart' <= Room
      /\ Base' \in Nat /\ Base' + pos' = Cursor + 1
      /\ Len(buf') - pos' <= Len(buf) - pos /\ Len(buf') <= read
      /\ \A j \in 1..Len(buf') : buf'[j] = wire[Base' + j]
  <2>1. IF dec = "rust" \/ pos + 1 >= CompactAt
          THEN buf' = SubSeq(buf, pos + 2, Len(buf)) /\ pos' = 0 /\ elemStart' = 0
          ELSE pos' = pos + 1 /\ elemStart' = pos + 1 /\ buf' = buf
    BY DEF Separator
  <2>. QED
    BY <1>1, <1>2, <2>1, PassComma
<1>4. BehindText /\ Char = ","
  <2>1. Outermost(",")
    BY DEF Separator
  <2>2. Char = "," /\ EndsValue(lex, Char)
    BY <2>1 DEF Outermost, EndsValue
  <2>3. "," # "]"
    OBVIOUS
  <2>. QED
    BY <1>1, <2>2, <2>3, ScanFacts DEF InText, AtEmpty
<1>5. /\ Here \in 1..N /\ Cursor = Extent(Here) /\ Slice = T(Here) /\ lex = Fresh
      /\ Slot(Here + 1) = Cursor + 1
  BY <1>4 DEF BehindText
<1>6. /\ Refused(items[Here]) <=> items[Here] \notin Parsable(dec)
      /\ IsValue(dec, Slice) <=> items[Here] \in Parsable(dec)
      /\ Slice # <<>>
  BY <1>1, <1>4, PassedText
<1>7. /\ Laid' /\ Splittable' = Splittable /\ cut' = cut /\ wire' = wire
      /\ items' = items /\ N' = N
  BY <1>1, SameWire
<1>8. /\ Here <= N /\ N \in Nat /\ Here = Taken + 1 /\ Taken \in Nat /\ Here \in Nat
      /\ yielded \in Seq(Seq(Symbol)) /\ T(Here) \in Seq(Symbol)
  BY <1>1, <1>5, HereFacts, PlaceFacts DEF Held
<1>9. ASSUME yielded' \in Seq(Seq(Symbol)), dpc' \in {"scan", "done"},
             outcome' \in {"none", "failed"}, outcome' = "none" <=> dpc' # "done"
      PROVE  Held'
  <2>1. elemStart' \in 0..pos' /\ read' \in 0..cut /\ Len(buf') <= read'
    BY <1>1, <1>2, <1>3 DEF Held
  <2>2. Base' + 0 = Base'
    BY <1>3
  <2>. QED
    BY <1>1, <1>2, <1>3, <1>7, <1>9, <2>1 DEF Held
<1>10. CASE IsValue(dec, Slice)
  <2>1. yielded' = Append(yielded, T(Here)) /\ dpc' = dpc /\ outcome' = outcome
    BY <1>5, <1>10 DEF Separator, TakeSlice, Accept
  <2>2. yielded' \in Seq(Seq(Symbol)) /\ Here' = Here + 1
    <3>1. /\ yielded' \in Seq(Seq(Symbol)) /\ Len(yielded') = Len(yielded) + 1
      BY <1>8, <2>1, AppendProperties
    <3>. QED
      BY <1>8, <3>1 DEF Here, Taken
  <2>3. Held'
    BY <1>1, <1>9, <2>1, <2>2 DEF Held
  <2>4. Given'
    <3>1. Arrived(Here)
      <4>1. Cursor < read /\ read <= cut /\ Cursor \in Nat /\ read \in Nat /\ cut \in Nat
        BY <1>1, HeldFacts
      <4>2. Extent(Here) + 1 <= cut
        BY <1>5, <4>1
      <4>. QED
        BY <1>1, <4>2 DEF Arrived
    <3>2. ~CutOff
      BY <1>1 DEF CutOff
    <3>. QED
      BY <1>1, <1>6, <1>8, <1>10, <2>1, <3>1, <3>2, MoreGiven
  <2>5. ScanAt'
    <3>1. Here' \in 1..(N + 1)
      BY <1>8, <2>2
    <3>2. Base' + elemStart' = Slot(Here')
      BY <1>3, <1>5, <2>2
    <3>3. BehindComma(Here')
      <4>1. Char = wire[Cursor + 1]
        BY <1>1, HeldFacts
      <4>2. wire[Slot(Here + 1)] = ","
        BY <1>4, <1>5, <4>1
      <4>. QED
        BY <2>2, <4>2 DEF BehindComma
    <3>4. Len(buf') - pos' <= ChunkSize
      <4>1. Len(buf) - pos <= ChunkSize
        BY <1>1 DEF ScanAt
      <4>2. /\ Len(buf) \in Nat /\ pos \in Nat /\ ChunkSize \in Nat
            /\ Len(buf') \in Nat /\ pos' \in Nat
        BY <1>1, <1>3, HeldFacts, RoomFacts
      <4>. QED
        BY <1>3, <4>1, <4>2
    <3>5. pos' \in Nat /\ lex' = Fresh
      BY <1>2, <1>3, <1>5
    <3>. QED
      BY <1>1, <1>3, <3>1, <3>2, <3>3, <3>4, <3>5, ScanNext
  <2>6. BufferBounded'
    BY <1>1, <1>3, <1>7, <2>3, StaysBounded
  <2>. QED
    BY <1>1, <1>7, <2>1, <2>3, <2>4, <2>5, <2>6 DEF ArraysInv
<1>11. CASE ~IsValue(dec, Slice)
  <2>1. yielded' = yielded /\ dpc' = "done" /\ outcome' = "failed"
    BY <1>6, <1>11 DEF Separator, TakeSlice, Stop
  <2>2. Held'
    BY <1>8, <1>9, <2>1
  <2>3. Judged'
    BY <1>1, <1>6, <1>8, <1>11, <2>1, RefusedVerdict
  <2>4. BufferBounded'
    BY <1>1, <1>3, <1>7, <2>2, StaysBounded
  <2>5. Given'
    BY <1>1, <1>2, <2>1, SameGiven
  <2>. QED
    BY <1>1, <1>7, <2>1, <2>2, <2>3, <2>4, <2>5 DEF ArraysInv
<1>. QED
  BY <1>10, <1>11

\* A closed array ends in its bracket, behind the last value.
LEMMA ClosedAt ==
    ASSUME Laid, Closed
    PROVE  /\ ~Dangling /\ Len(wire) = Extent(N) + 1
           /\ wire[Extent(N) + 1] = "]"
BY DEF Laid, LaidTail

\* A decoder that has handed over every value has been refused none.
LEMMA AllGiven ==
    ASSUME Laid, Given, Taken = N
    PROVE  Accepted = Sent
BY AllAccepted DEF Given

\* The bracket ends the array, and the last value before it.
LEMMA CloseArrayStep ==
    ASSUME ArraysInv, CloseArray
    PROVE  ArraysInv'
<1>1. /\ Unmoved /\ Laid /\ Held /\ dec' = dec /\ dec \in ScanPorts
      /\ dec # "python" /\ dec \notin Parsers /\ dec \notin PullPorts
      /\ ~Splittable /\ Given /\ dpc = "scan" /\ ~Starved /\ ScanAt
      /\ BufferBounded
  BY WhoSplits DEF CloseArray, Scanning, Unmoved, ArraysInv, ScanPorts, Parsers, PullPorts
<1>2. /\ read' = read /\ lex' = lex /\ buf' = buf /\ pos' = pos
      /\ elemStart' = elemStart /\ dpc' = "done"
  BY DEF CloseArray, Stop
<1>3. (BehindText \/ AtEmpty) /\ Char = "]"
  <2>1. Outermost("]")
    BY DEF CloseArray
  <2>2. Char = "]" /\ EndsValue(lex, Char)
    BY <2>1 DEF Outermost, EndsValue
  <2>. QED
    BY <1>1, <2>2, ScanFacts DEF InText
<1>4. /\ Laid' /\ Splittable' = Splittable /\ cut' = cut /\ wire' = wire
      /\ items' = items /\ N' = N
  BY <1>1, SameWire
<1>5. Base' = Base /\ Len(buf) \in Nat /\ N \in Nat
  BY <1>1, <1>2, HeldFacts, PlaceFacts DEF Base
<1>6. ASSUME yielded' \in Seq(Seq(Symbol)), outcome' \in {"complete", "failed"}
      PROVE  Held'
  BY <1>1, <1>2, <1>4, <1>5, <1>6 DEF Held
<1>7. ASSUME Held' PROVE BufferBounded'
  <2>1. Len(buf') <= Len(buf)
    BY <1>2, <1>5
  <2>. QED
    BY <1>1, <1>4, <1>7, <2>1, StaysBounded

\* Behind the last value, or in an empty array.
<1>8. /\ Closed /\ ~Truncated
      /\ BehindText => Here = N
      /\ AtEmpty => Taken = N
  <2>1. Closed /\ Len(wire) = Cursor + 1
    <3>1. "," # "]"
      OBVIOUS
    <3>. QED
      BY <1>3, <3>1 DEF BehindText, AtEmpty
  <2>2. /\ Cursor < read /\ read <= cut /\ Cursor \in Nat /\ read \in Nat
        /\ cut \in Nat /\ cut <= Len(wire)
    BY <1>1, HeldFacts, PlaceFacts
  <2>3. ~Truncated
    BY <2>1, <2>2 DEF Truncated
  <2>4. BehindText => Here = N
    <3>1. "," # "]"
      OBVIOUS
    <3>. QED
      BY <1>3, <3>1 DEF BehindText
  <2>5. AtEmpty => Taken = N
    BY <1>1, HereFacts DEF AtEmpty
  <2>. QED
    BY <2>1, <2>3, <2>4, <2>5
<1>9. ASSUME Taken' = N, outcome' = "complete", Given', \A i \in 1..N : ~Refused(items[i])
      PROVE  Judged'
  <2>1. Accepted = Sent
    BY <1>1, <1>9, AllAccepted
  <2>2. Whole(Taken')
    BY <1>1, <1>8, <2>1, WholeScan
  <2>3. ~(Here' <= N)
    BY <1>5, <1>9 DEF Here
  <2>. QED
    BY <1>1, <1>9, <2>2, <2>3, NewVerdict
<1>10. CASE BehindText
  <2>1. /\ Refused(items[Here]) <=> items[Here] \notin Parsable(dec)
        /\ IsValue(dec, Slice) <=> items[Here] \in Parsable(dec)
        /\ Slice # <<>>
    BY <1>1, <1>10, PassedText
  <2>2. /\ Here \in 1..N /\ Cursor = Extent(Here) /\ Slice = T(Here) /\ Here = N
    BY <1>8, <1>10 DEF BehindText
  <2>3. /\ Here <= N /\ Here = Taken + 1 /\ Taken \in Nat /\ Here \in Nat
        /\ yielded \in Seq(Seq(Symbol)) /\ T(Here) \in Seq(Symbol)
    BY <1>1, <2>2, HereFacts, PlaceFacts DEF Held
  <2>4. CASE IsValue(dec, Slice)
    <3>1. yielded' = Append(yielded, T(Here)) /\ outcome' = "complete"
      BY <2>1, <2>2, <2>4 DEF CloseArray, Accept, Stop
    <3>2. yielded' \in Seq(Seq(Symbol)) /\ Taken' = N
      <4>1. /\ yielded' \in Seq(Seq(Symbol)) /\ Len(yielded') = Len(yielded) + 1
        BY <2>3, <3>1, AppendProperties
      <4>. QED
        BY <2>2, <2>3, <4>1 DEF Taken
    <3>3. Held'
      BY <1>6, <3>1, <3>2
    <3>4. Given'
      <4>1. Arrived(Here)
        <5>1. Cursor < read /\ read <= cut /\ Cursor \in Nat /\ read \in Nat /\ cut \in Nat
          BY <1>1, HeldFacts
        <5>2. Extent(Here) + 1 <= cut
          BY <2>2, <5>1
        <5>. QED
          BY <1>1, <5>2 DEF Arrived
      <4>2. ~CutOff
        BY <1>1 DEF CutOff
      <4>. QED
        BY <1>1, <2>1, <2>3, <2>4, <3>1, <4>1, <4>2, MoreGiven
    <3>5. \A i \in 1..N : ~Refused(items[i])
      <4>1. \A i \in 1..N : i \in 1..Taken \/ i = Here
        BY <2>2, <2>3
      <4>. QED
        BY <1>1, <2>1, <2>4, <4>1 DEF Given
    <3>6. Judged'
      BY <1>9, <3>1, <3>2, <3>4, <3>5
    <3>. QED
      BY <1>1, <1>2, <1>4, <1>7, <3>3, <3>4, <3>6 DEF ArraysInv
  <2>5. CASE ~IsValue(dec, Slice)
    <3>1. yielded' = yielded /\ outcome' = "failed"
      BY <2>1, <2>5 DEF CloseArray, Stop
    <3>2. Held'
      BY <1>6, <2>3, <3>1
    <3>3. Judged'
      BY <1>1, <2>1, <2>3, <2>5, <3>1, RefusedVerdict
    <3>4. Given'
      BY <1>1, <1>2, <3>1, SameGiven
    <3>. QED
      BY <1>1, <1>2, <1>4, <1>7, <3>2, <3>3, <3>4 DEF ArraysInv
  <2>. QED
    BY <2>4, <2>5
<1>11. CASE AtEmpty
  <2>1. Slice = <<>> /\ N = 0
    BY <1>11 DEF AtEmpty
  <2>2. yielded' = yielded /\ outcome' = "complete"
    BY <2>1 DEF CloseArray, Stop
  <2>3. Held'
    BY <1>1, <1>6, <2>2 DEF Held
  <2>4. Given' /\ Taken' = N
    BY <1>1, <1>2, <1>8, <1>11, <2>2, SameGiven DEF Taken
  <2>5. \A i \in 1..N : ~Refused(items[i])
    BY <2>1
  <2>6. Judged'
    BY <1>9, <2>2, <2>4, <2>5
  <2>. QED
    BY <1>1, <1>2, <1>4, <1>7, <2>3, <2>4, <2>6 DEF ArraysInv
<1>. QED
  BY <1>3, <1>10, <1>11

\* A step to the end that leaves the buffer and what was handed over alone.
LEMMA EndStep ==
    ASSUME ArraysInv, Unmoved, dpc # "done",
           read' = read, buf' = buf, pos' = pos, elemStart' = elemStart, lex' = lex,
           yielded' = yielded, dpc' = "done", outcome' \in {"complete", "failed"},
           ~Splittable => Judged'
    PROVE  ArraysInv'
<1>1. Laid /\ Held /\ BufferBounded
  BY DEF ArraysInv
<1>2. /\ Laid' /\ Splittable' = Splittable /\ cut' = cut /\ wire' = wire
      /\ items' = items /\ N' = N /\ dec' = dec
  BY <1>1, SameWire
<1>3. Base' = Base /\ Len(buf) \in Nat
  BY <1>1, HeldFacts DEF Base
<1>4. Held'
  BY <1>1, <1>2, <1>3 DEF Held
<1>5. BufferBounded'
  <2>1. Len(buf') <= Len(buf)
    BY <1>3
  <2>. QED
    BY <1>1, <1>2, <1>4, <2>1, StaysBounded
<1>6. ~Splittable => Given'
  BY SameGiven DEF ArraysInv
<1>. QED
  BY <1>2, <1>4, <1>5, <1>6 DEF ArraysInv

\* Nothing at all arrived.
LEMMA NothingArrived ==
    ASSUME Laid, Unmoved, cut = 0, yielded = <<>>, yielded' = yielded,
           outcome' = "failed"
    PROVE  Judged'
<1>1. Taken' = 0 /\ Here' = 1
  BY DEF Taken, Here
<1>2. N \in Nat /\ Extent(0) = 1
  BY PlaceFacts
<1>3. ASSUME 1 <= N PROVE ~Arrived(1)
  <2>1. Extent(1) \in Nat \ {0}
    BY <1>2, <1>3, PlaceFacts
  <2>. QED
    BY <2>1 DEF Arrived
<1>4. Truncated
  BY DEF Truncated, Laid
<1>5. ~Whole(Taken')
  BY <1>1, <1>2, <1>4 DEF Whole
<1>. QED
  BY <1>1, <1>3, <1>5, NewVerdict

\* The stream ends in an open array.
LEMMA ScanCutStep ==
    ASSUME ArraysInv, ScanCut
    PROVE  ArraysInv'
<1>1. Unmoved /\ Laid /\ Held /\ dec \notin PullPorts /\ dpc # "done" /\ Starved
  BY DEF ScanCut, Unmoved, ArraysInv, Buffered
<1>2. /\ read' = read /\ buf' = buf /\ pos' = pos /\ elemStart' = elemStart
      /\ lex' = lex /\ yielded' = yielded /\ dpc' = "done" /\ outcome' = "failed"
  BY DEF ScanCut, Stop
<1>3. read = cut /\ Cursor = cut /\ cut \in Nat
  <2>1. read = Len(Input)
    BY DEF ScanCut, AtEnd
  <2>. QED
    BY <1>1, <2>1, InputFacts, HeldFacts
<1>4. dpc = "start" \/ (dpc = "scan" /\ dec \in ScanPorts)
  BY <1>1 DEF ScanCut, Held
<1>5. CASE dpc = "start"
  <2>1. /\ Base = 0 /\ pos = 0 /\ yielded = <<>>
    BY <1>5 DEF ArraysInv, AtStart
  <2>2. cut = 0
    BY <1>1, <1>3, <2>1, HeldFacts
  <2>3. Judged'
    BY <1>1, <1>2, <2>1, <2>2, NothingArrived
  <2>. QED
    BY <1>1, <1>2, <2>3, EndStep
<1>6. CASE dpc = "scan" /\ dec \in ScanPorts
  <2>1. ScanAt /\ Given /\ dec # "python"
    BY <1>6, WhoSplits DEF ArraysInv, ScanPorts
  <2>2. /\ Taken \in 0..N /\ Here = Taken + 1 /\ Here \in 1..(N + 1)
        /\ Here <= N => Here \in 1..N
        /\ ~(Here <= N) => Here = N + 1
    BY <1>1, <2>1, HereFacts
  <2>3. /\ N \in Nat /\ N \in 0..N /\ Extent(N) \in Nat /\ Extent(0) = 1
        /\ Slot(N + 1) = Extent(N) + (IF N > 0 THEN 1 ELSE 0)
    <3>1. N \in Nat
      BY <1>1, PlaceFacts
    <3>2. N \in 0..N
      BY <3>1
    <3>. QED
      BY <1>1, <3>1, <3>2, PlaceFacts
  <2>4. cut = Slot(Here) + Passed /\ Passed \in Nat
    BY <1>1, <1>3, <2>1, SliceFacts DEF ScanAt
  <2>5. ASSUME Here <= N PROVE cut <= Extent(Here) /\ Extent(Here) <= Extent(N)
                               /\ Extent(Here) \in Nat
    <3>1. Here \in 1..N /\ Here \in 0..N
      BY <2>2, <2>3, <2>5
    <3>2. Passed <= Len(T(Here))
      BY <2>1, <2>5 DEF ScanAt
    <3>3. /\ Extent(Here) = Slot(Here) + Len(T(Here)) /\ Slot(Here) \in Nat
          /\ Len(T(Here)) \in Nat /\ Extent(Here) <= Extent(N)
          /\ Extent(Here) \in Nat
      BY <1>1, <3>1, PlaceFacts
    <3>. QED
      BY <2>4, <3>2, <3>3
  <2>6. ASSUME Closed, ~Truncated PROVE FALSE
    <3>1. ~Dangling /\ Len(wire) = Extent(N) + 1 /\ wire[Extent(N) + 1] = "]"
      BY <1>1, <2>6, ClosedAt
    <3>2. cut = Extent(N) + 1
      <4>1. cut <= Len(wire)
        BY <1>1, PlaceFacts
      <4>. QED
        BY <1>3, <2>3, <2>6, <3>1, <4>1 DEF Truncated
    <3>3. CASE Here <= N
      BY <2>3, <2>5, <3>2, <3>3
    <3>4. CASE ~(Here <= N)
      <4>1. Here = N + 1 /\ cut = Slot(N + 1)
        <5>1. Here = N + 1 /\ Passed = 0
          BY <2>1, <2>2, <3>4 DEF ScanAt
        <5>2. Slot(N + 1) \in Nat
          BY <2>3
        <5>. QED
          BY <2>4, <5>1, <5>2
      <4>2. N > 0
        BY <2>3, <3>2, <4>1
      <4>3. wire[Slot(N + 1)] = ","
        <5>1. BehindComma(N + 1) /\ N + 1 > 1
          BY <2>1, <2>3, <4>1, <4>2 DEF ScanAt
        <5>. QED
          BY <5>1, Zenon DEF BehindComma
      <4>4. Slot(N + 1) = Extent(N) + 1
        BY <2>3, <4>2
      <4>5. "," # "]"
        OBVIOUS
      <4>. QED
        BY <3>1, <4>3, <4>4, <4>5, Zenon
    <3>. QED
      BY <3>3, <3>4
  <2>7. ASSUME Here <= N PROVE ~Arrived(Here)
    BY <1>3, <1>6, <2>5, <2>7 DEF Arrived
  <2>8. Judged'
    <3>1. ~Whole(Taken')
      BY <2>1, <2>6, WholeScan
    <3>2. Here' = Here
      BY <1>2, SameHere
    <3>. QED
      BY <1>1, <1>2, <2>7, <3>1, <3>2, NewVerdict
  <2>. QED
    BY <1>1, <1>2, <2>8, EndStep
<1>. QED
  BY <1>4, <1>5, <1>6

-----------------------------------------------------------------------------
(***************************************************************************)
(* Python's parser: what stands at its place.                              *)
(***************************************************************************)
\* In a value, behind its first d symbols: digits, if there are any.
At(c, i, d) ==
    /\ i < N /\ c = Slot(i + 1) + d /\ d < Len(T(i + 1))
    /\ d > 0 => items[i + 1] \in Numbers

\* A place is behind a value, in the next one, or behind a dangling comma.
LEMMA PlaceKinds ==
    ASSUME Laid, NEW c, NEW i \in 0..N, Between(c, i) \/ Inside(c, i)
    PROVE  \/ c = Extent(i) /\ (i > 0 \/ N = 0)
           \/ (\E d \in Nat : At(c, i, d)) /\ (Between(c, i) => At(c, i, 0))
           \/ i = N /\ N > 0 /\ Dangling /\ c = Len(wire) /\ c = Slot(N + 1)
<1>1. N \in Nat /\ i \in Nat
  BY PlaceFacts
<1>2. CASE Between(c, i)
  <2>1. CASE c = Slot(i + 1) /\ i < N
    <3>1. i + 1 \in 1..N
      BY <1>1, <2>1
    <3>2. Slot(i + 1) \in Nat /\ Len(T(i + 1)) \in Nat \ {0}
      BY <3>1, PlaceFacts
    <3>3. c = Slot(i + 1) + 0 /\ 0 < Len(T(i + 1)) /\ ~(0 > 0)
      BY <2>1, <3>2
    <3>4. At(c, i, 0)
      BY <2>1, <3>3 DEF At
    <3>. QED
      BY <3>4
  <2>2. CASE c = Slot(i + 1) /\ ~(i < N) /\ Dangling
    <3>1. i = N
      BY <1>1, <2>2
    <3>. QED
      BY <2>2, <3>1, NothingDangles
  <2>. QED
    BY <1>2, <2>1, <2>2 DEF Between
<1>3. CASE ~Between(c, i)
  <2>1. i < N /\ items[i + 1] \in Numbers /\ c \in Slot(i + 1)..(Extent(i + 1) - 1)
    BY <1>3 DEF Inside
  <2>2. i + 1 \in 1..N
    BY <1>1, <2>1
  <2>. DEFINE s == Slot(i + 1)
              l == Len(T(i + 1))
              d == c - s
  <2>3. s \in Nat /\ l \in Nat /\ Extent(i + 1) = s + l
    BY <2>2, PlaceFacts
  <2>. HIDE DEF s, l
  <2>4. d \in Nat /\ c = s + d /\ d < l
    BY <2>1, <2>3 DEF s
  <2>. HIDE DEF d
  <2>5. At(c, i, d)
    BY <2>1, <2>4 DEF At, s, l
  <2>. QED
    BY <1>3, <2>4, <2>5
<1>. QED
  BY <1>2, <1>3

\* In a value no symbol ends it.
LEMMA CharAt ==
    ASSUME Laid, Held, ~Starved, NEW i \in 0..N, NEW d \in Nat, At(Cursor, i, d)
    PROVE  ~Ends(Char)
<1>1. i + 1 \in 1..N
  BY PlaceFacts DEF At
<1>. DEFINE s == Slot(i + 1)
            t == T(i + 1)
<1>2. /\ s \in Nat /\ Len(t) \in Nat /\ items[i + 1] \in Element
      /\ t = Text[items[i + 1]]
      /\ \A j \in 1..Len(t) : wire[s + j] = t[j]
  BY <1>1, PlaceFacts DEF Laid, T
<1>3. Cursor = s + d /\ d < Len(t) /\ (d > 0 => items[i + 1] \in Numbers)
  BY DEF At
<1>4. Char = wire[Cursor + 1]
  BY HeldFacts
<1>. DEFINE l == Len(t)
            c == Cursor
<1>5. l \in Nat /\ s \in Nat /\ c = s + d /\ d < l /\ d \in Nat
  BY <1>2, <1>3
<1>. HIDE DEF s, t, l, c
<1>6. Char = t[d + 1] /\ d + 1 \in 1..Len(t)
  <2>1. d + 1 \in 1..l /\ c + 1 = s + (d + 1)
    BY ONLY <1>5
  <2>. QED
    BY <1>2, <1>4, <2>1 DEF l, c
<1>7. CASE d = 0
  BY <1>2, <1>6, <1>7, FirstOf
<1>8. CASE d > 0
  <2>1. DOMAIN t = 1..Len(t)
    BY <1>2, LexFacts, LenProperties
  <2>2. t[d + 1] \in Digit
    BY <1>2, <1>3, <1>6, <1>8, <2>1 DEF Numbers
  <2>. QED
    BY <1>6, <2>2, DigitFacts
<1>. QED
  BY <1>7, <1>8

\* What ends a value stands behind one.
LEMMA EndPlace ==
    ASSUME Laid, Held, ~Starved, Ends(Char),
           NEW i \in 0..N, Between(Cursor, i) \/ Inside(Cursor, i)
    PROVE  /\ Cursor = Extent(i) /\ (i > 0 \/ N = 0)
           /\ Extent(i) < Len(wire) /\ Char = wire[Extent(i) + 1]
<1>1. /\ Char = wire[Cursor + 1] /\ Cursor < read /\ read <= cut /\ cut <= Len(wire)
      /\ Cursor \in Nat /\ read \in Nat /\ cut \in Nat /\ Len(wire) \in Nat
  BY HeldFacts, PlaceFacts
<1>2. Cursor # Len(wire) /\ Cursor < Len(wire)
  BY <1>1
<1>3. ASSUME NEW d \in Nat, At(Cursor, i, d) PROVE FALSE
  BY <1>3, CharAt
<1>4. Cursor = Extent(i) /\ (i > 0 \/ N = 0)
  BY <1>2, <1>3, PlaceKinds
<1>. QED
  BY <1>1, <1>2, <1>4

\* A comma is passed between two values ...
LEMMA CommaPlace ==
    ASSUME Laid, Held, ~Starved, Char = ",",
           NEW i \in 0..N, Between(Cursor, i) \/ Inside(Cursor, i)
    PROVE  Between(Cursor + 1, i)
<1>1. /\ Cursor = Extent(i) /\ (i > 0 \/ N = 0)
      /\ Extent(i) < Len(wire) /\ wire[Extent(i) + 1] = ","
  <2>1. Ends(Char)
    BY DEF Ends
  <2>. QED
    BY <2>1, EndPlace
<1>2. (i < N \/ Dangling) /\ Slot(i + 1) = Extent(i) + 1
  <2>1. "," # "]"
    OBVIOUS
  <2>. QED
    BY <1>1, <2>1, BehindValue
<1>. QED
  BY <1>1, <1>2, Zenon DEF Between

\* ... and the bracket stands behind the last.
LEMMA BracketPlace ==
    ASSUME Laid, Held, ~Starved, Char = "]",
           NEW i \in 0..N, Between(Cursor, i) \/ Inside(Cursor, i)
    PROVE  i = N /\ Closed /\ ~Truncated
<1>1. /\ Cursor = Extent(i) /\ (i > 0 \/ N = 0)
      /\ Extent(i) < Len(wire) /\ wire[Extent(i) + 1] = "]"
  <2>1. Ends(Char)
    BY DEF Ends
  <2>. QED
    BY <2>1, EndPlace
<1>2. i = N /\ Closed /\ Len(wire) = Extent(i) + 1
  <2>1. "," # "]"
    OBVIOUS
  <2>. QED
    BY <1>1, <2>1, BehindValue
<1>. DEFINE c == Cursor
            w == Len(wire)
<1>3. c < read /\ read <= cut /\ cut <= w /\ c \in Nat /\ read \in Nat
      /\ cut \in Nat /\ w = c + 1
  BY <1>1, <1>2, HeldFacts, PlaceFacts
<1>4. cut = w
  <2>. HIDE DEF c, w
  <2>. QED
    BY ONLY <1>3
<1>. QED
  BY <1>2, <1>4 DEF Truncated

-----------------------------------------------------------------------------
(***************************************************************************)
(* Python's parser.                                                        *)
(***************************************************************************)
LEMMA SkipCommaStep ==
    ASSUME ArraysInv, SkipComma
    PROVE  ArraysInv'
<1>1. /\ Unmoved /\ Laid /\ Held /\ BufferBounded /\ ParseAt
      /\ dec = "python" /\ dpc = "scan" /\ ~Starved /\ Char = ","
  BY DEF SkipComma, Parsing, Unmoved, ArraysInv, Parsers
<1>2. /\ read' = read /\ buf' = buf /\ pos' = pos + 1 /\ elemStart' = elemStart
      /\ lex' = lex /\ yielded' = yielded /\ dpc' = dpc /\ outcome' = outcome
  BY DEF SkipComma
<1>3. /\ Laid' /\ Splittable' = Splittable /\ cut' = cut /\ wire' = wire
      /\ items' = items /\ N' = N /\ dec' = dec
  BY <1>1, SameWire
<1>4. /\ pos \in Nat /\ Len(buf) \in Nat /\ pos <= Len(buf) /\ pos # Len(buf)
      /\ elemStart \in Nat /\ elemStart <= pos /\ Base \in Nat
  BY <1>1, HeldFacts DEF Starved
<1>5. Base' = Base /\ Cursor' = Cursor + 1
  BY <1>2, <1>4 DEF Base, Cursor
<1>6. pos' \in 0..Len(buf) /\ elemStart \in 0..pos' /\ Len(buf) <= Len(buf)
  BY <1>2, <1>4
<1>7. Held'
  BY <1>1, <1>2, <1>3, <1>5, <1>6 DEF Held
<1>8. BufferBounded'
  BY <1>1, <1>2, <1>3, <1>6, <1>7, StaysBounded
<1>9. ~Splittable => Given'
  BY <1>1, <1>2, SameGiven DEF ArraysInv
<1>10. ParseAt'
  <2>1. ASSUME ~Splittable PROVE Between(Cursor', Taken')
    <3>1. Given /\ Between(Cursor, Taken)
      BY <1>1, <2>1 DEF ArraysInv, ParseAt
    <3>2. Taken \in 0..N
      BY <1>1, <3>1, HereFacts
    <3>3. Taken' = Taken
      BY <1>2, SameHere
    <3>. QED
      BY <1>1, <1>5, <3>1, <3>2, <3>3, CommaPlace
  <2>2. \E i \in 0..N : Between(Cursor', i) \/ Inside(Cursor', i)
    <3>1. PICK i \in 0..N : Between(Cursor, i) \/ Inside(Cursor, i)
      BY <1>1 DEF ParseAt
    <3>2. Between(Cursor + 1, i)
      BY <1>1, <3>1, CommaPlace
    <3>. QED
      BY <1>5, <3>2
  <2>3. elemStart' = 0
    BY <1>1, <1>2 DEF ParseAt
  <2>. QED
    BY <1>1, <2>1, <2>2, <2>3, NewPlace
<1>11. dpc' = "scan" /\ dec' \notin ScanPorts /\ dec' \notin PullPorts
  BY <1>1, <1>2, <1>3 DEF ScanPorts, PullPorts
<1>. QED
  BY <1>3, <1>7, <1>8, <1>9, <1>10, <1>11 DEF ArraysInv

\* Python at the closing bracket.
LEMMA ParseCloseStep ==
    ASSUME ArraysInv, ParseClose
    PROVE  ArraysInv'
<1>1. /\ Unmoved /\ Laid /\ Held /\ ParseAt /\ dpc # "done"
      /\ dec = "python" /\ ~Starved /\ Char = "]"
  BY DEF ParseClose, Parsing, Unmoved, ArraysInv, Parsers
<1>2. /\ read' = read /\ buf' = buf /\ pos' = pos /\ elemStart' = elemStart
      /\ lex' = lex /\ yielded' = yielded /\ dpc' = "done" /\ outcome' = "complete"
  BY DEF ParseClose, Stop
<1>3. ASSUME ~Splittable PROVE Judged'
  <2>1. Given /\ Between(Cursor, Taken)
    BY <1>1, <1>3 DEF ArraysInv, ParseAt
  <2>2. Taken \in 0..N /\ Here = Taken + 1 /\ N \in Nat
    BY <1>1, <2>1, HereFacts, PlaceFacts
  <2>3. Taken = N /\ Closed /\ ~Truncated
    BY <1>1, <2>1, <2>2, BracketPlace
  <2>4. Accepted = Sent
    BY <1>1, <2>1, <2>3, AllGiven
  <2>5. Taken' = Taken /\ Here' = Here
    BY <1>2, SameHere
  <2>6. ~(Here' <= N)
    BY <2>2, <2>3, <2>5
  <2>7. Whole(Taken')
    BY <2>3, <2>4 DEF Whole
  <2>. QED
    BY <1>1, <1>2, <2>6, <2>7, NewVerdict
<1>. QED
  BY <1>1, <1>2, <1>3, EndStep

\* Where no number can be split every number is one digit.
LEMMA OneDigit ==
    ASSUME Laid, dec = "python", ~Splittable, NEW i \in 1..N, items[i] \in Numbers
    PROVE  Len(T(i)) = 1
<1>1. /\ T(i) \in Seq(Symbol) /\ Len(T(i)) \in Nat \ {0} /\ T(i) = Text[items[i]]
  BY PlaceFacts DEF T
<1>. DEFINE t == T(i)
<1>2. t \in Seq(Symbol) /\ Len(t) \in Nat \ {0} /\ \A j \in DOMAIN t : t[j] \in Digit
  BY <1>1 DEF Numbers
<1>3. t \in Range(Sent)
  <2>1. DOMAIN Sent = 1..N /\ Sent[i] = t
    BY SentFacts, LenProperties
  <2>. HIDE DEF t
  <2>. QED
    BY <2>1 DEF Range
<1>4. ~(Len(t) > 1 /\ IsNumber(t))
  BY <1>3 DEF Splittable
<1>. HIDE DEF t
<1>5. IsNumber(t)
  <2>1. DOMAIN t = 1..Len(t)
    BY <1>2, LenProperties
  <2>2. Len(t) \in 0..Len(t) /\ ~(Len(t) < Len(t))
    BY <1>2
  <2>3. DigitRun(t) = Len(t)
    BY <1>2, <2>1, <2>2, DigitRunIs
  <2>. QED
    BY <2>3 DEF IsNumber
<1>6. Len(t) = 1
  <2>. DEFINE l == Len(t)
  <2>1. ~(l > 1) /\ l \in Nat \ {0}
    BY <1>2, <1>4, <1>5, Zenon
  <2>. HIDE DEF l
  <2>2. l = 1
    BY ONLY <2>1
  <2>. QED
    BY <2>2 DEF l
<1>. QED
  BY <1>6 DEF t

\* Nothing is taken where no value stands.
LEMMA ViewGap ==
    ASSUME Laid, Held, Starved \/ Ends(Char)
    PROVE  Parsed(View) = {}
<1>1. /\ View \in Seq(Symbol) /\ Len(View) = read - Cursor /\ Reads(View, Cursor)
      /\ Starved <=> Cursor = read
      /\ read \in Nat /\ Cursor \in Nat
      /\ ~Starved => Char = wire[Cursor + 1]
  BY HeldFacts
<1>2. ASSUME Len(View) > 0 PROVE Ends(View[1])
  <2>1. ~Starved
    BY <1>1, <1>2
  <2>2. 1 \in 1..Len(View)
    BY <1>1, <1>2
  <2>3. View[1] = wire[Cursor + 1]
    BY <1>1, <2>2 DEF Reads
  <2>. QED
    BY <1>1, <2>1, <2>3
<1>. QED
  BY <1>1, <1>2, NothingParsed

\* What is taken is of the value the place stands in, and leads to the next
\* place.
LEMMA DecodePlace ==
    ASSUME Laid, Held, NEW i \in 0..N, Between(Cursor, i) \/ Inside(Cursor, i),
           NEW t \in Parsed(View), dec = "python"
    PROVE  /\ i + 1 \in 1..N /\ t \in Seq(Symbol) /\ Len(t) \in 1..Len(View)
           /\ Between(Cursor + Len(t), i + 1) \/ Inside(Cursor + Len(t), i)
           /\ ~Splittable => t = T(i + 1) /\ Cursor + Len(t) = Extent(i + 1)
<1>1. /\ View \in Seq(Symbol) /\ Len(View) \in Nat /\ Reads(View, Cursor)
      /\ ~Starved /\ ~Ends(Char) /\ Char = wire[Cursor + 1] /\ Len(View) > 0
      /\ Cursor \in Nat /\ Cursor < Len(wire) /\ N \in Nat
  <2>1. ~Starved /\ ~Ends(Char)
    BY ViewGap
  <2>. DEFINE c == Cursor
              w == Len(wire)
              v == Len(View)
  <2>2. c < read /\ read <= cut /\ cut <= w /\ v = read - c
        /\ c \in Nat /\ read \in Nat /\ cut \in Nat /\ w \in Nat
    BY <2>1, HeldFacts, PlaceFacts
  <2>. HIDE DEF c, w, v
  <2>3. v \in Nat /\ v > 0 /\ c < w
    BY ONLY <2>2
  <2>4. N \in Nat
    BY PlaceFacts
  <2>. QED
    BY <2>1, <2>2, <2>3, <2>4, HeldFacts DEF c, w, v
<1>2. PICK d \in Nat : At(Cursor, i, d)
  <2>1. ~(Cursor = Extent(i) /\ (i > 0 \/ N = 0))
    <3>. SUFFICES ASSUME Cursor = Extent(i), i > 0 \/ N = 0 PROVE FALSE
      OBVIOUS
    <3>1. Extent(i) < Len(wire)
      BY <1>1
    <3>2. wire[Extent(i) + 1] = "," \/ wire[Extent(i) + 1] = "]"
      BY <3>1, BehindValue
    <3>. QED
      BY <1>1, <3>2 DEF Ends
  <2>2. Cursor # Len(wire)
    BY <1>1, PlaceFacts
  <2>. QED
    BY <2>1, <2>2, PlaceKinds
<1>. DEFINE k == i + 1
            s == Slot(k)
            l == Len(T(k))
            c == Cursor
<1>3. /\ i < N /\ k \in 1..N /\ c = s + d /\ d < l
      /\ d > 0 => items[k] \in Numbers
  BY <1>1, <1>2 DEF At
<1>4. /\ s \in Nat /\ l \in Nat \ {0} /\ Extent(k) = s + l /\ T(k) \in Seq(Symbol)
      /\ c \in Nat
  BY <1>1, <1>3, PlaceFacts
<1>5. ASSUME t \in Seq(Symbol), NEW m \in Nat, Len(t) = m, m >= 1, m <= Len(View),
             d + m <= l, d + m < l => items[k] \in Numbers,
             ~Splittable => t = T(k) /\ d + m = l
      PROVE  /\ i + 1 \in 1..N /\ t \in Seq(Symbol) /\ Len(t) \in 1..Len(View)
             /\ Between(Cursor + Len(t), i + 1) \/ Inside(Cursor + Len(t), i)
             /\ ~Splittable => t = T(i + 1) /\ Cursor + Len(t) = Extent(i + 1)
  <2>1. Len(t) \in 1..Len(View)
    BY <1>1, <1>5
  <2>. DEFINE x == Extent(k)
  <2>2. d + m = l => c + m = x
    <3>. HIDE DEF x, s, l, c
    <3>. QED
      BY <1>3, <1>4, <1>5 DEF x, l
  <2>3. d + m < l => c + m \in s..(x - 1)
    <3>1. x = s + l
      BY <1>4
    <3>. HIDE DEF x, s, l, c
    <3>. QED
      BY <1>3, <1>4, <1>5, <3>1 DEF l
  <2>4. k > 0 /\ (d + m = l \/ d + m < l)
    <3>. HIDE DEF s, l, c
    <3>. QED
      BY <1>1, <1>3, <1>4, <1>5 DEF l
  <2>5. CASE d + m = l
    <3>1. Between(c + m, k)
      BY <2>2, <2>4, <2>5 DEF Between
    <3>. QED
      BY <1>3, <1>5, <2>1, <2>2, <2>5, <3>1
  <2>6. CASE d + m < l
    <3>1. Inside(c + m, i)
      BY <1>3, <1>5, <2>3, <2>6 DEF Inside
    <3>2. Splittable
      BY <1>4, <1>5, <2>6
    <3>. QED
      BY <1>3, <1>5, <2>1, <3>1, <3>2
  <2>. QED
    BY <2>4, <2>5, <2>6
<1>6. CASE items[k] \in Numbers
  <2>1. PICK m \in 1..Len(View) :
            /\ Parsed(View) = {SubSeq(View, 1, m)}
            /\ d + m <= l /\ (d + m < l => m = Len(View))
            /\ \A j \in 1..m : View[j] = T(k)[d + j]
    <3>1. Reads(View, Slot(k) + d) /\ d < Len(T(k)) /\ Len(View) > 0
      BY <1>1, <1>3
    <3>. QED
      BY <1>3, <1>6, <3>1, DigitsAt, Zenon
  <2>2. m \in Nat /\ m >= 1 /\ m <= Len(View) /\ m \in 0..Len(View)
    <3>. DEFINE v == Len(View)
    <3>1. v \in Nat /\ m \in 1..v
      BY <1>1
    <3>. HIDE DEF v
    <3>2. m \in Nat /\ m >= 1 /\ m <= v /\ m \in 0..v
      BY ONLY <3>1
    <3>. QED
      BY <3>2 DEF v
  <2>3. t = SubSeq(View, 1, m)
    BY <2>1
  <2>4. /\ t \in Seq(Symbol) /\ Len(t) = m
        /\ \A j \in 1..m : t[j] = View[j]
    BY <1>1, <2>2, <2>3, FirstPart
  <2>5. ASSUME ~Splittable PROVE t = T(k) /\ d + m = l
    <3>1. l = 1
      BY <1>3, <1>6, <2>5, OneDigit
    <3>2. d = 0 /\ m = 1
      BY <1>3, <2>1, <2>2, <3>1
    <3>3. \A j \in 1..Len(t) : t[j] = T(k)[j]
      <4>. TAKE j \in 1..Len(t)
      <4>1. j \in 1..m /\ d + j = j
        BY <2>4, <3>2
      <4>. QED
        BY <2>1, <2>4, <4>1
    <3>. QED
      BY <1>4, <2>4, <3>1, <3>2, <3>3, SeqEqual
  <2>. QED
    BY <1>5, <1>6, <2>1, <2>2, <2>4, <2>5
<1>7. CASE items[k] \notin Numbers
  <2>1. d = 0 /\ c = s
    BY <1>3, <1>4, <1>7
  <2>2. Reads(View, s)
    BY <1>1, <2>1
  <2>3. t = T(k) /\ Len(t) <= Len(View)
    BY <1>3, <1>7, <2>2, TextAt
  <2>4. l >= 1 /\ d + l <= l /\ d + l = l /\ ~(d + l < l) /\ l \in Nat
    <3>. HIDE DEF l
    <3>. QED
      BY <1>4, <2>1 DEF l
  <2>. QED
    BY <1>4, <1>5, <2>3, <2>4
<1>. QED
  BY <1>6, <1>7

\* Behind the comma after the n-th value the input may end nowhere else than
\* at the bracket of a whole array.
LEMMA PyNotWhole ==
    ASSUME Laid, dec = "python", NEW n \in 0..N, n < N, Slot(n + 1) < cut,
           Truncated \/ ~Closed \/ Accepted # Sent
    PROVE  ~Whole(n)
<1>1. Slot(n + 1) = Extent(n) + (IF n > 0 THEN 1 ELSE 0) /\ Extent(n) \in Nat
      /\ cut \in Nat /\ n \in Nat
  BY PlaceFacts
<1>. DEFINE x == Extent(n)
            s == Slot(n + 1)
<1>2. /\ s = x + (IF n > 0 THEN 1 ELSE 0) /\ x \in Nat /\ cut \in Nat /\ n \in Nat
      /\ s < cut
  BY <1>1
<1>3. cut # x /\ ~(n > 0 /\ cut = x + 1)
  <2>. HIDE DEF x, s
  <2>. QED
    BY ONLY <1>2
<1>. QED
  BY <1>3 DEF Whole

\* Python takes a value, or a piece of a number that a read split.
LEMMA RawDecodeStep ==
    ASSUME ArraysInv, RawDecode
    PROVE  ArraysInv'
<1>1. /\ Unmoved /\ Laid /\ Held /\ BufferBounded /\ ParseAt
      /\ dec = "python" /\ dpc = "scan"
  BY DEF RawDecode, Parsing, Unmoved, ArraysInv, Parsers
<1>2. PICK t \in Parsed(View) :
          /\ pos' = pos + Len(t)
          /\ IF NestsPast(t, ParserDepth[dec]) \/ NestsPast(t, MaxDepth)
               THEN Stop("failed") /\ UNCHANGED yielded
               ELSE Accept(t) /\ UNCHANGED <<dpc, outcome>>
  BY DEF RawDecode
<1>3. /\ read' = read /\ buf' = buf /\ elemStart' = elemStart /\ lex' = lex
      /\ Laid' /\ Splittable' = Splittable /\ cut' = cut /\ wire' = wire
      /\ items' = items /\ N' = N /\ dec' = dec
  BY <1>1, SameWire DEF RawDecode
<1>4. PICK i \in 0..N : Between(Cursor, i) \/ Inside(Cursor, i)
  BY <1>1 DEF ParseAt
<1>5. /\ i + 1 \in 1..N /\ t \in Seq(Symbol) /\ Len(t) \in 1..Len(View)
      /\ Between(Cursor + Len(t), i + 1) \/ Inside(Cursor + Len(t), i)
  BY <1>1, <1>4, DecodePlace
<1>6. ASSUME ~Splittable
      PROVE  /\ Given /\ Taken \in 0..N /\ Here \in 1..N /\ Here = Taken + 1
             /\ t = T(Here) /\ Cursor + Len(t) = Extent(Here)
  <2>1. Given /\ Between(Cursor, Taken)
    BY <1>1, <1>6 DEF ArraysInv, ParseAt
  <2>2. Taken \in 0..N /\ Here = Taken + 1
    BY <1>1, <2>1, HereFacts
  <2>. QED
    BY <1>1, <1>6, <2>1, <2>2, DecodePlace
<1>7. /\ Base' = Base /\ pos' \in 0..Len(buf) /\ elemStart \in 0..pos'
      /\ Cursor' = Cursor + Len(t) /\ Cursor + Len(t) <= cut
  <2>. DEFINE l == Len(t)
              b == Len(buf)
              v == Len(View)
              c == Cursor
              z == Base
  <2>1. /\ l \in 1..v /\ v = read - c /\ c = z + pos /\ z + b = read /\ read <= cut
        /\ read \in Nat /\ cut \in Nat /\ z \in Nat /\ b \in Nat /\ pos \in Nat
        /\ elemStart \in Nat /\ elemStart <= pos /\ pos' = pos + l /\ c \in Nat
    BY <1>1, <1>2, <1>5, HeldFacts
  <2>2. Base' = Base
    BY <1>3 DEF Base
  <2>3. Cursor' = z + pos'
    BY <2>2 DEF Cursor
  <2>. HIDE DEF l, b, v, c, z
  <2>4. /\ pos' \in 0..b /\ elemStart \in 0..pos' /\ z + pos' = c + l /\ c + l <= cut
    BY ONLY <2>1
  <2>. QED
    BY <2>2, <2>3, <2>4 DEF l, b, c
<1>8. BufferBounded' <=> BufferBounded
  BY <1>3 DEF BufferBounded, Room
<1>9. CASE NestsPast(t, ParserDepth[dec]) \/ NestsPast(t, MaxDepth)
  <2>1. yielded' = yielded /\ dpc' = "done" /\ outcome' = "failed"
    BY <1>2, <1>9 DEF Stop
  <2>2. Held'
    BY <1>1, <1>3, <1>7, <2>1 DEF Held
  <2>3. ~Splittable => Given'
    BY <1>1, <1>3, <2>1, SameGiven DEF ArraysInv
  <2>4. ASSUME ~Splittable PROVE Judged'
    <3>1. Refused(items[Here])
      BY <1>1, <1>6, <1>9, <2>4 DEF Refused, T, PullPorts
    <3>2. Accepted # Sent
      BY <1>1, <1>6, <2>4, <3>1, NotAccepted
    <3>3. Slot(Taken + 1) < cut /\ Taken < N
      <4>. DEFINE h == Taken + 1
                  s == Slot(h)
                  x == Extent(h)
                  l == Len(T(h))
      <4>1. h \in 1..N /\ x <= cut /\ Taken \in 0..N /\ N \in Nat /\ cut \in Nat
        BY <1>1, <1>6, <1>7, <2>4, PlaceFacts
      <4>2. x = s + l /\ s \in Nat /\ l \in Nat \ {0}
        BY <1>1, <4>1, PlaceFacts
      <4>3. s < cut
        <5>. HIDE DEF h, s, x, l
        <5>. QED
          BY ONLY <4>1, <4>2
      <4>4. Taken < N
        <5>. DEFINE tk == Taken
        <5>1. tk \in 0..N /\ tk + 1 \in 1..N /\ N \in Nat
          BY <4>1
        <5>. HIDE DEF tk
        <5>2. tk < N
          BY ONLY <5>1
        <5>. QED
          BY <5>2 DEF tk
      <4>. QED
        BY <4>3, <4>4
    <3>4. ~Whole(Taken)
      BY <1>1, <1>6, <2>4, <3>2, <3>3, PyNotWhole
    <3>5. Taken' = Taken /\ Here' = Here
      BY <2>1, SameHere
    <3>. QED
      BY <1>1, <2>1, <3>1, <3>4, <3>5, NewVerdict
  <2>. QED
    BY <1>1, <1>3, <1>8, <2>1, <2>2, <2>3, <2>4 DEF ArraysInv
<1>10. CASE ~(NestsPast(t, ParserDepth[dec]) \/ NestsPast(t, MaxDepth))
  <2>1. yielded' = Append(yielded, t) /\ dpc' = dpc /\ outcome' = outcome
    BY <1>2, <1>10 DEF Accept
  <2>2. yielded \in Seq(Seq(Symbol))
    BY <1>1 DEF Held
  <2>3. yielded' \in Seq(Seq(Symbol)) /\ Taken' = Here
    BY <1>5, <2>1, <2>2, AppendProperties DEF Taken, Here
  <2>4. Held'
    BY <1>1, <1>3, <1>7, <2>1, <2>3 DEF Held
  <2>5. ASSUME ~Splittable PROVE Given' /\ Between(Cursor', Taken')
    <3>1. /\ Given /\ Here \in 1..N /\ t = T(Here) /\ Cursor + Len(t) = Extent(Here)
          /\ Here <= N
      BY <1>1, <1>6, <2>5, PlaceFacts
    <3>2. ~CutOff
      BY <1>1 DEF CutOff, PullPorts
    <3>3. ~Refused(items[Here])
      BY <1>1, <1>10, <3>1 DEF Refused, T
    <3>4. Arrived(Here)
      <4>1. Extent(Here) <= cut /\ Extent(Here) \in Nat
        BY <1>1, <1>7, <3>1, PlaceFacts
      <4>2. Extent(Here) + 0 = Extent(Here)
        BY <4>1
      <4>. QED
        BY <1>1, <4>1, <4>2 DEF Arrived, ScanPorts
    <3>5. Given'
      BY <1>1, <2>1, <2>2, <3>1, <3>2, <3>3, <3>4, MoreGiven
    <3>6. Here > 0
      BY <3>1
    <3>. QED
      BY <1>7, <2>3, <3>1, <3>5, <3>6 DEF Between
  <2>6. \E k \in 0..N : Between(Cursor', k) \/ Inside(Cursor', k)
    <3>1. i + 1 \in 0..N
      BY <1>5
    <3>. QED
      BY <1>4, <1>5, <1>7, <3>1
  <2>7. ParseAt'
    BY <1>1, <1>3, <2>5, <2>6, NewPlace DEF ParseAt
  <2>8. dpc' = "scan" /\ dec' \notin ScanPorts /\ dec' \notin PullPorts
    BY <1>1, <1>3, <2>1 DEF ScanPorts, PullPorts
  <2>. QED
    BY <1>1, <1>3, <1>8, <2>4, <2>5, <2>7, <2>8 DEF ArraysInv
<1>. QED
  BY <1>9, <1>10

\* The parser waits for text only between two values or in one of which a part
\* has not been read.
LEMMA StuckShort ==
    ASSUME Laid, Held, dec = "python", Stuck, ~Starved,
           NEW i \in 0..N, Between(Cursor, i) \/ Inside(Cursor, i)
    PROVE  /\ i + 1 \in 1..N /\ i < N /\ Cursor = Slot(i + 1)
           /\ Len(View) < Len(T(i + 1))
<1>1. ~Ends(Char) /\ Parsed(View) = {}
  BY DEF Stuck, Ends
<1>. DEFINE c == Cursor
            w == Len(wire)
            v == Len(View)
<1>2. v \in Nat /\ v > 0 /\ c < w /\ c # w /\ c \in Nat
  <2>1. c < read /\ read <= cut /\ cut <= w /\ v = read - c
        /\ c \in Nat /\ read \in Nat /\ cut \in Nat /\ w \in Nat
    BY HeldFacts, PlaceFacts
  <2>. HIDE DEF c, w, v
  <2>. QED
    BY ONLY <2>1
<1>3. View \in Seq(Symbol) /\ Reads(View, Cursor) /\ Char = wire[Cursor + 1]
  BY HeldFacts
<1>4. PICK d \in Nat : At(Cursor, i, d)
  <2>1. ~(Cursor = Extent(i) /\ (i > 0 \/ N = 0))
    <3>. SUFFICES ASSUME Cursor = Extent(i), i > 0 \/ N = 0 PROVE FALSE
      OBVIOUS
    <3>1. Extent(i) < Len(wire)
      BY <1>2
    <3>2. wire[Extent(i) + 1] = "," \/ wire[Extent(i) + 1] = "]"
      BY <3>1, BehindValue
    <3>. QED
      BY <1>1, <1>3, <3>2 DEF Ends
  <2>. QED
    BY <1>2, <2>1, PlaceKinds
<1>5. /\ i < N /\ i + 1 \in 1..N /\ Cursor = Slot(i + 1) + d /\ d < Len(T(i + 1))
      /\ d > 0 => items[i + 1] \in Numbers
  BY <1>4, PlaceFacts DEF At
<1>6. items[i + 1] \notin Numbers
  <2>. SUFFICES ASSUME items[i + 1] \in Numbers PROVE FALSE
    OBVIOUS
  <2>1. Reads(View, Slot(i + 1) + d) /\ Len(View) > 0
    BY <1>2, <1>3, <1>5
  <2>2. PICK k \in 1..Len(View) :
            /\ Parsed(View) = {SubSeq(View, 1, k)}
            /\ d + k <= Len(T(i + 1)) /\ (d + k < Len(T(i + 1)) => k = Len(View))
            /\ \A j \in 1..k : View[j] = T(i + 1)[d + j]
    BY <1>5, <2>1, DigitsAt, Zenon
  <2>3. Parsed(View) = {SubSeq(View, 1, k)}
    BY <2>2, Zenon
  <2>4. SubSeq(View, 1, k) \in Parsed(View)
    BY <2>3, Zenon
  <2>. QED
    BY <1>1, <2>4
<1>7. Cursor = Slot(i + 1)
  <2>1. ~(d > 0)
    BY ONLY <1>5, <1>6
  <2>2. d = 0
    BY ONLY <2>1, d \in Nat
  <2>3. Slot(i + 1) \in Nat
    BY <1>5, PlaceFacts
  <2>4. Cursor = Slot(i + 1) + 0
    BY ONLY <1>5, <2>2
  <2>. QED
    BY ONLY <2>3, <2>4
<1>8. ~(Len(T(i + 1)) <= Len(View))
  <2>1. Reads(View, Slot(i + 1))
    BY <1>3, <1>7
  <2>. QED
    BY <1>1, <1>5, <1>6, <2>1, TextAt
<1>9. Len(View) < Len(T(i + 1))
  <2>. DEFINE l == Len(T(i + 1))
  <2>1. l \in Nat /\ v \in Nat /\ ~(l <= v)
    BY <1>2, <1>5, <1>8, PlaceFacts
  <2>. HIDE DEF l, v
  <2>2. v < l
    BY ONLY <2>1
  <2>. QED
    BY <2>2 DEF v, l
<1>. QED
  BY <1>5, <1>7, <1>9

\* Python refills the buffer and drops what it has consumed.
LEMMA FillStep ==
    ASSUME ArraysInv, Fill
    PROVE  ArraysInv'
<1>1. /\ Unmoved /\ Laid /\ Held /\ ParseAt
      /\ dec = "python" /\ dpc = "scan" /\ Stuck
  BY DEF Fill, Parsing, Unmoved, ArraysInv, Parsers
<1>2. PICK n \in 1..ChunkSize :
          /\ read + n <= Len(Input) /\ read' = read + n
          /\ buf' = View \o SubSeq(Input, read + 1, read + n)
  BY DEF Fill, Chunk
<1>3. /\ pos' = 0 /\ elemStart' = elemStart /\ lex' = lex /\ elemStart = 0
      /\ yielded' = yielded /\ dpc' = dpc /\ outcome' = outcome
      /\ Laid' /\ Splittable' = Splittable /\ cut' = cut /\ wire' = wire
      /\ items' = items /\ N' = N /\ dec' = dec
  BY <1>1, SameWire DEF Fill, ParseAt
<1>4. /\ View \in Seq(Symbol) /\ Len(View) \in Nat /\ Len(View) <= read
      /\ read \in Nat /\ Cursor \in Nat /\ Cursor = read - Len(View)
      /\ n \in Nat /\ n <= ChunkSize /\ ChunkSize \in Nat
      /\ \A j \in 1..Len(View) : View[j] = wire[Cursor + j]
      /\ Input \in Seq(Symbol) /\ Len(Input) = cut /\ cut \in Nat
      /\ \A j \in 1..Len(Input) : Input[j] = wire[j]
  <2>. DEFINE c == Cursor
              v == Len(View)
  <2>1. /\ v = read - c /\ c \in Nat /\ read \in Nat /\ c <= read
        /\ ChunkSize \in Nat \ {0} /\ n \in 1..ChunkSize
    BY <1>1, HeldFacts, RoomFacts
  <2>2. v \in Nat /\ v <= read /\ c = read - v
        /\ n \in Nat /\ n <= ChunkSize /\ ChunkSize \in Nat
    <3>. HIDE DEF c, v
    <3>. QED
      BY ONLY <2>1
  <2>. QED
    BY <1>1, <2>1, <2>2, HeldFacts, InputFacts DEF Reads
<1>5. /\ buf' \in Seq(Symbol) /\ Len(buf') = Len(View) + n
      /\ \A j \in 1..Len(buf') : buf'[j] = wire[(read - Len(View)) + j]
  <2>1. \A j \in 1..Len(View) : View[j] = wire[(read - Len(View)) + j]
    BY <1>4
  <2>2. /\ read + n <= Len(Input)
        /\ buf' = View \o SubSeq(Input, read + 1, read + n)
    BY <1>2, <1>4
  <2>3. Refilled(wire, Input, View, read, n, buf')
    BY <1>4, <2>1, <2>2 DEF Refilled
  <2>. QED
    BY ONLY <2>3, FillWindow
<1>6. /\ Base' = Cursor /\ Cursor' = Cursor /\ read' \in 0..cut
      /\ Len(buf') \in Nat /\ Len(buf') <= read'
  <2>. DEFINE c == Cursor
              v == Len(View)
              b == Len(buf')
  <2>1. /\ b = v + n /\ c = read - v /\ v \in Nat /\ n \in Nat /\ v <= read
        /\ read \in Nat /\ read' = read + n /\ read + n <= cut /\ cut \in Nat
    BY <1>2, <1>4, <1>5
  <2>2. Base' = read' - b
    BY DEF Base
  <2>3. Cursor' = Base' + pos'
    BY DEF Cursor
  <2>. HIDE DEF c, v, b
  <2>4. /\ read' - b = c /\ c + 0 = c /\ read' \in 0..cut
        /\ b \in Nat /\ b <= read'
    BY ONLY <2>1
  <2>. QED
    BY <1>3, <2>2, <2>3, <2>4 DEF c, b
<1>7. Held'
  <2>1. 0 \in 0..Len(buf') /\ 0 \in 0..0
    BY <1>6
  <2>. QED
    BY <1>1, <1>3, <1>4, <1>5, <1>6, <2>1 DEF Held, PullPorts
<1>8. PICK i \in 0..N : Between(Cursor, i) \/ Inside(Cursor, i)
  BY <1>1 DEF ParseAt
<1>9. BufferBounded'
  <2>1. Room' = Room /\ Room \in Nat
    BY <1>3, RoomFacts DEF Room
  <2>2. \E m \in {0} \cup {Len(Text[e]) : e \in Element} : m \in Nat /\ Len(View) <= m
    <3>1. CASE Starved
      <4>1. Len(View) <= 0
        <5>1. Cursor = read
          BY <1>1, <3>1, HeldFacts
        <5>. QED
          BY <1>4, <5>1
      <4>. QED
        BY <4>1
    <3>2. CASE ~Starved
      <4>1. i + 1 \in 1..N /\ Len(View) < Len(T(i + 1))
        BY <1>1, <1>8, <3>2, StuckShort
      <4>2. items[i + 1] \in Element /\ Len(T(i + 1)) \in Nat
        BY <1>1, <4>1, PlaceFacts
      <4>3. Len(View) <= Len(T(i + 1))
        BY <1>4, <4>1, <4>2
      <4>. QED
        BY <4>2, <4>3 DEF T
    <3>. QED
      BY <3>1, <3>2
  <2>3. PICK m \in {0} \cup {Len(Text[e]) : e \in Element} :
            m \in Nat /\ Len(View) <= m
    BY <2>2
  <2>4. Len(buf') <= m + ChunkSize + Room
    <3>. DEFINE v == Len(View)
                b == Len(buf')
                z == Room
    <3>1. b = v + n /\ v <= m /\ m \in Nat /\ v \in Nat /\ n <= ChunkSize
          /\ n \in Nat /\ ChunkSize \in Nat /\ z \in Nat
      BY <1>4, <1>5, <2>1, <2>3
    <3>. HIDE DEF v, b, z
    <3>2. b <= m + ChunkSize + z
      BY ONLY <3>1
    <3>. QED
      BY <3>2 DEF b, z
  <2>. QED
    BY <2>1, <2>4 DEF BufferBounded
<1>10. ~Splittable => Given'
  <2>1. dec \notin PullPorts
    BY <1>1 DEF PullPorts
  <2>. QED
    BY <1>1, <1>3, <2>1, SameGiven DEF ArraysInv
<1>11. ParseAt'
  <2>1. Taken' = Taken
    BY <1>3, SameHere
  <2>. QED
    BY <1>1, <1>3, <1>6, <1>8, <2>1, NewPlace DEF ParseAt
<1>12. dpc' = "scan" /\ dec' \notin ScanPorts /\ dec' \notin PullPorts
  BY <1>1, <1>3 DEF ScanPorts, PullPorts
<1>. QED
  BY <1>3, <1>7, <1>9, <1>10, <1>11, <1>12 DEF ArraysInv

\* Python at the end of the stream.
LEMMA FillFailsStep ==
    ASSUME ArraysInv, FillFails
    PROVE  ArraysInv'
<1>1. /\ Unmoved /\ Laid /\ Held /\ ParseAt /\ dpc # "done"
      /\ dec = "python" /\ Stuck
  BY DEF FillFails, Parsing, Unmoved, ArraysInv, Parsers
<1>2. /\ read' = read /\ buf' = buf /\ pos' = pos /\ elemStart' = elemStart
      /\ lex' = lex /\ yielded' = yielded /\ dpc' = "done"
      /\ outcome' = IF Starved THEN "complete" ELSE "failed"
  BY DEF FillFails, Stop
<1>3. read = cut
  BY <1>1, InputFacts DEF FillFails, AtEnd
<1>4. ASSUME ~Splittable PROVE Judged'
  <2>1. Given /\ Between(Cursor, Taken)
    BY <1>1, <1>4 DEF ArraysInv, ParseAt
  <2>2. Taken \in 0..N /\ Here = Taken + 1
    BY <1>1, <2>1, HereFacts
  <2>3. Taken' = Taken /\ Here' = Here
    BY <1>2, SameHere
  <2>. DEFINE k == Taken
              h == k + 1
              c == Cursor
              s == Slot(h)
              x == Extent(k)
              y == Extent(h)
              l == Len(T(h))
              v == Len(View)
              w == Len(wire)
  <2>4. /\ k \in 0..N /\ N \in Nat /\ x \in Nat /\ cut \in Nat /\ c \in Nat
        /\ s = x + (IF k > 0 THEN 1 ELSE 0)
        /\ v = cut - c /\ w \in Nat /\ k \in Nat
    BY <1>1, <1>3, <2>2, HeldFacts, PlaceFacts
  <2>5. k < N => s \in Nat /\ y = s + l /\ l \in Nat \ {0} /\ y <= w /\ y \in Nat
    <3>1. k < N => h \in 1..N /\ h \in 0..N
      BY <2>4
    <3>. QED
      BY <1>1, <3>1, PlaceFacts
  <2>6. Here <= N => k < N
    BY <2>2, <2>4
  <2>7. CASE Starved
    <3>1. c = cut
      BY <1>1, <1>3, <2>7, HeldFacts
    <3>2. c = x \/ c = s
      BY <2>1 DEF Between
    <3>3. cut = x \/ (k > 0 /\ cut = x + 1)
      <4>. HIDE DEF k, h, c, s, x, y, l, v, w
      <4>. QED
        BY ONLY <2>4, <3>1, <3>2
    <3>4. Whole(k)
      BY <1>1, <3>3 DEF Whole
    <3>5. k < N => y > cut
      <4>. HIDE DEF k, h, c, s, x, y, l, v, w
      <4>. QED
        BY ONLY <2>4, <2>5, <3>1, <3>2
    <3>6. Here <= N => ~Arrived(Here)
      <4>1. k < N => ~(y + 0 <= cut)
        <5>. HIDE DEF k, h, c, s, x, y, l, v, w
        <5>. QED
          BY ONLY <2>4, <2>5, <3>5
      <4>. QED
        BY <1>1, <2>2, <2>6, <4>1 DEF Arrived, ScanPorts
    <3>. QED
      BY <1>1, <1>2, <2>3, <2>7, <3>4, <3>6, NewVerdict
  <2>8. CASE ~Starved
    <3>1. h \in 1..N /\ k < N /\ c = s /\ v < l
      BY <1>1, <2>1, <2>2, <2>8, StuckShort
    <3>2. c < cut
      BY <1>1, <1>3, <2>8, HeldFacts
    <3>3. s < cut /\ cut < y /\ cut < w /\ ~(y + 0 <= cut)
      <4>. HIDE DEF k, h, c, s, x, y, l, v, w
      <4>. QED
        BY ONLY <2>4, <2>5, <3>1, <3>2
    <3>4. ~Whole(k)
      BY <1>1, <2>2, <3>1, <3>3, PyNotWhole DEF Truncated
    <3>5. ~Arrived(Here)
      BY <1>1, <2>2, <3>3 DEF Arrived, ScanPorts
    <3>. QED
      BY <1>1, <1>2, <2>3, <2>8, <3>4, <3>5, NewVerdict
  <2>. QED
    BY <2>7, <2>8
<1>. QED
  BY <1>1, <1>2, <1>4, EndStep

-----------------------------------------------------------------------------
(***************************************************************************)
(* The pull parsers.                                                       *)
(***************************************************************************)
LEMMA RestFacts ==
    ASSUME Laid, Held
    PROVE  /\ Rest \in Seq(Symbol) /\ Len(Rest) = cut - read /\ Len(Rest) \in Nat
           /\ Reads(Rest, read)
           /\ Rest # <<>> <=> read < cut
           /\ Rest # <<>> => Rest[1] = wire[read + 1]
<1>1. /\ Input \in Seq(Symbol) /\ Len(Input) = cut /\ read \in Nat /\ cut \in Nat
      /\ read <= cut /\ \A j \in 1..Len(Input) : Input[j] = wire[j]
  BY InputFacts, HeldFacts
<1>. DEFINE r == Rest
            n == cut - read
<1>2. /\ r \in Seq(Symbol) /\ Len(r) = n /\ n \in Nat
      /\ \A j \in 1..n : r[j] = Input[read + j]
  <2>1. cut \in read..Len(Input)
    BY <1>1
  <2>. QED
    BY <1>1, <2>1, Part DEF Rest
<1>. HIDE DEF r
<1>3. \A j \in 1..n : r[j] = wire[read + j]
  <2>. TAKE j \in 1..n
  <2>1. read + j \in 1..Len(Input)
    BY <1>1
  <2>. QED
    BY <1>1, <1>2, <2>1
<1>4. read + n = cut /\ (read < cut <=> n > 0) /\ (n > 0 => 1 \in 1..n)
  BY <1>1
<1>5. r # <<>> <=> n > 0
  BY <1>2, EmptySeq
<1>6. read + Len(r) <= cut
  BY <1>1, <1>2
<1>. QED
  BY <1>2, <1>3, <1>4, <1>5, <1>6 DEF Reads, r

\* Where no number has been cut off a pull parser stands behind the value it
\* handed over last, and the text it looks at begins with the next.
LEMMA PullNext ==
    ASSUME Laid, Held, Given, dec \in PullPorts, read = Extent(Taken),
           Separated \/ yielded = <<>>
    PROVE  /\ Reads(NextText, Slot(Here)) /\ Len(NextText) \in Nat
           /\ Slot(Here) + Len(NextText) = cut
           /\ Slot(Here) = (read + Len(Rest)) - Len(NextText)
           /\ Here <= N \/ NextText = <<>> \/ Ends(NextText[1])
<1>1. /\ Taken \in 0..N /\ Here = Taken + 1 /\ Taken \in Nat /\ N \in Nat
      /\ ~(Here <= N) => Taken = N
      /\ cut \in Nat /\ read \in Nat /\ read <= cut /\ cut <= Len(wire)
      /\ Len(wire) \in Nat
      /\ Slot(Here) = Extent(Taken) + (IF Taken > 0 THEN 1 ELSE 0)
  BY HereFacts, HeldFacts, PlaceFacts
<1>2. /\ Rest \in Seq(Symbol) /\ Len(Rest) = cut - read /\ Len(Rest) \in Nat
      /\ Reads(Rest, read)
      /\ Rest # <<>> <=> read < cut
      /\ Rest # <<>> => Rest[1] = wire[read + 1]
  BY RestFacts
<1>3. yielded = <<>> <=> Taken = 0
  <2>1. yielded \in Seq(Seq(Symbol))
    BY DEF Held
  <2>. QED
    BY <2>1, EmptySeq DEF Taken
<1>4. CASE Separated
  <2>0. wire[Extent(Taken) + 1] = ","
    BY <1>2, <1>4 DEF Separated
  <2>1. /\ Taken > 0 /\ read < cut /\ NextText = Tail(Rest)
    <3>1. yielded # <<>> /\ Rest # <<>> /\ NextText = Tail(Rest)
      BY <1>4 DEF Separated, NextText
    <3>2. Taken # 0 /\ Taken \in Nat
      BY <1>1, <1>3, <3>1, Zenon
    <3>. QED
      BY <1>2, <3>1, <3>2
  <2>2. /\ NextText \in Seq(Symbol) /\ Len(NextText) = Len(Rest) - 1
        /\ Len(NextText) \in Nat
        /\ \A j \in 1..Len(NextText) : NextText[j] = Rest[j + 1]
    <3>1. Rest # <<>>
      BY <1>2, <2>1
    <3>2. Len(Rest) > 0
      BY <1>1, <1>2, <2>1
    <3>. QED
      BY <1>2, <2>1, <3>1, <3>2, HeadTailProperties
  <2>3. Slot(Here) = read + 1
    BY <1>1, <2>1
  <2>4. Slot(Here) + Len(NextText) = cut
        /\ Slot(Here) = (read + Len(Rest)) - Len(NextText)
    <3>. DEFINE l == Len(NextText)
                n == Len(Rest)
                s == Slot(Here)
    <3>1. l = n - 1 /\ n = cut - read /\ n \in Nat /\ s = read + 1
          /\ read \in Nat /\ cut \in Nat
      BY <1>1, <1>2, <2>2, <2>3
    <3>. HIDE DEF l, n, s
    <3>2. s + l = cut /\ s = (read + n) - l
      BY ONLY <3>1
    <3>. QED
      BY <3>2 DEF l, n, s
  <2>5. \A j \in 1..Len(NextText) : NextText[j] = wire[Slot(Here) + j]
    <3>. TAKE j \in 1..Len(NextText)
    <3>1. j + 1 \in 1..Len(Rest) /\ read + (j + 1) = Slot(Here) + j
      <4>. DEFINE l == Len(NextText)
                  n == Len(Rest)
                  s == Slot(Here)
      <4>1. j \in 1..l /\ l = n - 1 /\ n \in Nat /\ s = read + 1 /\ read \in Nat
        BY <1>1, <1>2, <2>2, <2>3
      <4>. HIDE DEF l, n, s
      <4>2. j + 1 \in 1..n /\ read + (j + 1) = s + j
        BY ONLY <4>1
      <4>. QED
        BY <4>2 DEF n, s
    <3>2. Rest[j + 1] = wire[read + (j + 1)]
      BY <1>2, <3>1 DEF Reads
    <3>3. NextText[j] = Rest[j + 1]
      BY <2>2
    <3>. QED
      BY <3>1, <3>2, <3>3
  <2>6. Reads(NextText, Slot(Here))
    <3>1. Slot(Here) + Len(NextText) <= cut
      BY <1>1, <2>4
    <3>. QED
      BY <2>2, <2>5, <3>1 DEF Reads
  <2>7. ASSUME ~(Here <= N) PROVE NextText = <<>>
    <3>1. Taken = N /\ Extent(Taken) < Len(wire)
      BY <1>1, <2>1, <2>7
    <3>2. Dangling
      <4>1. "," # "]"
        OBVIOUS
      <4>2. ~(Taken < N)
        BY <1>1, <3>1
      <4>. QED
        BY <1>1, <2>0, <2>1, <3>1, <4>1, <4>2, BehindValue
    <3>3. Slot(Here) = Len(wire)
      BY <1>1, <3>1, <3>2, NothingDangles
    <3>4. Len(NextText) = 0
      <4>. DEFINE l == Len(NextText)
                  w == Len(wire)
      <4>1. w + l = cut /\ cut <= w /\ w \in Nat /\ l \in Nat /\ cut \in Nat
        BY <1>1, <2>2, <2>4, <3>3
      <4>. HIDE DEF l, w
      <4>2. l = 0
        BY ONLY <4>1
      <4>. QED
        BY <4>2 DEF l
    <3>. QED
      BY <2>2, <3>4, EmptySeq
  <2>. QED
    BY <2>2, <2>4, <2>6, <2>7
<1>5. CASE ~Separated
  <2>1. Taken = 0 /\ NextText = Rest /\ Slot(Here) = read
    BY <1>1, <1>3, <1>5 DEF NextText
  <2>2. Slot(Here) + Len(NextText) = cut
        /\ Slot(Here) = (read + Len(Rest)) - Len(NextText)
    BY <1>1, <1>2, <2>1
  <2>3. ASSUME ~(Here <= N), NextText # <<>> PROVE Ends(NextText[1])
    <3>1. N = 0 /\ Taken = N /\ Extent(Taken) < Len(wire)
      BY <1>1, <1>2, <2>1, <2>3
    <3>2. wire[Extent(Taken) + 1] = "," \/ wire[Extent(Taken) + 1] = "]"
      BY <1>1, <3>1, BehindValue
    <3>3. NextText[1] = wire[Extent(Taken) + 1]
      BY <1>2, <2>1, <2>3
    <3>. QED
      BY <3>2, <3>3 DEF Ends
  <2>. QED
    BY <1>2, <2>1, <2>2, <2>3
<1>. QED
  BY <1>4, <1>5

\* What a pull parser takes is the value it comes to, or the digits of it that
\* are before the end of a cut stream.
LEMMA PullPlace ==
    ASSUME Laid, Held, Given, dec \in PullPorts, read = Extent(Taken),
           Separated \/ yielded = <<>>, NEW t \in Parsed(NextText)
    PROVE  /\ Here \in 1..N /\ t \in Seq(Symbol) /\ ~Refused(items[Here])
           /\ Slot(Here) + Len(t) \in 0..cut
           /\ \/ t = T(Here) /\ Slot(Here) + Len(t) = Extent(Here)
              \/ /\ items[Here] \in Numbers /\ Len(t) > 0 /\ Len(t) < Len(T(Here))
                 /\ \A j \in 1..Len(t) : t[j] = T(Here)[j]
                 /\ Slot(Here) + Len(t) = cut /\ cut < Extent(Here)
<1>1. /\ Reads(NextText, Slot(Here)) /\ Len(NextText) \in Nat
      /\ Slot(Here) + Len(NextText) = cut
      /\ Here <= N \/ NextText = <<>> \/ Ends(NextText[1])
      /\ NextText \in Seq(Symbol)
  BY PullNext DEF Reads
<1>2. NextText # <<>> /\ ~Ends(NextText[1])
  <2>1. ~(Len(NextText) > 0 => Ends(NextText[1]))
    BY <1>1, NothingParsed
  <2>. QED
    BY <1>1, <2>1, EmptySeq
<1>3. Here \in 1..N /\ Here <= N
  BY <1>1, <1>2, HereFacts
<1>. DEFINE s == Slot(Here)
            l == Len(T(Here))
            v == Len(NextText)
            x == Extent(Here)
<1>4. /\ s \in Nat /\ l \in Nat \ {0} /\ x = s + l /\ T(Here) \in Seq(Symbol)
      /\ cut \in Nat /\ v \in Nat /\ s + v = cut
      /\ items[Here] \in Element
  BY <1>1, <1>3, PlaceFacts
<1>5. CASE items[Here] \in Numbers
  <2>1. Reads(NextText, Slot(Here) + 0) /\ 0 < l /\ v > 0 /\ 0 \in Nat
    <3>1. Slot(Here) + 0 = Slot(Here) /\ 0 < l
      BY <1>4
    <3>2. v > 0
      <4>1. v # 0
        BY <1>1, <1>2, EmptySeq
      <4>. QED
        BY <1>4, <4>1
    <3>. QED
      BY <1>1, <3>1, <3>2
  <2>2. PICK k \in 1..v :
            /\ Parsed(NextText) = {SubSeq(NextText, 1, k)}
            /\ 0 + k <= l /\ (0 + k < l => k = v)
            /\ \A j \in 1..k : NextText[j] = T(Here)[0 + j]
    BY <1>3, <1>5, <2>1, DigitsAt, Zenon
  <2>3. k \in 0..v /\ k \in Nat /\ k <= v /\ k <= l /\ (k < l => k = v)
        /\ (k < l \/ k = l) /\ k > 0
    <3>. HIDE DEF v, l
    <3>. QED
      BY <1>4, <2>2 DEF v, l
  <2>4. /\ t \in Seq(Symbol) /\ Len(t) = k
        /\ \A j \in 1..k : t[j] = NextText[j]
    <3>1. t = SubSeq(NextText, 1, k)
      BY <2>2
    <3>. QED
      BY <1>1, <2>3, <3>1, FirstPart
  <2>5. \A j \in 1..Len(t) : t[j] = T(Here)[j]
    <3>. TAKE j \in 1..Len(t)
    <3>1. j \in 1..k /\ 0 + j = j
      BY <2>3, <2>4
    <3>. QED
      BY <2>2, <2>4, <3>1
  <2>6. s + k \in 0..cut /\ (k = l => s + k = x) /\ (k < l => s + k = cut /\ cut < x)
    <3>. HIDE DEF s, l, v, x
    <3>. QED
      BY ONLY <1>4, <2>3
  <2>7. ~Refused(items[Here])
    <3>1. items[Here] \notin Foreign
      BY <1>5, NumberAssumption
    <3>2. ParserDepth[dec] \in Nat
      BY ParserAssumption DEF PullPorts
    <3>3. ~NestsPast(Text[items[Here]], ParserDepth[dec])
      BY <1>5, <3>2, NumbersFlat
    <3>. QED
      BY <3>1, <3>3 DEF Refused
  <2>8. CASE k = l
    <3>1. t = T(Here)
      BY <1>4, <2>4, <2>5, <2>8, SeqEqual
    <3>. QED
      BY <1>3, <2>4, <2>6, <2>7, <2>8, <3>1
  <2>9. CASE k < l
    BY <1>3, <1>5, <2>3, <2>4, <2>5, <2>6, <2>7, <2>9
  <2>. QED
    BY <2>3, <2>8, <2>9
<1>6. CASE items[Here] \notin Numbers
  <2>1. /\ t = T(Here) /\ Len(t) <= v
        /\ dec = "python" \/ items[Here] \in Parsable(dec)
    BY <1>1, <1>3, <1>6, TextAt
  <2>2. ~Refused(items[Here])
    BY <2>1 DEF Refused, Parsable, PullPorts
  <2>3. s + l \in 0..cut /\ s + l = x
    <3>1. l <= v
      BY <2>1
    <3>. HIDE DEF s, l, v, x
    <3>. QED
      BY ONLY <1>4, <3>1
  <2>. QED
    BY <1>3, <1>4, <2>1, <2>2, <2>3
<1>. QED
  BY <1>5, <1>6

\* What a pull parser keeps.
LEMMA PullHeld ==
    ASSUME Laid, Held, BufferBounded, dec \in PullPorts, Unmoved,
           buf' = buf, pos' = pos, elemStart' = elemStart, lex' = lex,
           read' \in 0..cut,
           dpc' \in {"start", "scan", "done"},
           outcome' \in {"none", "complete", "failed", "stopped"},
           outcome' = "none" <=> dpc' # "done",
           yielded' \in Seq(Seq(Symbol))
    PROVE  /\ Laid' /\ Held' /\ BufferBounded' /\ dec' = dec /\ cut' = cut
           /\ items' = items /\ N' = N /\ wire' = wire /\ Splittable' = Splittable
<1>1. /\ Laid' /\ cut' = cut /\ wire' = wire /\ items' = items /\ N' = N /\ dec' = dec
      /\ Splittable' = Splittable
  BY SameWire
<1>2. buf = <<>> /\ Len(buf) = 0 /\ pos \in 0..Len(buf) /\ elemStart \in 0..pos
      /\ lex \in [depth : Nat, inString : BOOLEAN, escape : BOOLEAN]
  BY DEF Held
<1>3. Len(buf) <= read' /\ \A j \in 1..Len(buf) : FALSE
  BY <1>2
<1>4. Held'
  BY <1>1, <1>2, <1>3 DEF Held
<1>5. BufferBounded'
  BY <1>1 DEF BufferBounded, Room
<1>. QED
  BY <1>1, <1>4, <1>5

\* Nothing was cut off, and nothing new is handed over.
LEMMA KeepGiven ==
    ASSUME Unmoved, yielded' = yielded, Given, ~CutOff
    PROVE  Given'
<1>1. /\ items' = items /\ cut' = cut /\ dec' = dec /\ N' = N
  BY SameWire
<1>2. Taken' = Taken
  BY DEF Taken
<1>3. ASSUME NEW i \in 1..Taken
      PROVE  ~Refused(items[i]) /\ yielded[i] = T(i) /\ Arrived(i)
  BY DEF Given
<1>4. ASSUME NEW i \in 1..Taken
      PROVE  Refused(items[i])' = Refused(items[i]) /\ T(i)' = T(i) /\ Arrived(i)' = Arrived(i)
  BY <1>1 DEF Refused, T, Arrived, Extent
<1>. QED
  BY <1>1, <1>2, <1>3, <1>4 DEF Given

\* Go and Java at the opening bracket.
LEMMA PullOpenStep ==
    ASSUME ArraysInv, PullOpen
    PROVE  ArraysInv'
<1>1. /\ Unmoved /\ Laid /\ Held /\ BufferBounded /\ dec \in PullPorts
      /\ dpc = "start" /\ AtStart /\ ~Splittable /\ Given
  <2>1. /\ Unmoved /\ Laid /\ Held /\ BufferBounded /\ dec \in PullPorts
        /\ dpc = "start" /\ AtStart
    BY DEF PullOpen, Unmoved, ArraysInv
  <2>2. ~Splittable
    BY <2>1, WhoSplits DEF PullPorts
  <2>. QED
    BY <2>1, <2>2 DEF ArraysInv
<1>2. /\ buf' = buf /\ pos' = pos /\ elemStart' = elemStart /\ lex' = lex
      /\ yielded' = yielded /\ yielded = <<>> /\ read = 0
      /\ yielded \in Seq(Seq(Symbol)) /\ outcome = "none"
  BY <1>1 DEF PullOpen, AtStart, Held
<1>3. CASE Rest # <<>> /\ Rest[1] = "["
  <2>1. dpc' = "scan" /\ read' = 1 /\ outcome' = outcome
    BY <1>2, <1>3 DEF PullOpen
  <2>2. read' \in 0..cut
    <3>1. read < cut /\ cut \in Nat
      BY <1>1, <1>3, RestFacts, HeldFacts
    <3>2. 1 \in 0..cut
      BY ONLY <1>2, <3>1
    <3>. QED
      BY <2>1, <3>2
  <2>3. /\ Laid' /\ Held' /\ BufferBounded' /\ dec' = dec /\ items' = items
        /\ Splittable' = Splittable
    BY <1>1, <1>2, <2>1, <2>2, PullHeld
  <2>4. ~CutOff
    BY <1>2 DEF CutOff, Taken
  <2>5. Given'
    BY <1>1, <1>2, <2>4, KeepGiven
  <2>6. PullAt'
    <3>1. Taken' = 0 /\ Extent(0) = 1 /\ Extent(0)' = Extent(0)
      BY <1>1, <1>2, <2>3, PlaceFacts DEF Taken, Extent
    <3>. QED
      BY <2>1, <3>1 DEF PullAt
  <2>7. dec' \notin ScanPorts /\ dec' \notin Parsers
    BY <1>1, <2>3 DEF PullPorts, ScanPorts, Parsers
  <2>. QED
    BY <2>1, <2>3, <2>5, <2>6, <2>7 DEF ArraysInv
<1>4. CASE ~(Rest # <<>> /\ Rest[1] = "[")
  <2>1. dpc' = "done" /\ outcome' = "failed" /\ read' = read
    BY <1>4 DEF PullOpen, Stop
  <2>2. cut = 0
    <3>1. wire[1] = "["
      BY <1>1 DEF Laid
    <3>2. Rest = <<>>
      <4>1. Rest # <<>> => Rest[1] = wire[0 + 1]
        BY <1>1, <1>2, RestFacts
      <4>2. 0 + 1 = 1
        OBVIOUS
      <4>. QED
        BY <1>4, <3>1, <4>1, <4>2
    <3>3. ~(read < cut) /\ cut \in Nat
      BY <1>1, <3>2, RestFacts, HeldFacts
    <3>. QED
      BY ONLY <1>2, <3>3
  <2>3. Judged'
    BY <1>1, <1>2, <2>1, <2>2, NothingArrived
  <2>. QED
    BY <1>1, <1>2, <2>1, <2>3, EndStep
<1>. QED
  BY <1>3, <1>4

\* Go and Java take a value; the caller may stop there.
LEMMA PullElementStep ==
    ASSUME ArraysInv, PullElement
    PROVE  ArraysInv'
<1>1. /\ Unmoved /\ Laid /\ Held /\ BufferBounded /\ dec \in PullPorts
      /\ dpc = "scan" /\ PullAt /\ ~Splittable /\ Given
  <2>1. /\ Unmoved /\ Laid /\ Held /\ BufferBounded /\ dec \in PullPorts
        /\ dpc = "scan" /\ PullAt
    BY DEF PullElement, Pulling, Unmoved, ArraysInv
  <2>2. ~Splittable
    BY <2>1, WhoSplits DEF PullPorts
  <2>. QED
    BY <2>1, <2>2 DEF ArraysInv
<1>2. PICK t \in Parsed(NextText) :
          /\ yielded' = Append(yielded, t)
          /\ read' = read + Len(Rest) - Len(NextText) + Len(t)
  BY DEF PullElement, Accept
<1>3. /\ buf' = buf /\ pos' = pos /\ elemStart' = elemStart /\ lex' = lex
      /\ \/ dpc' = dpc /\ outcome' = outcome
         \/ dpc' = "done" /\ outcome' = "stopped"
      /\ Separated \/ yielded = <<>>
  <2>1. \/ UNCHANGED <<dpc, outcome>>
        \/ Stop("stopped")
    BY DEF PullElement
  <2>2. /\ yielded # <<>> => Separated
        /\ buf' = buf /\ pos' = pos /\ elemStart' = elemStart /\ lex' = lex
    BY DEF PullElement
  <2>. QED
    BY <2>1, <2>2 DEF Stop
<1>4. /\ yielded \in Seq(Seq(Symbol)) /\ Taken \in Nat
      /\ yielded = <<>> <=> Taken = 0
  <2>1. yielded \in Seq(Seq(Symbol))
    BY <1>1 DEF Held
  <2>. QED
    BY <2>1, EmptySeq, LenProperties DEF Taken
<1>5. ~CutOff
  <2>. SUFFICES ASSUME CutOff PROVE FALSE
    OBVIOUS
  <2>1. read = cut /\ Taken # 0 /\ cut \in Nat
    BY <1>1, <1>4, HeldFacts DEF CutOff
  <2>2. Rest # <<>>
    BY <1>3, <1>4, <2>1 DEF Separated
  <2>3. read < cut
    BY <1>1, <2>2, RestFacts
  <2>. QED
    BY ONLY <2>1, <2>3
<1>6. read = Extent(Taken)
  BY <1>1, <1>5 DEF PullAt
<1>7. /\ Here \in 1..N /\ t \in Seq(Symbol) /\ ~Refused(items[Here])
      /\ Slot(Here) + Len(t) \in 0..cut
      /\ \/ t = T(Here) /\ Slot(Here) + Len(t) = Extent(Here)
         \/ /\ items[Here] \in Numbers /\ Len(t) > 0 /\ Len(t) < Len(T(Here))
            /\ \A j \in 1..Len(t) : t[j] = T(Here)[j]
            /\ Slot(Here) + Len(t) = cut /\ cut < Extent(Here)
  BY <1>1, <1>3, <1>6, PullPlace
<1>8. read' = Slot(Here) + Len(t)
  <2>. DEFINE s == Slot(Here)
              r == Len(Rest)
              x == Len(NextText)
              l == Len(t)
  <2>1. s = (read + r) - x /\ read \in Nat /\ r \in Nat /\ x \in Nat
    BY <1>1, <1>3, <1>6, PullNext, RestFacts, HeldFacts
  <2>2. l \in Nat
    BY <1>7, LenProperties
  <2>. HIDE DEF s, r, x, l
  <2>3. read + r - x + l = s + l
    BY ONLY <2>1, <2>2
  <2>. QED
    BY <1>2, <2>3, Zenon DEF s, r, x, l
<1>9. /\ yielded' \in Seq(Seq(Symbol)) /\ Taken' = Here /\ Here = Taken + 1
      /\ \A i \in 1..Taken : yielded'[i] = yielded[i]
      /\ yielded'[Here] = t
  BY <1>2, <1>4, <1>7, AppendProperties DEF Taken, Here
<1>10. /\ Laid' /\ Held' /\ BufferBounded' /\ dec' = dec /\ cut' = cut
       /\ items' = items /\ N' = N /\ wire' = wire /\ Splittable' = Splittable
  <2>1. /\ dpc' \in {"start", "scan", "done"}
        /\ outcome' \in {"none", "complete", "failed", "stopped"}
        /\ outcome' = "none" <=> dpc' # "done"
    BY <1>1, <1>3 DEF Held
  <2>2. read' \in 0..cut
    BY <1>7, <1>8
  <2>. QED
    BY <1>1, <1>3, <1>9, <2>1, <2>2, PullHeld
<1>11. Given' /\ PullAt'
  <2>1. CASE t = T(Here) /\ Slot(Here) + Len(t) = Extent(Here)
    <3>1. Here <= N /\ Arrived(Here)
      <4>1. Extent(Here) \in 0..cut /\ cut \in Nat /\ Here \in 1..N /\ N \in Nat
        BY <1>1, <1>7, <2>1, PlaceFacts
      <4>2. Extent(Here) + 0 <= cut
        <5>. DEFINE x == Extent(Here)
        <5>1. x \in 0..cut /\ cut \in Nat
          BY <4>1
        <5>. HIDE DEF x
        <5>2. x + 0 <= cut
          BY ONLY <5>1
        <5>. QED
          BY <5>2 DEF x
      <4>3. dec \notin ScanPorts
        BY <1>1 DEF PullPorts, ScanPorts
      <4>. QED
        BY <4>1, <4>2, <4>3 DEF Arrived
    <3>2. Given'
      BY <1>1, <1>2, <1>4, <1>5, <1>7, <2>1, <3>1, MoreGiven
    <3>3. read' = Extent(Taken')
      BY <1>8, <1>9, <2>1
    <3>4. Extent(Taken)' = Extent(Taken')
      BY <1>10 DEF Extent
    <3>. QED
      BY <3>2, <3>3, <3>4 DEF PullAt
  <2>2. CASE /\ items[Here] \in Numbers /\ Len(t) > 0 /\ Len(t) < Len(T(Here))
             /\ \A j \in 1..Len(t) : t[j] = T(Here)[j]
             /\ Slot(Here) + Len(t) = cut /\ cut < Extent(Here)
    <3>1. Truncated
      <4>. DEFINE x == Extent(Here)
                  w == Len(wire)
      <4>1. Here \in 0..N
        BY <1>7
      <4>2. cut < x /\ x <= w /\ x \in Nat /\ w \in Nat /\ cut \in Nat
        BY <1>1, <2>2, <4>1, PlaceFacts
      <4>. HIDE DEF x, w
      <4>3. cut < w
        BY ONLY <4>2
      <4>. QED
        BY <4>3 DEF w, Truncated
    <3>2. T(Here)' = T(Here') /\ Extent(Taken)' = Extent(Taken') /\ T(Taken)' = T(Taken')
          /\ Truncated' = Truncated
      BY <1>10 DEF T, Extent, Truncated
    <3>3. CutOff'
      <4>1. Here > 0
        BY <1>7
      <4>. QED
        BY <1>1, <1>8, <1>9, <1>10, <2>2, <3>1, <3>2, <4>1 DEF CutOff
    <3>4. ASSUME NEW i \in 1..Here
          PROVE  /\ ~Refused(items[i])
                 /\ i = Here \/ (yielded'[i] = T(i) /\ Arrived(i))
      <4>1. i = Here \/ i \in 1..Taken
        BY <1>4, <1>9
      <4>2. i \in 1..Taken => ~Refused(items[i]) /\ yielded[i] = T(i) /\ Arrived(i)
        BY <1>1, <1>5 DEF Given
      <4>. QED
        BY <1>7, <1>9, <4>1, <4>2
    <3>5. ASSUME NEW i \in 1..Here
          PROVE  /\ Refused(items[i])' = Refused(items[i]) /\ T(i)' = T(i)
                 /\ Arrived(i)' = Arrived(i)
      BY <1>10 DEF Refused, T, Arrived, Extent
    <3>6. Here <= N
      BY <1>7
    <3>7. Given'
      BY <1>9, <1>10, <3>3, <3>4, <3>5, <3>6 DEF Given
    <3>. QED
      BY <3>3, <3>7 DEF PullAt
  <2>. QED
    BY <1>7, <2>1, <2>2
<1>12. dec' \notin ScanPorts /\ dec' \notin Parsers
  BY <1>1, <1>10 DEF PullPorts, ScanPorts, Parsers
<1>13. CASE dpc' = dpc /\ outcome' = outcome
  BY <1>1, <1>10, <1>11, <1>12, <1>13 DEF ArraysInv
<1>14. CASE dpc' = "done" /\ outcome' = "stopped"
  <2>1. Judged'
    BY <1>14 DEF Judged
  <2>. QED
    BY <1>10, <1>11, <1>14, <2>1 DEF ArraysInv
<1>. QED
  BY <1>3, <1>13, <1>14

\* What ends a value behind the last one handed over.
LEMMA PullEnd ==
    ASSUME Laid, Held, Given, read = Extent(Taken), Rest # <<>>, Ends(Rest[1])
    PROVE  /\ Taken \in 0..N /\ (Taken > 0 \/ N = 0)
           /\ Extent(Taken) < Len(wire) /\ Rest[1] = wire[Extent(Taken) + 1]
<1>1. /\ Taken \in 0..N /\ Taken \in Nat /\ N \in Nat
  BY HereFacts, PlaceFacts
<1>2. read < cut /\ Rest[1] = wire[Extent(Taken) + 1] /\ cut <= Len(wire)
      /\ read \in Nat /\ cut \in Nat /\ Len(wire) \in Nat
  BY RestFacts, HeldFacts, PlaceFacts
<1>3. Extent(Taken) < Len(wire)
  BY <1>2
<1>4. ASSUME ~(Taken > 0), N # 0 PROVE FALSE
  <2>1. Taken = 0 /\ 0 \in 0..N /\ 0 < N /\ 1 \in 1..N
    BY <1>1, <1>4
  <2>2. Slot(0 + 1) = 1 /\ Extent(0) = 1
    BY <2>1, PlaceFacts
  <2>3. 0 + 1 = 1
    OBVIOUS
  <2>4. 1 \in 1..Len(T(1)) /\ items[1] \in Element
    <3>1. Len(T(1)) \in Nat \ {0} /\ items[1] \in Element
      BY <2>1, PlaceFacts
    <3>. QED
      BY <3>1
  <2>5. wire[Slot(1) + 1] = T(1)[1]
    BY <2>1, <2>4 DEF Laid
  <2>6. ~Ends(T(1)[1])
    BY <2>4, FirstOf DEF T
  <2>. QED
    BY <1>2, <2>1, <2>2, <2>3, <2>5, <2>6
<1>. QED
  BY <1>1, <1>2, <1>3, <1>4

\* Go and Java at the closing bracket.
LEMMA PullCloseStep ==
    ASSUME ArraysInv, PullClose
    PROVE  ArraysInv'
<1>1. /\ Unmoved /\ Laid /\ Held /\ BufferBounded /\ dec \in PullPorts
      /\ dpc = "scan" /\ PullAt /\ ~Splittable /\ Given
  <2>1. /\ Unmoved /\ Laid /\ Held /\ BufferBounded /\ dec \in PullPorts
        /\ dpc = "scan" /\ PullAt
    BY DEF PullClose, Pulling, Unmoved, ArraysInv
  <2>2. ~Splittable
    BY <2>1, WhoSplits DEF PullPorts
  <2>. QED
    BY <2>1, <2>2 DEF ArraysInv
<1>2. /\ buf' = buf /\ pos' = pos /\ elemStart' = elemStart /\ lex' = lex
      /\ yielded' = yielded /\ dpc' = "done" /\ outcome' = "complete"
      /\ read' = read + 1
      /\ yielded \in Seq(Seq(Symbol))
  BY <1>1 DEF PullClose, Stop, Held
<1>3. Rest # <<>> /\ Ends(Rest[1]) /\ Rest[1] = "]"
  BY DEF PullClose, Ends
<1>4. read < cut /\ cut <= Len(wire) /\ read \in Nat /\ cut \in Nat /\ Len(wire) \in Nat
  BY <1>1, <1>3, RestFacts, HeldFacts, PlaceFacts
<1>5. ~CutOff
  BY <1>4 DEF CutOff
<1>6. read = Extent(Taken)
  BY <1>1, <1>5 DEF PullAt
<1>7. /\ Taken \in 0..N /\ (Taken > 0 \/ N = 0)
      /\ Extent(Taken) < Len(wire) /\ wire[Extent(Taken) + 1] = "]"
  BY <1>1, <1>3, <1>6, PullEnd
<1>8. Taken = N /\ Closed /\ Len(wire) = Extent(Taken) + 1
  <2>1. "," # "]"
    OBVIOUS
  <2>. QED
    BY <1>1, <1>7, <2>1, BehindValue
<1>9. read' \in 0..cut /\ cut = Len(wire)
  <2>. DEFINE w == Len(wire)
  <2>1. w = read + 1
    <3>1. w = Extent(Taken) + 1
      BY <1>8
    <3>. QED
      BY <1>6, <3>1, Zenon
  <2>2. read < cut /\ cut <= w /\ read \in Nat /\ cut \in Nat /\ w = read + 1
    BY <1>4, <2>1
  <2>. HIDE DEF w
  <2>3. read + 1 \in 0..cut /\ cut = w
    BY ONLY <2>2
  <2>. QED
    BY <1>2, <2>3 DEF w
<1>10. /\ Laid' /\ Held' /\ BufferBounded' /\ Splittable' = Splittable
  BY <1>1, <1>2, <1>9, PullHeld
<1>11. Given'
  BY <1>1, <1>2, <1>5, KeepGiven
<1>12. Judged'
  <2>1. Taken' = Taken /\ Here' = Here /\ Here = Taken + 1 /\ N \in Nat
    BY <1>1, <1>2, SameHere, PlaceFacts DEF Here
  <2>2. ~(Here' <= N)
    BY <1>8, <2>1
  <2>3. Accepted = Sent
    BY <1>1, <1>8, AllGiven
  <2>4. ~Truncated
    BY <1>4, <1>9 DEF Truncated
  <2>5. Whole(Taken')
    BY <1>8, <2>3, <2>4 DEF Whole
  <2>. QED
    BY <1>1, <1>2, <2>2, <2>5, NewVerdict
<1>. QED
  BY <1>2, <1>10, <1>11, <1>12 DEF ArraysInv

\* Go and Java where nothing they could take follows.
LEMMA PullFailsStep ==
    ASSUME ArraysInv, PullFails
    PROVE  ArraysInv'
<1>1. /\ Unmoved /\ Laid /\ Held /\ dec \in PullPorts /\ dec # "python"
      /\ dpc = "scan" /\ dpc # "done" /\ PullAt /\ ~Splittable /\ Given
  <2>1. /\ Unmoved /\ Laid /\ Held /\ dec \in PullPorts
        /\ dpc = "scan" /\ PullAt
    BY DEF PullFails, Pulling, Unmoved, ArraysInv
  <2>2. ~Splittable /\ dec # "python"
    BY <2>1, WhoSplits DEF PullPorts
  <2>. QED
    BY <2>1, <2>2 DEF ArraysInv
<1>2. /\ read' = read /\ buf' = buf /\ pos' = pos /\ elemStart' = elemStart
      /\ lex' = lex /\ yielded' = yielded /\ dpc' = "done" /\ outcome' = "failed"
  BY DEF PullFails, Stop
<1>3. /\ Taken \in 0..N /\ Taken \in Nat /\ Here = Taken + 1 /\ N \in Nat
      /\ Here <= N => Here \in 1..N
      /\ ~(Here <= N) => Taken = N
      /\ read \in Nat /\ cut \in Nat /\ read <= cut /\ cut <= Len(wire)
      /\ Len(wire) \in Nat
  BY <1>1, HereFacts, HeldFacts, PlaceFacts
<1>4. yielded = <<>> <=> Taken = 0
  <2>1. yielded \in Seq(Seq(Symbol))
    BY <1>1 DEF Held
  <2>. QED
    BY <2>1, EmptySeq DEF Taken
<1>5. Here <= N => /\ Slot(Here) = Extent(Taken) + (IF Taken > 0 THEN 1 ELSE 0)
                   /\ Extent(Here) = Slot(Here) + Len(T(Here))
                   /\ Extent(Here) <= Len(wire) /\ Extent(Here) \in Nat
                   /\ Slot(Here) \in Nat /\ Len(T(Here)) \in Nat \ {0}
                   /\ Extent(Taken) \in Nat
  <2>1. Here <= N => Here \in 0..N
    BY <1>3
  <2>. QED
    BY <1>1, <1>3, <2>1, PlaceFacts
<1>6. ASSUME Here <= N, ~Refused(items[Here]) PROVE ~Arrived(Here)
  <2>. DEFINE x == Extent(Taken)
              y == Extent(Here)
              s == Slot(Here)
              l == Len(T(Here))
              v == Len(NextText)
  <2>1. /\ s = x + (IF Taken > 0 THEN 1 ELSE 0) /\ y = s + l
        /\ y \in Nat /\ s \in Nat /\ l \in Nat \ {0} /\ x \in Nat
        /\ Taken \in Nat /\ cut \in Nat
    BY <1>3, <1>5, <1>6
  <2>2. Arrived(Here) => y <= cut
    <3>1. dec \notin ScanPorts
      BY <1>1 DEF PullPorts, ScanPorts
    <3>2. Arrived(Here) => y + 0 <= cut
      BY <3>1 DEF Arrived
    <3>3. y + 0 = y
      BY <2>1
    <3>. QED
      BY <3>2, <3>3, Zenon
  <2>3. CASE CutOff
    <3>1. cut < x
      BY <2>3 DEF CutOff
    <3>2. ~(y <= cut)
      <4>. HIDE DEF x, y, s, l, v
      <4>. QED
        BY ONLY <2>1, <3>1
    <3>. QED
      BY <2>2, <3>2
  <2>4. CASE ~CutOff
    <3>. SUFFICES ASSUME y <= cut PROVE FALSE
      BY <2>2
    <3>0. y <= cut
      OBVIOUS
    <3>1. read = x
      BY <1>1, <2>4 DEF PullAt
    <3>2. Separated \/ yielded = <<>>
      <4>. SUFFICES ASSUME yielded # <<>> PROVE Separated
        OBVIOUS
      <4>1. Taken # 0
        BY <1>4
      <4>2. read < cut /\ Taken > 0 /\ Taken < N
        <5>1. Taken + 1 <= N /\ Taken \in Nat /\ N \in Nat /\ Taken # 0
          BY <1>3, <1>6, <4>1
        <5>2. Taken > 0 /\ Taken < N
          <6>. DEFINE k == Taken
          <6>1. k + 1 <= N /\ k \in Nat /\ N \in Nat /\ k # 0
            BY <5>1
          <6>. HIDE DEF k
          <6>2. k > 0 /\ k < N
            BY ONLY <6>1
          <6>. QED
            BY <6>2 DEF k
        <5>3. s = x + 1
          BY <2>1, <5>2
        <5>4. read < cut
          <6>. HIDE DEF x, y, s, l, v
          <6>. QED
            BY ONLY <2>1, <3>0, <3>1, <5>3, <1>3
        <5>. QED
          BY <5>2, <5>4
      <4>3. wire[Extent(Taken) + 1] = ","
        BY <1>1, <1>3, <4>2, NextPlace
      <4>4. Rest # <<>> /\ Rest[1] = wire[read + 1]
        BY <1>1, <4>2, RestFacts
      <4>. QED
        BY <3>1, <4>3, <4>4 DEF Separated
    <3>3. /\ Reads(NextText, Slot(Here)) /\ v \in Nat /\ s + v = cut
      BY <1>1, <3>1, <3>2, PullNext
    <3>4. l <= v /\ v > 0
      <4>. HIDE DEF x, y, s, l, v
      <4>. QED
        BY ONLY <2>1, <3>0, <3>3
    <3>5. Parsed(NextText) = {}
      BY <3>2 DEF PullFails
    <3>6. CASE items[Here] \in Numbers
      <4>1. Reads(NextText, Slot(Here) + 0) /\ 0 < Len(T(Here)) /\ 0 \in Nat
        <5>1. Slot(Here) + 0 = Slot(Here) /\ 0 < Len(T(Here))
          BY <2>1
        <5>. QED
          BY <3>3, <5>1
      <4>2. PICK k \in 1..v :
                /\ Parsed(NextText) = {SubSeq(NextText, 1, k)}
                /\ 0 + k <= l /\ (0 + k < l => k = v)
                /\ \A j \in 1..k : NextText[j] = T(Here)[0 + j]
        <5>1. Here \in 1..N /\ Len(NextText) > 0
          BY <1>3, <1>6, <3>4
        <5>. QED
          BY <1>1, <3>6, <4>1, <5>1, DigitsAt, Zenon
      <4>. QED
        BY <3>5, <4>2
    <3>7. CASE items[Here] \notin Numbers
      <4>1. items[Here] \in Parsable(dec)
        BY <1>1, <1>3, <1>6, PlaceFacts DEF Refused, Parsable
      <4>2. T(Here) \in Parsed(NextText)
        BY <1>1, <1>3, <1>6, <3>3, <3>4, <3>7, <4>1, TextAt
      <4>. QED
        BY <3>5, <4>2
    <3>. QED
      BY <3>6, <3>7
  <2>. QED
    BY <2>3, <2>4
<1>7. ASSUME ~Truncated, Closed, Accepted = Sent PROVE FALSE
  <2>1. Len(wire) = Extent(N) + 1 /\ wire[Extent(N) + 1] = "]"
    BY <1>1, <1>7, ClosedAt
  <2>2. cut = Len(wire)
    <3>. DEFINE w == Len(wire)
    <3>1. cut <= w /\ ~(cut < w) /\ cut \in Nat /\ w \in Nat
      BY <1>3, <1>7 DEF Truncated
    <3>. HIDE DEF w
    <3>2. cut = w
      BY ONLY <3>1
    <3>. QED
      BY <3>2 DEF w
  <2>3. CASE Here <= N
    <3>1. ~Refused(items[Here])
      BY <1>1, <1>3, <1>7, <2>3, NotAccepted
    <3>2. ~Arrived(Here)
      BY <1>6, <2>3, <3>1
    <3>3. Extent(Here) + 0 <= cut
      <4>. DEFINE y == Extent(Here)
                  w == Len(wire)
      <4>1. y <= w /\ w = cut /\ y \in Nat /\ cut \in Nat
        BY <1>3, <1>5, <2>2, <2>3
      <4>. HIDE DEF y, w
      <4>2. y + 0 <= cut
        BY ONLY <4>1
      <4>. QED
        BY <4>2 DEF y
    <3>4. dec \notin ScanPorts
      BY <1>1 DEF PullPorts, ScanPorts
    <3>. QED
      BY <3>2, <3>3, <3>4 DEF Arrived
  <2>4. CASE ~(Here <= N)
    <3>1. Taken = N
      BY <1>3, <2>4
    <3>2. ~CutOff
      BY <1>7 DEF CutOff
    <3>3. read = Extent(N)
      BY <1>1, <3>1, <3>2 DEF PullAt
    <3>4. read < cut
      <4>. DEFINE w == Len(wire)
      <4>1. w = read + 1
        BY <2>1, <3>3
      <4>2. w = read + 1 /\ cut = w /\ read \in Nat
        BY <1>3, <2>2, <4>1
      <4>. HIDE DEF w
      <4>. QED
        BY ONLY <4>2
    <3>5. Rest # <<>> /\ Rest[1] = wire[read + 1]
      BY <1>1, <3>4, RestFacts
    <3>6. Rest[1] = "]"
      BY <2>1, <3>3, <3>5, Zenon
    <3>7. ~Separated
      <4>1. "," # "]"
        OBVIOUS
      <4>. QED
        BY <3>6, <4>1 DEF Separated
    <3>. QED
      BY <3>5, <3>6, <3>7 DEF PullFails
  <2>. QED
    BY <2>3, <2>4
<1>8. Judged'
  <2>1. Here' = Here
    BY <1>2, SameHere
  <2>2. ~Whole(Taken')
    BY <1>1, <1>7, WholeScan
  <2>. QED
    BY <1>1, <1>2, <1>6, <2>1, <2>2, NewVerdict
<1>. QED
  BY <1>1, <1>2, <1>8, EndStep

-----------------------------------------------------------------------------
(***************************************************************************)
(* The invariant holds of every behaviour.                                 *)
(***************************************************************************)
LEMMA InitArrays == Init => ArraysInv
<1>. SUFFICES ASSUME Init PROVE ArraysInv
  OBVIOUS
<1>1. Laid
  BY InitLaid
<1>2. /\ dpc = "start" /\ read = 0 /\ buf = <<>> /\ pos = 0 /\ elemStart = 0
      /\ lex = Fresh /\ yielded = <<>> /\ outcome = "none"
  BY DEF Init
<1>3. cut \in Nat /\ N \in Nat /\ ChunkSize \in Nat
  BY <1>1, PlaceFacts, RoomFacts
<1>4. /\ buf \in Seq(Symbol) /\ Len(buf) = 0 /\ \A j \in 1..Len(buf) : FALSE
      /\ yielded \in Seq(Seq(Symbol)) /\ Taken = 0
  BY <1>2, EmptySeq DEF Taken
<1>5. 0 \in 0..cut /\ 0 \in 0..0 /\ 0 <= ChunkSize /\ 0 - 0 = 0
  BY <1>3
<1>6. Fresh \in [depth : Nat, inString : BOOLEAN, escape : BOOLEAN]
  BY DEF Fresh
<1>7. Held
  BY <1>2, <1>4, <1>5, <1>6 DEF Held
<1>8. AtStart
  BY <1>2, <1>4, <1>5 DEF AtStart, Base
<1>9. BufferBounded
  BY <1>1, <1>7, <1>8, StartBound
<1>10. Given
  BY <1>3, <1>4 DEF Given
<1>. QED
  BY <1>1, <1>2, <1>7, <1>8, <1>9, <1>10 DEF ArraysInv

\* Every step keeps it: one lemma above per action.
LEMMA ArraysStep == ArraysInv /\ [Next]_vars => ArraysInv'
<1>. SUFFICES ASSUME ArraysInv, [Next]_vars PROVE ArraysInv'
  OBVIOUS
<1>1. CASE Open
  BY <1>1, OpenStep
<1>2. CASE Refill
  BY <1>2, RefillStep
<1>3. CASE ScanChar
  BY <1>3, ScanCharStep
<1>4. CASE Separator
  BY <1>4, SeparatorStep
<1>5. CASE CloseArray
  BY <1>5, CloseArrayStep
<1>6. CASE ScanCut
  BY <1>6, ScanCutStep
<1>7. CASE SkipComma
  BY <1>7, SkipCommaStep
<1>8. CASE ParseClose
  BY <1>8, ParseCloseStep
<1>9. CASE RawDecode
  BY <1>9, RawDecodeStep
<1>10. CASE Fill
  BY <1>10, FillStep
<1>11. CASE FillFails
  BY <1>11, FillFailsStep
<1>12. CASE PullOpen
  BY <1>12, PullOpenStep
<1>13. CASE PullElement
  BY <1>13, PullElementStep
<1>14. CASE PullClose
  BY <1>14, PullCloseStep
<1>15. CASE PullFails
  BY <1>15, PullFailsStep
<1>16. CASE UNCHANGED vars
  <2>1. /\ Unmoved /\ dpc' = dpc /\ read' = read /\ buf' = buf /\ pos' = pos
        /\ elemStart' = elemStart /\ lex' = lex /\ yielded' = yielded
        /\ outcome' = outcome
    BY <1>16 DEF vars, decVars, Unmoved
  <2>2. /\ enc' = enc /\ items' = items /\ ending' = ending /\ wire' = wire
        /\ cut' = cut /\ dec' = dec /\ N' = N /\ Laid' = Laid
        /\ Splittable' = Splittable /\ Truncated' = Truncated /\ Closed' = Closed
        /\ Dangling' = Dangling /\ Accepted' = Accepted /\ Sent' = Sent
    BY <2>1, SameWire
  <2>3. /\ Base' = Base /\ Taken' = Taken /\ Here' = Here /\ Passed' = Passed
        /\ Cursor' = Cursor
    BY <2>1 DEF Base, Taken, Here, Passed, Cursor
  <2>4. Held' = Held /\ AtStart' = AtStart /\ BufferBounded' = BufferBounded
    BY <2>1, <2>2, <2>3 DEF Held, AtStart, BufferBounded, Room
  <2>5. CutOff' = CutOff
    BY <2>1, <2>2, <2>3 DEF CutOff, T, Extent
  <2>6. Given' = Given /\ PullAt' = PullAt
    BY <2>1, <2>2, <2>3, <2>5 DEF Given, PullAt, T, Extent, Refused, Arrived
  <2>7. ScanAt' = ScanAt /\ ParseAt' = ParseAt
    BY <2>1, <2>2, <2>3
       DEF ScanAt, ParseAt, BehindComma, Room, Slot, Extent, T, Between, Inside
  <2>8. Judged' = Judged
    BY <2>1, <2>2, <2>3 DEF Judged, Refused, Arrived, Whole, Extent
  <2>. QED
    BY <2>1, <2>2, <2>4, <2>6, <2>7, <2>8 DEF ArraysInv
<1>. QED
  BY <1>1, <1>2, <1>3, <1>4, <1>5, <1>6, <1>7, <1>8, <1>9, <1>10, <1>11, <1>12,
     <1>13, <1>14, <1>15, <1>16 DEF Next

\* The decoder stands where the values it has handed over end, whatever was
\* written, however it was read and wherever it was cut.
THEOREM ArraysSafe == Spec => []ArraysInv
<1>1. Init => ArraysInv
  BY InitArrays
<1>2. ArraysInv /\ [Next]_vars => ArraysInv'
  BY ArraysStep
<1>. QED
  BY <1>1, <1>2, PTL DEF Spec

-----------------------------------------------------------------------------
(***************************************************************************)
(* What follows from it.                                                   *)
(***************************************************************************)
\* The type invariant.
THEOREM ArraysTypeOK == Spec => []TypeOK
<1>1. ArraysInv => TypeOK
  <2>. SUFFICES ASSUME ArraysInv PROVE TypeOK
    OBVIOUS
  <2>1. Laid /\ Held
    BY DEF ArraysInv
  <2>2. Len(Input) = cut
    BY <2>1, InputFacts
  <2>3. /\ enc \in Encoders /\ items \in Seq(Element) /\ cut \in 0..Len(wire)
        /\ dec \in Decoders
    BY <2>1 DEF Laid
  <2>. QED
    BY <2>1, <2>2, <2>3 DEF TypeOK, Held
<1>. QED
  BY <1>1, ArraysSafe, PTL

\* What a decoder holds does not grow with the array.
THEOREM ArraysBounded == Spec => []BufferBounded
<1>1. ArraysInv => BufferBounded
  BY DEF ArraysInv
<1>. QED
  BY <1>1, ArraysSafe, PTL

\* The first digits of a number the cut went through.
LEMMA CutIsNumber ==
    ASSUME Laid, Held, CutOff, Given
    PROVE  CutNumber(Taken)
<1>1. /\ Taken \in 0..N /\ Taken > 0
  BY HereFacts DEF CutOff
<1>2. Taken \in 1..N /\ N \in Nat
  BY <1>1, PlaceFacts
<1>. DEFINE y == yielded[Taken]
            t == T(Taken)
<1>3. /\ y \in Seq(Symbol) /\ Len(y) \in Nat /\ t \in Seq(Symbol)
  <2>1. yielded \in Seq(Seq(Symbol)) /\ Taken \in 1..Len(yielded)
    BY <1>1, <1>2 DEF Held, Taken
  <2>2. y \in Seq(Symbol)
    BY <2>1, ElementOfSeq
  <2>. QED
    BY <1>2, <2>2, PlaceFacts, LenProperties
<1>4. /\ Len(y) < Len(t) /\ Len(t) \in Nat /\ \A j \in 1..Len(y) : y[j] = t[j]
  BY <1>2, PlaceFacts DEF CutOff
<1>5. \A j \in 1..Len(t) : t[j] \in Digit
  <2>1. \A j \in DOMAIN t : t[j] \in Digit
    BY DEF CutOff, Numbers, T
  <2>2. DOMAIN t = 1..Len(t)
    BY <1>3, LenProperties
  <2>. QED
    BY <2>1, <2>2
<1>6. Sent[Taken] = t
  BY <1>2, SentFacts
<1>. HIDE DEF y, t
<1>7. \A j \in 1..Len(y) : y[j] \in Digit
  <2>. TAKE j \in 1..Len(y)
  <2>1. j \in 1..Len(t)
    BY <1>3, <1>4
  <2>. QED
    BY <1>4, <1>5, <2>1
<1>8. IsNumber(y)
  <2>1. Len(y) \in 0..Len(y) /\ ~(Len(y) < Len(y))
    BY <1>3
  <2>2. DigitRun(y) = Len(y)
    BY <1>3, <1>7, <2>1, DigitRunIs
  <2>. QED
    BY <2>2 DEF IsNumber
<1>9. IsPrefix(y, t)
  <2>1. Len(y) <= Len(t) /\ \A j \in 1..Len(y) : t[j] = y[j]
    BY <1>3, <1>4
  <2>. QED
    BY <1>3, <2>1, PrefixOf
<1>10. Truncated /\ dec \notin ScanPorts
  BY DEF CutOff, PullPorts, ScanPorts
<1>. QED
  BY <1>6, <1>8, <1>9, <1>10 DEF CutNumber, y, t, Taken

\* What the caller is handed are the values written, in order.
THEOREM ArraysFaithful == Spec => []Faithful
<1>1. ArraysInv => Faithful
  <2>. SUFFICES ASSUME ArraysInv, ~Splittable
                PROVE  /\ Len(yielded) <= Len(items)
                       /\ \A i \in DOMAIN yielded : yielded[i] = Sent[i] \/ CutNumber(i)
    BY DEF Faithful
  <2>1. Laid /\ Held /\ Given
    BY DEF ArraysInv
  <2>2. DOMAIN yielded = 1..Taken
    <3>1. yielded \in Seq(Seq(Symbol))
      BY <2>1 DEF Held
    <3>. QED
      BY <3>1, LenProperties DEF Taken
  <2>3. Taken <= N /\ Taken \in 0..N /\ N \in Nat
    BY <2>1, HereFacts, PlaceFacts DEF Given
  <2>4. ASSUME NEW i \in 1..Taken PROVE yielded[i] = Sent[i] \/ CutNumber(i)
    <3>1. yielded[i] = T(i) \/ (CutOff /\ i = Taken)
      BY <2>1 DEF Given
    <3>2. i \in 1..N
      BY <2>3
    <3>3. Sent[i] = T(i)
      BY <2>1, <3>2, SentFacts
    <3>. QED
      BY <2>1, <3>1, <3>3, CutIsNumber
  <2>. QED
    BY <2>2, <2>3, <2>4 DEF Taken, N
<1>. QED
  BY <1>1, ArraysSafe, PTL

\* On an input that is whole the decoder has handed over all that was written,
\* or comes to a value that is refused.
LEMMA AllArrives ==
    ASSUME Laid, Held, Given, Judged, outcome \in {"complete", "failed"},
           Closed, ~Truncated
    PROVE  /\ \A i \in 1..Taken : yielded[i] = T(i) /\ ~Refused(items[i])
           /\ cut = Len(wire)
           /\ Taken = N \/ (/\ Taken \in 0..N /\ Taken < N /\ Here \in 1..N
                            /\ Refused(items[Here]) /\ Slot(Here) < cut)
<1>1. /\ Taken \in 0..N /\ Taken \in Nat /\ Here = Taken + 1 /\ N \in Nat
      /\ Here <= N => Here \in 1..N
      /\ ~(Here <= N) => Taken = N
      /\ cut \in Nat /\ Len(wire) \in Nat /\ cut <= Len(wire)
  BY HereFacts, PlaceFacts
<1>2. \A i \in 1..Taken : yielded[i] = T(i) /\ ~Refused(items[i])
  BY DEF Given, CutOff
<1>3. cut = Len(wire) /\ Len(wire) = Extent(N) + 1
  <2>1. ~(cut < Len(wire))
    BY DEF Truncated
  <2>2. Len(wire) = Extent(N) + 1
    BY ClosedAt
  <2>3. cut = Len(wire)
    <3>. DEFINE w == Len(wire)
    <3>1. cut \in Nat /\ w \in Nat /\ cut <= w /\ ~(cut < w)
      BY <1>1, <2>1
    <3>. HIDE DEF w
    <3>2. cut = w
      BY ONLY <3>1
    <3>. QED
      BY <3>2 DEF w
  <2>. QED
    BY <2>2, <2>3
<1>4. CASE ~(Here <= N)
  BY <1>1, <1>2, <1>3, <1>4
<1>5. CASE Here <= N
  <2>. DEFINE h == Here
              x == Extent(h)
              s == Slot(h)
              l == Len(T(h))
              e == Extent(N)
              k == Taken
  <2>1. h \in 1..N /\ h \in 0..N /\ h = k + 1 /\ N \in Nat /\ k \in Nat
    BY <1>1, <1>5
  <2>2. /\ x = s + l /\ s \in Nat /\ l \in Nat \ {0} /\ x <= e
        /\ e \in Nat /\ cut = e + 1 /\ x \in Nat
    <3>1. N \in 0..N
      BY <1>1
    <3>. QED
      BY <1>3, <2>1, <3>1, PlaceFacts
  <2>3. x + 0 <= cut /\ x + 1 <= cut /\ s < cut /\ k < N
    <3>. HIDE DEF h, x, s, l, e, k
    <3>. QED
      BY ONLY <2>1, <2>2
  <2>4. Arrived(h)
    BY <2>3 DEF Arrived
  <2>5. outcome # "stopped"
    OBVIOUS
  <2>6. Refused(items[h])
    BY <1>5, <2>4, <2>5 DEF Judged
  <2>. QED
    BY <1>1, <1>2, <1>3, <2>1, <2>3, <2>6
<1>. QED
  BY <1>4, <1>5

\* The outcome of a decoder is written when it is done, by Judged.
LEMMA OutcomeJudged ==
    ASSUME ArraysInv, outcome \in {"complete", "failed"}, ~Splittable
    PROVE  Laid /\ Held /\ Given /\ Judged
<1>1. Laid /\ Held /\ Given
  BY DEF ArraysInv
<1>2. dpc = "done"
  BY <1>1 DEF Held
<1>. QED
  BY <1>1, <1>2 DEF ArraysInv

\* What was handed over, where the values of the whole array were.
LEMMA HandedAll ==
    ASSUME Laid, Held, Taken = N, \A i \in 1..Taken : yielded[i] = T(i)
    PROVE  yielded = Sent
<1>1. /\ yielded \in Seq(Seq(Symbol)) /\ Sent \in Seq(Seq(Symbol))
      /\ Len(yielded) = N /\ Len(Sent) = N
      /\ \A i \in 1..N : Sent[i] = T(i)
  BY SentFacts DEF Held, Taken
<1>2. \A i \in 1..Len(yielded) : yielded[i] = Sent[i]
  BY <1>1
<1>. QED
  BY <1>1, <1>2, SeqEqual

\* A normal end means that everything was handed over and nothing is missing.
THEOREM ArraysComplete == Spec => []CompleteMeansWhole
<1>1. ArraysInv => CompleteMeansWhole
  <2>. SUFFICES ASSUME ArraysInv, outcome = "complete", dec # "python", enc # "java"
                PROVE  ending = "returned" /\ ~Truncated /\ yielded = Sent
    BY DEF CompleteMeansWhole
  <2>1. Laid /\ Held /\ Given /\ Judged
    BY WhoSplits, OutcomeJudged
  <2>2. Whole(Taken)
    BY <2>1 DEF Judged
  <2>3. ~Truncated /\ Closed /\ Accepted = Sent
    BY <2>2 DEF Whole
  <2>4. ending = "returned"
    BY <2>3 DEF Closed, AutoCloses
  <2>5. /\ \A i \in 1..Taken : yielded[i] = T(i)
        /\ Taken = N \/ (Here \in 1..N /\ Refused(items[Here]))
    BY <2>1, <2>3, AllArrives
  <2>6. Taken = N
    BY <2>1, <2>3, <2>5, NotAccepted
  <2>. QED
    BY <2>1, <2>3, <2>4, <2>5, <2>6, HandedAll
<1>. QED
  BY <1>1, ArraysSafe, PTL

\* An array that arrives whole is decoded up to the first value that is
\* refused, and the outcome says whether there is one.
THEOREM ArraysIntact == Spec => []IntactDecodes
<1>1. ArraysInv => IntactDecodes
  <2>. SUFFICES ASSUME ArraysInv, Intact, outcome \in {"complete", "failed"},
                       ~Splittable
                PROVE  /\ yielded = Accepted
                       /\ outcome = IF Accepted = Sent THEN "complete" ELSE "failed"
    BY DEF IntactDecodes
  <2>1. Laid /\ Held /\ Given /\ Judged
    BY OutcomeJudged
  <2>2. ~Truncated /\ Closed
    BY DEF Intact, Closed
  <2>3. outcome = "complete" <=> Whole(Taken)
    BY <2>1 DEF Judged
  <2>4. /\ \A i \in 1..Taken : yielded[i] = T(i) /\ ~Refused(items[i])
        /\ Taken = N \/ (/\ Taken \in 0..N /\ Taken < N /\ Here \in 1..N
                         /\ Refused(items[Here]) /\ Slot(Here) < cut)
    BY <2>1, <2>2, AllArrives
  <2>5. CASE Taken = N
    <3>1. Accepted = Sent
      BY <2>1, <2>5, AllGiven
    <3>2. Whole(Taken)
      BY <2>2, <3>1 DEF Whole
    <3>3. yielded = Sent
      BY <2>1, <2>4, <2>5, HandedAll
    <3>. QED
      BY <2>3, <3>1, <3>2, <3>3
  <2>6. CASE /\ Taken \in 0..N /\ Taken < N /\ Here \in 1..N
             /\ Refused(items[Here]) /\ Slot(Here) < cut
    <3>1. Taken \in Nat /\ Here = Taken + 1
      BY <2>1, HereFacts
    <3>2. Accepted = SubSeq(Sent, 1, Taken) /\ Accepted # Sent
      BY <2>1, <2>4, <2>6, <3>1, SomeAccepted
    <3>3. ~Whole(Taken)
      BY <2>1, <2>6, <3>1, <3>2, PyNotWhole DEF Whole
    <3>4. yielded = Accepted
      <4>1. /\ Sent \in Seq(Seq(Symbol)) /\ Len(Sent) = N
            /\ \A i \in 1..N : Sent[i] = T(i)
        BY <2>1, SentFacts
      <4>2. yielded \in Seq(Seq(Symbol)) /\ Len(yielded) = Taken /\ N \in Nat
        BY <2>1, PlaceFacts DEF Held, Taken
      <4>3. Taken \in 0..Len(Sent)
        BY <2>6, <4>1
      <4>4. /\ Accepted \in Seq(Seq(Symbol)) /\ Len(Accepted) = Taken
            /\ \A i \in 1..Taken : Accepted[i] = Sent[i]
        BY <3>2, <4>1, <4>3, FirstPart
      <4>5. \A i \in 1..Len(yielded) : yielded[i] = Accepted[i]
        <5>. TAKE i \in 1..Len(yielded)
        <5>1. i \in 1..Taken /\ i \in 1..N
          BY <2>6, <4>2
        <5>. QED
          BY <2>4, <4>1, <4>4, <5>1
      <4>. QED
        BY <4>2, <4>4, <4>5, SeqEqual
    <3>. QED
      BY <2>3, <3>2, <3>3, <3>4
  <2>. QED
    BY <2>4, <2>5, <2>6
<1>. QED
  BY <1>1, ArraysSafe, PTL

-----------------------------------------------------------------------------
(***************************************************************************)
(* The promise of ArrayDelivery, where every number has one digit.         *)
(***************************************************************************)
\* What arrives: the values up to the first that is refused or has not come.
Measured ==
    /\ arrived \in 0..N
    /\ \A i \in 1..arrived : ~Refused(items[i]) /\ Arrived(i)
    /\ arrived < N => Refused(items[arrived + 1]) \/ ~Arrived(arrived + 1)
    /\ whole = Whole(arrived)

\* One such number is the greatest of those Init takes it from.
LEMMA FrontierIs ==
    ASSUME Laid, NEW k \in 0..N, \A i \in 1..k : ~Refused(items[i]) /\ Arrived(i),
           k < N => Refused(items[k + 1]) \/ ~Arrived(k + 1)
    PROVE  Max({0} \cup {n \in 1..Len(Accepted) : Arrived(n)}) = k
<1>. DEFINE A == Len(Accepted)
            S == {0} \cup {n \in 1..A : Arrived(n)}
<1>1. N \in Nat /\ k \in Nat /\ k <= N
  BY PlaceFacts
<1>2. Sent \in Seq(Seq(Symbol)) /\ Len(Sent) = N
  BY SentFacts
<1>3. /\ A \in Nat /\ k <= A /\ A <= N
      /\ k < N /\ Refused(items[k + 1]) => A = k
  <2>1. CASE \A i \in 1..N : ~Refused(items[i])
    <3>1. A = N
      BY <1>2, <2>1, AllAccepted
    <3>2. k < N => k + 1 \in 1..N
      BY <1>1
    <3>. QED
      BY <1>1, <2>1, <3>1, <3>2
  <2>2. CASE ~(\A i \in 1..N : ~Refused(items[i]))
    <3>. DEFINE B == {i \in 1..N : Refused(items[i])}
    <3>1. B \in SUBSET Nat /\ B # {}
      BY <2>2
    <3>2. PICK m \in B : \A i \in B : m <= i
      BY <3>1, LeastOf
    <3>. DEFINE n == m - 1
    <3>3. m \in 1..N /\ n \in Nat /\ n < N /\ n + 1 = m /\ n \in 0..N
      BY <1>1, <3>2
    <3>4. \A i \in 1..n : ~Refused(items[i])
      <4>. TAKE i \in 1..n
      <4>1. i \in 1..N /\ ~(m <= i)
        BY <1>1, <3>3
      <4>. QED
        BY <3>2, <4>1
    <3>5. Refused(items[n + 1])
      BY <3>2, <3>3
    <3>. HIDE DEF n
    <3>6. Accepted = SubSeq(Sent, 1, n)
      BY <3>3, <3>4, <3>5, SomeAccepted
    <3>7. A = n
      BY <1>2, <3>3, <3>6, FirstPart
    <3>8. k <= n
      <4>. SUFFICES ASSUME ~(k <= n) PROVE FALSE
        OBVIOUS
      <4>1. n + 1 \in 1..k
        BY <1>1, <3>3
      <4>. QED
        BY <3>5, <4>1
    <3>9. ASSUME k < N, Refused(items[k + 1]), n # k PROVE FALSE
      <4>1. k + 1 \in 1..n
        BY <1>1, <3>3, <3>8, <3>9
      <4>. QED
        BY <3>4, <3>9, <4>1
    <3>. QED
      BY <1>1, <3>3, <3>7, <3>8, <3>9
  <2>. QED
    BY <2>1, <2>2
<1>. HIDE DEF A
<1>4. S \in SUBSET Int /\ k \in S
  <2>1. k = 0 \/ (k \in 1..A /\ k \in 1..k)
    BY <1>1, <1>3
  <2>. QED
    BY <1>3, <2>1
<1>5. ASSUME NEW y \in S PROVE y <= k
  <2>. SUFFICES ASSUME ~(y <= k) PROVE FALSE
    OBVIOUS
  <2>1. y \in 1..A /\ Arrived(y) /\ y \in Nat
    BY <1>1, <1>3
  <2>2. k < N /\ k + 1 \in 1..N /\ k + 1 <= y /\ y \in 1..N
    BY <1>1, <1>3, <2>1
  <2>3. ~Refused(items[k + 1])
    BY <1>1, <1>3, <2>1, <2>2
  <2>4. ~Arrived(k + 1)
    BY <2>2, <2>3
  <2>5. Extent(k + 1) <= Extent(y) /\ Extent(k + 1) \in Nat /\ Extent(y) \in Nat
    <3>1. items \in Seq(Element)
      BY DEF Laid
    <3>2. k + 1 \in 0..N /\ y \in (k + 1)..N
      BY <1>1, <2>1, <2>2
    <3>. QED
      BY <3>1, <3>2, ExtentFacts
  <2>6. cut \in Nat
    BY PlaceFacts
  <2>. DEFINE a == Extent(k + 1)
              b == Extent(y)
              c == IF dec \in ScanPorts THEN 1 ELSE 0
  <2>7. ~(a + c <= cut) /\ b + c <= cut
    BY <2>1, <2>4 DEF Arrived
  <2>8. a <= b /\ a \in Nat /\ b \in Nat /\ c \in Nat
    BY <2>5
  <2>. HIDE DEF a, b, c
  <2>. QED
    BY ONLY <2>6, <2>7, <2>8
<1>. HIDE DEF S
<1>6. Max(S) = k
  BY <1>4, <1>5, MaxIs
<1>. QED
  BY <1>6 DEF S, A

\* Init sets arrived and whole to what was written and what is cut off.
LEMMA InitMeasured == Init => Measured
<1>. SUFFICES ASSUME Init PROVE Measured
  OBVIOUS
<1>1. Laid /\ N \in Nat
  BY InitLaid, PlaceFacts
<1>. DEFINE B == {n \in 0..N : n < N => Refused(items[n + 1]) \/ ~Arrived(n + 1)}
<1>2. PICK k \in B : \A n \in B : k <= n
  <2>1. N \in B /\ B \in SUBSET Nat
    BY <1>1
  <2>. HIDE DEF B
  <2>. QED
    BY <2>1, LeastOf
<1>3. k \in 0..N /\ k \in Nat /\ (k < N => Refused(items[k + 1]) \/ ~Arrived(k + 1))
  BY <1>1, <1>2
<1>4. ASSUME NEW i \in 1..k PROVE ~Refused(items[i]) /\ Arrived(i)
  <2>. DEFINE n == i - 1
  <2>1. n \in 0..N /\ n < N /\ n + 1 = i /\ ~(k <= n)
    BY <1>1, <1>3
  <2>2. n \notin B
    BY <1>2, <2>1
  <2>. QED
    BY <2>1, <2>2
<1>. HIDE DEF B
<1>5. arrived = k
  BY <1>1, <1>3, <1>4, FrontierIs DEF Init
<1>. QED
  BY <1>3, <1>4, <1>5 DEF Init, Measured

\* No step changes them.
LEMMA SameMeasure == Measured /\ [Next]_vars => Measured'
<1>. SUFFICES ASSUME Measured, [Next]_vars PROVE Measured'
  OBVIOUS
<1>1. Unmoved
  BY Fixed
<1>2. /\ items' = items /\ cut' = cut /\ dec' = dec /\ arrived' = arrived
      /\ whole' = whole /\ N' = N /\ Truncated' = Truncated /\ Closed' = Closed
      /\ Accepted' = Accepted /\ Sent' = Sent
  BY <1>1, SameWire
<1>. QED
  BY <1>2 DEF Measured, Refused, Arrived, Whole, Extent

\* The caller has been handed no more than arrived; a normal end comes after
\* all that arrived, where the input may end, and an error where it may not.
Told ==
    /\ arrived \in Nat /\ Taken \in 0..arrived /\ whole \in BOOLEAN
    /\ outcome = "complete" => whole  /\ Taken = arrived
    /\ outcome = "failed"   => ~whole /\ Taken = arrived

OneDigitEach == \A e \in Numbers : Len(Text[e]) = 1

\* No read splits a number of one digit.
LEMMA NothingSplits ==
    ASSUME OneDigitEach, Laid, Held
    PROVE  ~Splittable /\ ~CutOff
<1>1. ASSUME Splittable PROVE FALSE
  <2>1. PICK t \in Range(Sent) : Len(t) > 1 /\ IsNumber(t)
    BY <1>1 DEF Splittable
  <2>2. PICK i \in 1..N : t = T(i)
    <3>1. DOMAIN Sent = 1..N
      BY SentFacts, LenProperties
    <3>. QED
      BY <2>1, <3>1, SentFacts DEF Range
  <2>3. /\ t \in Seq(Symbol) /\ items[i] \in Element /\ Len(t) \in Nat
        /\ t = Text[items[i]]
    BY <2>2, PlaceFacts DEF T
  <2>4. DigitRun(t) = Len(t)
    BY <2>1 DEF IsNumber
  <2>5. \A j \in DOMAIN t : t[j] \in Digit
    <3>. DEFINE S == {n \in 0..Len(t) : \A j \in 1..n : t[j] \in Digit}
    <3>1. PICK m \in S : \A n \in S : n <= m
      <4>. DEFINE G == {n \in Nat : Len(t) - n \in S}
      <4>1. Len(t) - 0 = Len(t) /\ Len(t) - Len(t) = 0 /\ 0 \in S
        BY <2>3
      <4>2. G \in SUBSET Nat /\ Len(t) \in G
        BY <2>3, <4>1
      <4>3. PICK g \in G : \A n \in G : g <= n
        <5>. HIDE DEF G
        <5>. QED
          BY <4>2, LeastOf
      <4>4. ASSUME NEW n \in S PROVE n <= Len(t) - g
        <5>1. n \in Nat /\ n <= Len(t) /\ Len(t) - n \in Nat
              /\ Len(t) - (Len(t) - n) = n
          BY <2>3
        <5>2. Len(t) - n \in G
          BY <5>1
        <5>3. g <= Len(t) - n /\ g \in Nat
          BY <4>3, <5>2
        <5>. DEFINE l == Len(t)
        <5>4. g <= l - n /\ g \in Nat /\ n \in Nat /\ l \in Nat
          BY <2>3, <5>1, <5>3
        <5>. HIDE DEF l
        <5>5. n <= l - g
          BY ONLY <5>4
        <5>. QED
          BY <5>5 DEF l
      <4>. QED
        BY <4>3, <4>4
    <3>2. S \in SUBSET Int
      BY <2>3
    <3>3. Max(S) = m
      <4>. HIDE DEF S
      <4>. QED
        BY <3>1, <3>2, MaxIs
    <3>4. m = Len(t)
      BY <2>4, <3>3 DEF DigitRun
    <3>5. DOMAIN t = 1..Len(t)
      BY <2>3, LenProperties
    <3>. QED
      BY <3>1, <3>4, <3>5
  <2>6. items[i] \in Numbers
    BY <2>3, <2>5 DEF Numbers
  <2>7. Len(t) = 1
    BY <2>3, <2>6, Zenon DEF OneDigitEach
  <2>8. ~(Len(t) > 1)
    BY ONLY <2>7
  <2>. QED
    BY <2>1, <2>8
<1>2. ASSUME CutOff PROVE FALSE
  <2>1. Len(T(Taken)) = 1
    BY <1>2 DEF CutOff, OneDigitEach, T
  <2>. DEFINE y == Len(yielded[Taken])
  <2>2. yielded \in Seq(Seq(Symbol)) /\ Taken \in 1..Len(yielded)
    BY <1>2, LenProperties DEF Held, CutOff, Taken
  <2>3. y > 0 /\ y < 1 /\ y \in Nat
    <3>1. yielded[Taken] \in Seq(Symbol)
      BY <2>2, ElementOfSeq
    <3>2. y \in Nat
      BY <3>1, LenProperties
    <3>. QED
      BY <1>2, <2>1, <3>2, Zenon DEF CutOff
  <2>. HIDE DEF y
  <2>. QED
    BY ONLY <2>3
<1>. QED
  BY <1>1, <1>2

\* The invariants tell what the caller has seen.
LEMMA InvTold ==
    ASSUME OneDigitEach, ArraysInv, Measured
    PROVE  Told
<1>1. Laid /\ Held /\ ~Splittable /\ ~CutOff /\ Given
  <2>1. Laid /\ Held
    BY DEF ArraysInv
  <2>2. ~Splittable /\ ~CutOff
    BY <2>1, NothingSplits
  <2>. QED
    BY <2>1, <2>2 DEF ArraysInv
<1>2. /\ Taken \in 0..N /\ Taken \in Nat /\ N \in Nat /\ Here = Taken + 1
      /\ arrived \in 0..N
  BY <1>1, HereFacts, PlaceFacts DEF Measured
<1>3. \A i \in 1..Taken : ~Refused(items[i]) /\ Arrived(i)
  BY <1>1 DEF Given
<1>4. Taken <= arrived
  <2>. SUFFICES ASSUME ~(Taken <= arrived) PROVE FALSE
    OBVIOUS
  <2>1. arrived < N /\ arrived + 1 \in 1..Taken
    BY <1>2
  <2>. QED
    BY <1>3, <2>1 DEF Measured
<1>5. whole = Whole(arrived) /\ whole \in BOOLEAN
  BY DEF Measured, Whole
<1>6. ASSUME outcome \in {"complete", "failed"}
      PROVE  Taken = arrived /\ (outcome = "complete" <=> whole)
  <2>1. Judged
    BY <1>1, <1>6, OutcomeJudged
  <2>2. outcome # "stopped"
    BY <1>6
  <2>3. ~(Taken < arrived)
    <3>. SUFFICES ASSUME Taken < arrived PROVE FALSE
      OBVIOUS
    <3>. DEFINE k == Taken
    <3>1. k < arrived /\ arrived \in 0..N /\ N \in Nat /\ k \in Nat
      BY <1>2
    <3>2. k + 1 <= N /\ k + 1 \in 1..arrived
      <4>. HIDE DEF k
      <4>. QED
        BY ONLY <3>1
    <3>3. Here <= N /\ Here \in 1..arrived
      BY <1>2, <3>2
    <3>. QED
      BY <2>1, <2>2, <3>3 DEF Judged, Measured
  <2>4. Taken = arrived
    <3>. DEFINE k == Taken
    <3>1. k <= arrived /\ ~(k < arrived) /\ k \in Nat /\ arrived \in 0..N /\ N \in Nat
      BY <1>2, <1>4, <2>3
    <3>. HIDE DEF k
    <3>2. k = arrived
      BY ONLY <3>1
    <3>. QED
      BY <3>2 DEF k
  <2>. QED
    BY <1>5, <2>1, <2>2, <2>4 DEF Judged
<1>7. arrived \in Nat /\ Taken \in 0..arrived
  BY <1>2, <1>4
<1>8. "complete" # "failed"
  OBVIOUS
<1>. QED
  BY <1>5, <1>6, <1>7, <1>8 DEF Told

\* A step hands over one value at most, and none follows the verdict.
LEMMA OneMore ==
    ASSUME Held, Held', Next
    PROVE  /\ outcome = "none"
           /\ Taken' = Taken \/ Taken' = Taken + 1
           /\ outcome' \in {"none", "complete", "failed", "stopped"}
<1>1. dpc # "done"
  BY DEF Next, Open, Refill, Scanning, ScanChar, Separator, CloseArray, ScanCut,
         Parsing, SkipComma, ParseClose, RawDecode, Fill, FillFails,
         Pulling, PullOpen, PullElement, PullClose, PullFails
<1>2. yielded' = yielded \/ \E t : yielded' = Append(yielded, t)
  BY DEF Next, Open, Refill, ScanChar, Separator, CloseArray, ScanCut, TakeSlice,
         SkipComma, ParseClose, RawDecode, Fill, FillFails,
         PullOpen, PullElement, PullClose, PullFails, Accept
<1>3. Taken' = Taken \/ Taken' = Taken + 1
  <2>1. yielded \in Seq(Seq(Symbol)) /\ yielded' \in Seq(Seq(Symbol))
    BY DEF Held
  <2>2. ASSUME NEW t, yielded' = Append(yielded, t)
        PROVE  Len(yielded') = Len(yielded) + 1
    BY <2>1, <2>2
  <2>. QED
    BY <1>2, <2>2 DEF Taken
<1>. QED
  BY <1>1, <1>3 DEF Held

\* Where every number has one digit a decoder hands over exactly what arrived,
\* and its verdict is the one the input calls for: every safety property of
\* ArrayDelivery is one of the decoders.
THEOREM ArraysDeliver ==
    ASSUME OneDigitEach
    PROVE  Spec => Delivery!Init /\ [][Delivery!Next]_Delivery!vars
<1>. DEFINE Inv == ArraysInv /\ Measured
<1>1. Init => Inv /\ Delivery!Init
  <2>. SUFFICES ASSUME Init PROVE Inv /\ Delivery!Init
    OBVIOUS
  <2>1. Inv
    BY InitArrays, InitMeasured
  <2>2. Told
    BY <2>1, InvTold
  <2>3. Len(yielded) = 0 /\ outcome = "none"
    BY DEF Init
  <2>. QED
    BY <2>1, <2>2, <2>3 DEF Delivery!Init, Told
<1>2. Inv /\ [Next]_vars => Inv'
  BY ArraysStep, SameMeasure
<1>3. Inv => Told
  BY InvTold
<1>4. Inv' => Told'
  BY <1>3, PTL
<1>5. Inv /\ Inv' /\ [Next]_vars => [Delivery!Next]_Delivery!vars
  <2>. SUFFICES ASSUME Inv, Inv', [Next]_vars
                PROVE  [Delivery!Next]_Delivery!vars
    OBVIOUS
  <2>1. arrived' = arrived /\ whole' = whole
    BY Fixed, SameWire
  <2>2. CASE UNCHANGED vars
    BY <2>1, <2>2 DEF vars, decVars, Delivery!vars
  <2>3. CASE Next
    <3>1. Held /\ Held'
      BY DEF ArraysInv
    <3>2. /\ outcome = "none"
          /\ Taken' = Taken \/ Taken' = Taken + 1
          /\ outcome' \in {"none", "complete", "failed", "stopped"}
      BY <2>3, <3>1, OneMore
    <3>3. /\ arrived \in Nat /\ Taken' \in 0..arrived /\ Taken \in 0..arrived
          /\ outcome' = "complete" => whole  /\ Taken' = arrived
          /\ outcome' = "failed"   => ~whole /\ Taken' = arrived
      BY <1>3, <1>4, <2>1 DEF Told
    <3>4. Len(yielded) = Taken /\ Len(yielded') = Taken'
      BY DEF Taken
    <3>5. Taken' = Taken + 1 => Taken < arrived
      <4>. DEFINE k == Taken
                  m == Taken'
      <4>1. arrived \in Nat /\ m \in 0..arrived /\ k \in 0..arrived
        BY <3>3
      <4>. HIDE DEF k, m
      <4>2. m = k + 1 => k < arrived
        BY ONLY <4>1
      <4>. QED
        BY <4>2 DEF k, m
    <3>6. CASE outcome' = "none" /\ Taken' = Taken
      BY <2>1, <3>2, <3>4, <3>6 DEF Delivery!vars
    <3>7. CASE outcome' = "none" /\ Taken' = Taken + 1
      BY <2>1, <3>2, <3>4, <3>5, <3>7, Zenon DEF Delivery!Next, Delivery!Hand
    <3>8. CASE outcome' # "none"
      <4>1. Delivery!End
        BY <3>2, <3>3, <3>4, <3>8, Zenon DEF Delivery!End
      <4>2. Delivery!Hand \/ UNCHANGED Len(yielded)
        BY <3>2, <3>4, <3>5, Zenon DEF Delivery!Hand
      <4>. QED
        BY <2>1, <3>2, <4>1, <4>2, Zenon DEF Delivery!Next
    <3>. QED
      BY <3>2, <3>6, <3>7, <3>8
  <2>. QED
    BY <2>2, <2>3
<1>. QED
  BY <1>1, <1>2, <1>5, PTL DEF Spec

\* Whoever keeps the promise of ArrayDelivery tells the caller the truth ...
THEOREM DeliveryIsTold ==
    Delivery!Init /\ [][Delivery!Next]_Delivery!vars => []Told
<1>. DEFINE Kept ==
         /\ arrived \in Nat /\ Len(yielded) \in 0..arrived /\ whole \in BOOLEAN
         /\ outcome = "complete" => whole  /\ Len(yielded) = arrived
         /\ outcome = "failed"   => ~whole /\ Len(yielded) = arrived
<1>1. Delivery!Init => Kept
  BY DEF Delivery!Init
<1>2. Kept /\ [Delivery!Next]_Delivery!vars => Kept'
  BY DEF Delivery!Next, Delivery!Hand, Delivery!End, Delivery!vars
<1>3. Kept => Told
  BY DEF Told, Taken
<1>. QED
  BY <1>1, <1>2, <1>3, PTL

\* ... hands over nothing after the verdict, and takes nothing back.
THEOREM VerdictIsLast ==
    Delivery!Init /\ [][Delivery!Next]_Delivery!vars
        => [][Taken <= Taken' /\ outcome = "none"]_<<Taken, outcome>>
<1>1. Told /\ [Delivery!Next]_Delivery!vars
          => [Taken <= Taken' /\ outcome = "none"]_<<Taken, outcome>>
  BY DEF Told, Taken, Delivery!Next, Delivery!Hand, Delivery!End, Delivery!vars
<1>. QED
  BY <1>1, DeliveryIsTold, PTL
=============================================================================
