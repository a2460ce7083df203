------------------------ MODULE CheckedStreamProofs ------------------------
(***************************************************************************)
(* What the encoders of all six ports guarantee, for every set of values,  *)
(* every source and every failure, and what the decoders guarantee on top  *)
(* of that, for every chunking and every fault of the connection.          *)
(***************************************************************************)
EXTENDS CheckedStream, SequenceTheorems, WellFoundedInduction, TLAPS

-----------------------------------------------------------------------------
(***************************************************************************)
(* The lexer of the scanners on the text of a value, and what one read     *)
(* does to the text held.  Lexed is defined by recursion over the text, so *)
(* its equations are proved by induction first: the library's induction    *)
(* rules take an operator and cannot be instantiated by the provers, and   *)
(* induction over a set of numbers follows from a least element.           *)
(***************************************************************************)
\* A set of numbers that is not empty has a least element.
LEMMA LeastOf ==
    ASSUME NEW T \in SUBSET Nat, T # {}
    PROVE  \E m \in T : \A k \in T : m <= k
<1>. DEFINE Below == OpToRel(<, Nat)
<1>1. IsWellFoundedOn(Below, Nat)
  BY NatLessThanWellFounded
<1>2. \A x, y \in Nat : <<x, y>> \in Below <=> x < y
  BY DEF OpToRel
<1>. HIDE DEF Below
<1>3. PICK m \in T : \A y \in T : ~(<<y, m>> \in Below)
  BY <1>1, WFMin
<1>4. ASSUME NEW y \in T
      PROVE  m <= y
  <2>1. y \in Nat /\ m \in Nat /\ ~(y < m)
    BY <1>2, <1>3
  <2>. QED
    BY <2>1
<1>. QED
  BY <1>3, <1>4

\* A set of numbers with 0 and the successors of its members has them all.
LEMMA Induction ==
    ASSUME NEW G \in SUBSET Nat, 0 \in G, \A n \in G : n + 1 \in G
    PROVE  G = Nat
<1>. SUFFICES ASSUME Nat \ G # {} PROVE FALSE
  OBVIOUS
<1>1. PICK m \in Nat \ G : \A k \in Nat \ G : m <= k
  BY LeastOf
<1>2. m - 1 \in Nat
  BY <1>1
<1>3. m - 1 \in G
  BY <1>1, <1>2
<1>4. (m - 1) + 1 = m
  BY <1>1
<1>. QED
  BY <1>1, <1>3, <1>4

-----------------------------------------------------------------------------
\* What Lexed is of the first n symbols of a text.
IsLexed(g, text, n) ==
    g = [i \in 0..n |-> IF i = 0 THEN Fresh ELSE Lex(g[i - 1], text[i])]

\* Every text can be lexed, up to every symbol.
LEMMA LexedExists ==
    ASSUME NEW text, NEW n \in Nat
    PROVE  \E g : IsLexed(g, text, n)
<1>. DEFINE G == {k \in Nat : \E g : IsLexed(g, text, k)}
<1>1. 0 \in G
  <2>. DEFINE g == [i \in 0..0 |-> Fresh]
  <2>1. IsLexed(g, text, 0)
    BY DEF IsLexed
  <2>. QED
    BY <2>1
<1>2. ASSUME NEW k \in G
      PROVE  k + 1 \in G
  <2>1. PICK g : IsLexed(g, text, k)
    OBVIOUS
  <2>. DEFINE h == [i \in 0..k + 1 |->
                       IF i = k + 1 THEN Lex(g[k], text[k + 1]) ELSE g[i]]
  <2>2. k \in Nat
    OBVIOUS
  <2>3. ASSUME NEW i \in 0..k + 1
        PROVE  h[i] = IF i = 0 THEN Fresh ELSE Lex(h[i - 1], text[i])
    <3>1. CASE i = k + 1
      <4>1. i # 0 /\ i - 1 = k /\ k \in 0..k + 1 /\ k # k + 1
        BY <2>2, <3>1
      <4>2. h[i - 1] = g[k] /\ h[i] = Lex(g[k], text[i])
        BY <3>1, <4>1
      <4>. QED
        BY <4>1, <4>2
    <3>2. CASE i = 0
      <4>1. i # k + 1 /\ 0 \in 0..k
        BY <2>2, <3>2
      <4>2. g[0] = Fresh
        BY <2>1, <4>1 DEF IsLexed
      <4>. QED
        BY <3>2, <4>1, <4>2
    <3>3. CASE i # 0 /\ i # k + 1
      <4>1. /\ i \in 0..k /\ i - 1 \in 0..k + 1 /\ i - 1 # k + 1
        BY <2>2, <3>3
      <4>2. g[i] = Lex(g[i - 1], text[i])
        BY <2>1, <3>3, <4>1 DEF IsLexed
      <4>3. h[i - 1] = g[i - 1] /\ h[i] = g[i]
        BY <3>3, <4>1
      <4>. QED
        BY <3>3, <4>2, <4>3
    <3>. QED
      BY <3>1, <3>2, <3>3
  <2>4. IsLexed(h, text, k + 1)
    <3>. DEFINE r == [i \in 0..k + 1 |->
                         IF i = 0 THEN Fresh ELSE Lex(h[i - 1], text[i])]
    <3>1. \A i \in 0..k + 1 : h[i] = r[i]
      BY <2>3
    <3>2. h = r
      BY <3>1
    <3>. QED
      BY <3>2 DEF IsLexed
  <2>5. k + 1 \in Nat
    BY <2>2
  <2>. QED
    BY <2>4, <2>5
<1>3. G = Nat
  <2>. HIDE DEF G
  <2>1. G \subseteq Nat
    BY DEF G
  <2>. QED
    BY <1>1, <1>2, <2>1, Induction
<1>. QED
  BY <1>3

\* The equations of Lexed.
LEMMA LexedUnfolds ==
    ASSUME NEW text, Len(text) \in Nat
    PROVE  /\ Lexed(text)[0] = Fresh
           /\ \A i \in 1..Len(text) :
                 Lexed(text)[i] = Lex(Lexed(text)[i - 1], text[i])
<1>1. PICK g : IsLexed(g, text, Len(text))
  BY LexedExists
<1>2. IsLexed(Lexed(text), text, Len(text))
  <2>1. g = [i \in 0..Len(text) |->
                IF i = 0 THEN Fresh ELSE Lex(g[i - 1], text[i])]
    BY <1>1 DEF IsLexed
  <2>2. Lexed(text) = [i \in 0..Len(text) |->
                          IF i = 0 THEN Fresh
                          ELSE Lex(Lexed(text)[i - 1], text[i])]
    BY <2>1, Zenon DEF Lexed
  <2>. QED
    BY <2>2 DEF IsLexed
<1>3. 0 \in 0..Len(text)
  OBVIOUS
<1>4. Lexed(text)[0] = Fresh
  BY <1>2, <1>3 DEF IsLexed
<1>5. ASSUME NEW i \in 1..Len(text)
      PROVE  Lexed(text)[i] = Lex(Lexed(text)[i - 1], text[i])
  <2>1. i \in 0..Len(text) /\ i # 0
    OBVIOUS
  <2>. QED
    BY <1>2, <2>1 DEF IsLexed
<1>. QED
  BY <1>4, <1>5

-----------------------------------------------------------------------------
\* The lexical states of the text of a value: what the grammar promises
\* (LexAssumption) and how each follows from the one before.
LEMMA LexFacts ==
    ASSUME NEW e \in Element
    PROVE  /\ Text[e] \in Seq(Symbol) /\ Len(Text[e]) \in Nat \ {0}
           /\ Lexed(Text[e])[0] = Fresh
           /\ Lexed(Text[e])[Len(Text[e])] = Fresh
           /\ Text[e][Len(Text[e])] # "lead"
           /\ \A i \in 1..Len(Text[e]) :
                 /\ Lexed(Text[e])[i] = Lex(Lexed(Text[e])[i - 1], Text[e][i])
                 /\ Lexed(Text[e])[i].depth \in Nat
                 /\ ~EndsValue(Lexed(Text[e])[i - 1], Text[e][i])
<1>1. Text[e] \in Seq(Symbol) /\ Text[e] # <<>>
  BY TextAssumption
<1>2. Len(Text[e]) \in Nat \ {0}
  <2>1. Len(Text[e]) \in Nat
    BY <1>1
  <2>2. Len(Text[e]) # 0
    BY <1>1
  <2>. QED
    BY <2>1, <2>2
<1>3. /\ Lexed(Text[e])[Len(Text[e])] = Fresh
      /\ Text[e][Len(Text[e])] # "lead"
      /\ \A i \in 1..Len(Text[e]) :
            /\ Lexed(Text[e])[i].depth \in Nat
            /\ ~EndsValue(Lexed(Text[e])[i - 1], Text[e][i])
  BY LexAssumption, Zenon
<1>4. /\ Lexed(Text[e])[0] = Fresh
      /\ \A i \in 1..Len(Text[e]) :
            Lexed(Text[e])[i] = Lex(Lexed(Text[e])[i - 1], Text[e][i])
  BY <1>2, LexedUnfolds
<1>. QED
  BY <1>1, <1>2, <1>3, <1>4

\* A slice that is the text of a value is parsed to that value, if the port's
\* parser reads it.
LEMMA Parses ==
    ASSUME NEW e \in Element, NEW port
    PROVE  /\ IsValue(port, Text[e]) <=> e \in Parsable(port)
           /\ ValueOf(Text[e]) = e
<1>1. \A f \in Element : Text[f] = Text[e] => f = e
  BY TextAssumption
<1>. QED
  BY <1>1 DEF IsValue, ValueOf

\* Two texts that agree as far as the shorter one goes are the same text, or
\* the texts of two numbers.
LEMMA TextsAgree ==
    ASSUME NEW e \in Element, NEW f \in Element,
           Len(Text[e]) <= Len(Text[f]),
           \A j \in 1..Len(Text[e]) : Text[e][j] = Text[f][j]
    PROVE  \/ e = f
           \/ Len(Text[e]) < Len(Text[f]) /\ e \in Numbers /\ f \in Numbers
<1>1. /\ Text[e] \in Seq(Symbol) /\ Len(Text[e]) \in Nat
      /\ Text[f] \in Seq(Symbol) /\ Len(Text[f]) \in Nat
  BY LexFacts
<1>2. CASE Len(Text[e]) = Len(Text[f])
  <2>1. Text[e] = Text[f]
    BY <1>1, <1>2, SeqEqual
  <2>. QED
    BY <2>1, TextAssumption
<1>3. CASE Len(Text[e]) < Len(Text[f])
  <2>1. \A i \in 1..Len(Text[e]) : Text[f][i] = Text[e][i]
    OBVIOUS
  <2>2. e \in Numbers /\ f \in Numbers
    BY <1>3, <2>1, NumberAssumption
  <2>. QED
    BY <1>3, <2>2
<1>. QED
  BY <1>1, <1>2, <1>3

-----------------------------------------------------------------------------
(***************************************************************************)
(* Sequences of symbols: appended, cut and held in a buffer.               *)
(***************************************************************************)
\* What is written behind a text leaves it as it is.
LEMMA ConcatGrows ==
    ASSUME NEW s \in Seq(Symbol), NEW t \in Seq(Symbol)
    PROVE  /\ s \o t \in Seq(Symbol) /\ Len(s \o t) = Len(s) + Len(t)
           /\ Len(s \o t) \in Nat /\ Len(s) <= Len(s \o t)
           /\ \A i \in 1..Len(s) : (s \o t)[i] = s[i]
           /\ \A i \in 1..Len(t) : (s \o t)[Len(s) + i] = t[i]
<1>1. Len(s) \in Nat /\ Len(t) \in Nat
  BY LenProperties
<1>2. s \o t \in Seq(Symbol) /\ Len(s \o t) = Len(s) + Len(t)
      /\ \A i \in 1..(Len(s) + Len(t)) :
            (s \o t)[i] = IF i <= Len(s) THEN s[i] ELSE t[i - Len(s)]
  BY ConcatProperties
<1>. QED
  BY <1>1, <1>2

\* The part of a sequence from the (i+1)-th symbol to the n-th.
LEMMA Part ==
    ASSUME NEW S, NEW s \in Seq(S), NEW i \in Nat, NEW n \in i..Len(s)
    PROVE  /\ SubSeq(s, i + 1, n) \in Seq(S)
           /\ Len(SubSeq(s, i + 1, n)) = n - i /\ n - i \in Nat
           /\ \A j \in 1..(n - i) : SubSeq(s, i + 1, n)[j] = s[i + j]
<1>1. Len(s) \in Nat /\ n \in Nat /\ i <= n /\ n <= Len(s)
  BY LenProperties
<1>2. \A j \in (i + 1)..n : s[j] \in S
  BY <1>1, ElementOfSeq
<1>. DEFINE p == SubSeq(s, i + 1, n)
<1>3. /\ p \in Seq(S)
      /\ Len(p) = IF i + 1 <= n THEN n - (i + 1) + 1 ELSE 0
      /\ \A j \in 1..(n - (i + 1) + 1) : p[j] = s[(i + 1) + j - 1]
  BY <1>1, <1>2, SubSeqProperties
<1>. HIDE DEF p
<1>4. Len(p) = n - i /\ n - i \in Nat
  BY <1>1, <1>3
<1>5. ASSUME NEW j \in 1..(n - i) PROVE p[j] = s[i + j]
  <2>1. j \in 1..(n - (i + 1) + 1) /\ (i + 1) + j - 1 = i + j
    BY <1>1
  <2>. QED
    BY <1>3, <2>1
<1>. QED
  BY <1>3, <1>4, <1>5 DEF p

\* The same for the part at the beginning.
LEMMA FirstPart ==
    ASSUME NEW S, NEW s \in Seq(S), NEW n \in 0..Len(s),
           NEW p, p = SubSeq(s, 1, n)
    PROVE  /\ p \in Seq(S) /\ Len(p) = n
           /\ \A j \in 1..n : p[j] = s[j]
<1>1. n \in Nat /\ n <= Len(s) /\ Len(s) \in Nat
  BY LenProperties
<1>2. \A j \in 1..n : s[j] \in S
  BY <1>1, ElementOfSeq
<1>3. /\ SubSeq(s, 1, n) \in Seq(S)
      /\ Len(SubSeq(s, 1, n)) = IF 1 <= n THEN n - 1 + 1 ELSE 0
      /\ \A j \in 1..(n - 1 + 1) : SubSeq(s, 1, n)[j] = s[1 + j - 1]
  BY <1>1, <1>2, SubSeqProperties
<1>4. p \in Seq(S) /\ Len(p) = n
  BY <1>1, <1>3
<1>5. ASSUME NEW j \in 1..n PROVE p[j] = s[j]
  <2>1. j \in 1..(n - 1 + 1) /\ 1 + j - 1 = j
    BY <1>1
  <2>. QED
    BY <1>3, <2>1
<1>. QED
  BY <1>4, <1>5

\* A window of w that ends behind its first r symbols, and the window c after a
\* read of n symbols, where a is the part of w that arrives.
Refilled(w, a, b, r, n, c) ==
    /\ a \in Seq(Symbol) /\ \A i \in 1..Len(a) : a[i] = w[i]
    /\ b \in Seq(Symbol) /\ r \in Nat /\ Len(b) <= r
    /\ \A j \in 1..Len(b) : b[j] = w[(r - Len(b)) + j]
    /\ n \in Nat /\ r + n <= Len(a)
    /\ c = b \o SubSeq(a, r + 1, r + n)

\* It is a window of w again.
LEMMA FillWindow ==
    ASSUME NEW w, NEW a, NEW b, NEW r, NEW n, NEW c, Refilled(w, a, b, r, n, c)
    PROVE  /\ c \in Seq(Symbol) /\ Len(c) = Len(b) + n
           /\ \A j \in 1..Len(b) : c[j] = b[j]
           /\ \A j \in 1..Len(c) : c[j] = w[(r - Len(b)) + j]
<1>. /\ a \in Seq(Symbol) /\ \A i \in 1..Len(a) : a[i] = w[i]
     /\ b \in Seq(Symbol) /\ r \in Nat /\ Len(b) <= r
     /\ \A j \in 1..Len(b) : b[j] = w[(r - Len(b)) + j]
     /\ n \in Nat /\ r + n <= Len(a)
     /\ c = b \o SubSeq(a, r + 1, r + n)
  BY DEF Refilled
<1>1. Len(a) \in Nat /\ Len(b) \in Nat
  BY LenProperties
<1>. DEFINE p == SubSeq(a, r + 1, r + n)
<1>2. /\ p \in Seq(Symbol) /\ Len(p) = n
      /\ \A j \in 1..n : p[j] = a[r + j]
  <2>1. r + n \in r..Len(a) /\ (r + n) - r = n
    BY <1>1
  <2>. QED
    BY <2>1, Part
<1>. HIDE DEF p
<1>3. c = b \o p
  BY DEF p
<1>4. /\ c \in Seq(Symbol) /\ Len(c) = Len(b) + n
      /\ \A j \in 1..Len(b) : c[j] = b[j]
      /\ \A j \in 1..n : c[Len(b) + j] = p[j]
  <2>1. b \in Seq(Symbol)
    OBVIOUS
  <2>2. p \in Seq(Symbol)
    BY <1>2
  <2>3. /\ b \o p \in Seq(Symbol) /\ Len(b \o p) = Len(b) + Len(p)
        /\ \A j \in 1..Len(b) : (b \o p)[j] = b[j]
        /\ \A j \in 1..Len(p) : (b \o p)[Len(b) + j] = p[j]
    BY ONLY <2>1, <2>2, ConcatGrows
  <2>. QED
    BY ONLY <1>2, <1>3, <2>3
<1>5. ASSUME NEW j \in 1..Len(c) PROVE c[j] = w[(r - Len(b)) + j]
  <2>1. CASE j \in 1..Len(b)
    BY <1>4, <2>1
  <2>2. CASE j \notin 1..Len(b)
    <3>. DEFINE i == j - Len(b)
    <3>1. i \in 1..n /\ j = Len(b) + i /\ r + i \in 1..Len(a)
          /\ (r - Len(b)) + j = r + i
      BY <1>1, <1>4, <2>2
    <3>. HIDE DEF i
    <3>2. c[j] = p[i] /\ p[i] = a[r + i] /\ a[r + i] = w[r + i]
      BY <1>2, <1>4, <3>1
    <3>. QED
      BY <3>1, <3>2
  <2>. QED
    BY <2>1, <2>2
<1>. QED
  BY <1>4, <1>5


-----------------------------------------------------------------------------
(***************************************************************************)
(* The encoders.                                                           *)
(***************************************************************************)
\* Facts about the table of ports: a failure that the source of a port can
\* have and its documentation promises to signal is one its handler names.
LEMMA PortFacts ==
    ASSUME NEW p \in Encoders
    PROVE  /\ Port(p).joint \in BOOLEAN
           /\ "encode" \in Port(p).trailerOn
           /\ "source" \in Endings(p) => "source" \in Port(p).trailerOn
           /\ Endings(p) \subseteq {"exhausted", "encode", "source", "fatal"}
<1>1. p \in Ports
  BY EncoderAssumption
<1>2. CASE p = "python"
  BY <1>2 DEF Port, Endings, PythonEncoder
<1>3. CASE p = "node"
  BY <1>3 DEF Port, Endings, NodeEncoder
<1>4. CASE p = "dotnet"
  BY <1>4 DEF Port, Endings, DotnetEncoder
<1>5. CASE p = "rust"
  BY <1>5 DEF Port, Endings, RustEncoder
<1>6. CASE p = "go"
  BY <1>6 DEF Port, Endings, GoEncoder
<1>7. CASE p = "java"
  BY <1>7 DEF Port, Endings, JavaEncoder
<1>. QED
  BY <1>1, <1>2, <1>3, <1>4, <1>5, <1>6, <1>7 DEF Ports

\* Tuples of members of S are sequences over S.
LEMMA Tuple1 == ASSUME NEW S, NEW a \in S PROVE <<a>> \in Seq(S)
OBVIOUS

LEMMA Tuple2 == ASSUME NEW S, NEW a \in S, NEW b \in S PROVE <<a, b>> \in Seq(S)
OBVIOUS

LEMMA Tuple3 ==
    ASSUME NEW S, NEW a \in S, NEW b \in S, NEW c \in S
    PROVE  <<a, b, c>> \in Seq(S)
OBVIOUS

LEMMA Tuple4 ==
    ASSUME NEW S, NEW a \in S, NEW b \in S, NEW c \in S, NEW d \in S
    PROVE  <<a, b, c, d>> \in Seq(S)
OBVIOUS

LEMMA Tuple9 ==
    ASSUME NEW S, NEW a \in S, NEW b \in S, NEW c \in S, NEW d \in S,
           NEW e \in S, NEW f \in S, NEW g \in S, NEW h \in S, NEW i \in S
    PROVE  <<a, b, c, d, e, f, g, h, i>> \in Seq(S)
OBVIOUS

\* The fixed texts of the envelope, and the texts of values, are wires.
LEMMA TextsAreWires ==
    /\ Header \in Seq(Symbol)
    /\ <<",">> \in Seq(Symbol) /\ <<"]">> \in Seq(Symbol)
    /\ OkTrailer \in Seq(Symbol) /\ ErrorTrailer \in Seq(Symbol)
    /\ Status(TRUE) \in Seq(Symbol)
    /\ Status(FALSE) \in Seq(Symbol)
    /\ \A e \in Element : Text[e] \in Seq(Symbol)
<1>1. /\ "{" \in Symbol /\ "}" \in Symbol /\ "[" \in Symbol /\ "]" \in Symbol
      /\ "," \in Symbol /\ "items" \in Symbol /\ "complete" \in Symbol
      /\ "true" \in Symbol /\ "false" \in Symbol /\ "error" \in Symbol
      /\ "message" \in Symbol
  BY DEF Symbol, Punctuation, Keyword
<1>2. Header \in Seq(Symbol)
  BY <1>1, Tuple3, Zenon DEF Header
<1>3. <<",">> \in Seq(Symbol) /\ <<"]">> \in Seq(Symbol)
  BY <1>1, Tuple1
<1>4. OkTrailer \in Seq(Symbol)
  BY <1>1, Tuple4, Zenon DEF OkTrailer
<1>5. ErrorTrailer \in Seq(Symbol)
  BY <1>1, Tuple9, Zenon DEF ErrorTrailer
<1>6. Status(TRUE) \in Seq(Symbol) /\ Status(FALSE) \in Seq(Symbol)
  BY <1>3, <1>4, <1>5, ConcatProperties DEF Status
<1>. QED
  BY <1>2, <1>3, <1>4, <1>5, <1>6, TextAssumption

\* Control after a failure.
LEMMA RaiseTarget ==
    ASSUME NEW kind, Raise(kind)
    PROVE  epc' \in {"errorTrailer", "raised"}
BY DEF Raise

\* A write of one frame keeps wire and frames typed, for any text that is a
\* sequence of symbols.
LEMMA WriteTyped ==
    ASSUME wire \in Seq(Symbol), frames \in Seq(Frame), count \in Nat,
           NEW kind \in FrameKind, NEW text \in Seq(Symbol), Write(kind, text)
    PROVE  /\ wire' \in Seq(Symbol)
           /\ frames' \in Seq(Frame)
           /\ Len(frames') = Len(frames) + 1
           /\ frames'[Len(frames) + 1].kind = kind
           /\ frames'[Len(frames) + 1].item = count + 1
           /\ frames'[Len(frames) + 1].start = Len(wire)
           /\ \A i \in 1..Len(frames) : frames'[i] = frames[i]
<1>1. wire' \in Seq(Symbol)
  BY ConcatProperties DEF Write
<1>. DEFINE f == [kind |-> kind, item |-> count + 1, start |-> Len(wire)]
<1>2. f \in Frame
  BY LenProperties DEF Frame
<1>3. frames' = Append(frames, f)
  BY DEF Write
<1>4. f.kind = kind /\ f.item = count + 1 /\ f.start = Len(wire)
  OBVIOUS
<1>. HIDE DEF f
<1>5. frames' \in Seq(Frame) /\ Len(frames') = Len(frames) + 1
      /\ frames'[Len(frames) + 1] = f
      /\ \A i \in 1..Len(frames) : frames'[i] = frames[i]
  BY <1>2, <1>3
<1>. QED
  BY <1>1, <1>4, <1>5

-----------------------------------------------------------------------------
LEMMA InitTyped == EncInit => EncTypeOK
<1>. SUFFICES ASSUME EncInit PROVE EncTypeOK
  OBVIOUS
<1>1. source \in Seq(Encodable(enc)) /\ Len(source) <= MaxItems /\ Len(source) \in Nat
  <2>. PICK n \in 0..MaxItems : source \in [1..n -> Encodable(enc)]
    BY DEF EncInit, Sources
  <2>. n \in Nat /\ n <= MaxItems
    BY EncoderAssumption
  <2>. QED
    OBVIOUS
<1>2. wire \in Seq(Symbol) /\ frames \in Seq(Frame)
  BY EmptySeq DEF EncInit
<1>3. count \in 0..Len(source)
  BY <1>1 DEF EncInit
<1>4. epc \in Writing
  BY DEF EncInit, Writing
<1>5. enc \in Encoders /\ ending \in Endings(enc) /\ broken \in BOOLEAN
  BY DEF EncInit
<1>. QED
  BY <1>1, <1>2, <1>3, <1>4, <1>5, Zenon DEF EncTypeOK

\* The text of the next value the source yields is a wire.
LEMMA NextText ==
    ASSUME EncTypeOK, count < Len(source)
    PROVE  /\ source[count + 1] \in Element
           /\ Text[source[count + 1]] \in Seq(Symbol)
<1>1. count + 1 \in 1..Len(source)
  BY DEF EncTypeOK
<1>2. source[count + 1] \in Encodable(enc)
  BY <1>1, ElementOfSeq DEF EncTypeOK
<1>. QED
  BY <1>2, TextsAreWires DEF Encodable

\* Every action keeps the type invariant.
LEMMA StepTyped == EncTypeOK /\ [EncNext]_encVars => EncTypeOK'
<1>. SUFFICES ASSUME EncTypeOK, [EncNext]_encVars PROVE EncTypeOK'
  OBVIOUS
<1>. USE DEF EncTypeOK
<1>0. count \in Nat /\ Len(source) \in Nat /\ Encodable(enc) \subseteq Element
  BY DEF Encodable
<1>1. CASE WriteHeader
  BY <1>0, <1>1, WriteTyped, TextsAreWires DEF WriteHeader, Writing, FrameKind
<1>2. CASE NextItem
  BY <1>2 DEF NextItem, Writing
<1>3. CASE WriteComma
  BY <1>0, <1>3, WriteTyped, TextsAreWires DEF WriteComma, Writing, FrameKind
<1>4. CASE WriteElement
  <2>1. Text[source[count + 1]] \in Seq(Symbol)
    BY <1>4, NextText DEF WriteElement
  <2>. QED
    BY <1>0, <1>4, <2>1, WriteTyped DEF WriteElement, Writing, FrameKind
<1>5. CASE WriteCommaAndElement
  <2>. DEFINE text == Text[source[count + 1]]
              f == [kind |-> "comma", item |-> count + 1, start |-> Len(wire)]
              g == [kind |-> "element", item |-> count + 1, start |-> Len(wire) + 1]
  <2>1. text \in Seq(Symbol)
    BY <1>5, NextText DEF WriteCommaAndElement
  <2>2. f \in Frame /\ g \in Frame
    BY <1>0, LenProperties DEF Frame, FrameKind
  <2>3. wire' = wire \o <<",">> \o text /\ frames' = frames \o <<f, g>>
    BY <1>5 DEF WriteCommaAndElement
  <2>. HIDE DEF text, f, g
  <2>4. wire' \in Seq(Symbol)
    BY <2>1, <2>3, TextsAreWires, ConcatProperties
  <2>5. frames' \in Seq(Frame)
    BY <2>2, <2>3, Tuple2, ConcatProperties
  <2>6. count < Len(source) /\ count' = count + 1 /\ epc' = "next"
        /\ UNCHANGED <<enc, source, ending, broken>>
    BY <1>5 DEF WriteCommaAndElement
  <2>. QED
    BY <1>0, <2>4, <2>5, <2>6
<1>6. CASE EncodeFails
  BY <1>6, RaiseTarget DEF EncodeFails, Writing
<1>7. CASE SourceFails
  BY <1>7, RaiseTarget DEF SourceFails, Writing
<1>8. CASE SourceEnds
  BY <1>8 DEF SourceEnds, Writing
<1>9. CASE WriteOkTrailer
  BY <1>0, <1>9, WriteTyped, TextsAreWires DEF WriteOkTrailer, Writing, FrameKind
<1>10. CASE WriteErrorTrailer
  BY <1>0, <1>10, WriteTyped, TextsAreWires DEF WriteErrorTrailer, Writing, FrameKind
<1>11. CASE WriteFails
  BY <1>11, RaiseTarget DEF WriteFails, Writing
<1>12. CASE WriteHangs
  BY <1>12 DEF WriteHangs, Writing
<1>13. CASE Break
  BY <1>13 DEF Break
<1>14. CASE UNCHANGED encVars
  BY <1>14 DEF encVars
<1>. QED
  BY <1>1, <1>2, <1>3, <1>4, <1>5, <1>6, <1>7, <1>8, <1>9, <1>10, <1>11,
     <1>12, <1>13, <1>14 DEF EncNext, EncStep

\* The type invariant of the encoders: in particular the count they return
\* never passes the number of values the source yielded.
THEOREM EncoderTyped == EncSpec => []EncTypeOK
<1>. QED
  BY InitTyped, StepTyped, PTL DEF EncSpec

-----------------------------------------------------------------------------
\* While the encoder runs, no status has been written.
LEMMA NoStatusYet ==
    ASSUME EncInv, epc \notin {"returned", "raised"}
    PROVE  \A i \in DOMAIN frames : frames[i].kind \notin {"ok", "error"}
BY DEF EncInv, StatusLast

\* The safety part of EncInv, in the next state, after a step that writes
\* nothing and does not end the encoder.
LEMMA SilentStep ==
    ASSUME EncInv, epc \notin {"returned", "raised"},
           UNCHANGED <<enc, source, ending, count, wire, frames>>,
           broken => broken'
    PROVE  /\ StatusLast' /\ ElementsInOrder' /\ StatusTruthful'
           /\ Written' = Written /\ Joint' = Joint
           /\ ~HasStatus("ok")' /\ ~HasStatus("error")'
<1>1. \A i \in DOMAIN frames' : frames'[i].kind \notin {"ok", "error"}
  BY NoStatusYet
<1>2. StatusLast' /\ ~HasStatus("ok")' /\ ~HasStatus("error")'
  BY <1>1 DEF StatusLast, HasStatus
<1>3. ElementsInOrder'
  BY DEF EncInv, ElementsInOrder
<1>. QED
  BY <1>2, <1>3 DEF StatusTruthful, Written, Joint

\* A step that appends one status frame and ends the encoder.
LEMMA StatusStep ==
    ASSUME EncInv, epc \notin {"returned", "raised"},
           NEW ok \in BOOLEAN,
           UNCHANGED <<enc, source, ending, count, broken>>,
           Write(IF ok THEN "ok" ELSE "error", Status(ok)),
           epc' = (IF ok THEN "returned" ELSE "raised"),
           Len(frames) > 0, Len(frames) <= 2 * count + 1
    PROVE  /\ StatusLast' /\ ElementsInOrder'
           /\ HasStatus("ok")' <=> ok
           /\ HasStatus("error")' <=> ~ok
<1>. DEFINE kind == IF ok THEN "ok" ELSE "error"
<1>0. /\ count \in Nat /\ frames \in Seq(Frame) /\ Len(frames) \in Nat
      /\ wire \in Seq(Symbol) /\ kind \in FrameKind
  BY LenProperties DEF EncInv, EncTypeOK, FrameKind
<1>1. /\ frames' \in Seq(Frame)
      /\ Len(frames') = Len(frames) + 1
      /\ frames'[Len(frames) + 1].kind = kind
      /\ \A i \in 1..Len(frames) : frames'[i] = frames[i]
  BY <1>0, WriteTyped, TextsAreWires
<1>2. \A i \in DOMAIN frames : frames[i].kind \notin {"ok", "error"}
  BY NoStatusYet
<1>3. DOMAIN frames = 1..Len(frames) /\ DOMAIN frames' = 1..(Len(frames) + 1)
  BY <1>0, <1>1, LenProperties
<1>4. StatusLast'
  BY <1>0, <1>1, <1>2, <1>3 DEF StatusLast
<1>5. (HasStatus("ok")' <=> ok) /\ (HasStatus("error")' <=> ~ok)
  <2>1. Len(frames) + 1 \in DOMAIN frames'
    BY <1>0, <1>3
  <2>2. \A i \in DOMAIN frames' : i # Len(frames) + 1 =>
            frames'[i].kind \notin {"ok", "error"}
    BY <1>0, <1>1, <1>2, <1>3
  <2>3. CASE ok
    BY <1>1, <2>1, <2>2, <2>3 DEF HasStatus
  <2>4. CASE ~ok
    BY <1>1, <2>1, <2>2, <2>4 DEF HasStatus
  <2>. QED
    BY <2>3, <2>4
<1>6. ElementsInOrder'
  <2>1. frames'[1].kind = "header"
    BY <1>0, <1>1, SMTT(40) DEF EncInv, ElementsInOrder
  <2>2. ASSUME NEW k \in 1..count
        PROVE  /\ 2 * k \in DOMAIN frames'
               /\ frames'[2 * k].kind = "element" /\ frames'[2 * k].item = k
    <3>1. /\ 2 * k \in 1..Len(frames)
          /\ frames[2 * k].kind = "element" /\ frames[2 * k].item = k
      BY <1>3 DEF EncInv, ElementsInOrder
    <3>2. frames'[2 * k] = frames[2 * k] /\ 2 * k \in DOMAIN frames'
      BY <1>0, <1>1, <1>3, <3>1
    <3>. QED
      BY <3>1, <3>2
  <2>3. ASSUME NEW k \in 1..(count - 1)
        PROVE  frames'[2 * k + 1].kind = "comma"
    <3>1. 2 * k + 1 \in 1..Len(frames)
      <4>1. k + 1 \in 1..count
        BY <1>0
      <4>2. 2 * (k + 1) \in 1..Len(frames)
        BY <4>1, <1>3 DEF EncInv, ElementsInOrder
      <4>. QED
        BY <1>0, <4>2
    <3>. QED
      BY <1>1, <3>1 DEF EncInv, ElementsInOrder
  <2>. QED
    BY <1>0, <1>1, <2>1, <2>2, <2>3 DEF ElementsInOrder
<1>. QED
  BY <1>4, <1>5, <1>6

\* A step that appends frames, none of them a status, while count stays or
\* counts the element appended last.
LEMMA BodyStep ==
    ASSUME EncInv, epc \notin {"returned", "raised"},
           NEW n \in Nat,
           frames' \in Seq(Frame), Len(frames') = Len(frames) + n,
           \A i \in 1..Len(frames) : frames'[i] = frames[i],
           \A i \in Len(frames) + 1..Len(frames) + n :
               frames'[i].kind \in {"header", "comma", "element"}
    PROVE  /\ StatusLast' /\ StatusTruthful'
           /\ ~HasStatus("ok")' /\ ~HasStatus("error")'
<1>1. frames \in Seq(Frame) /\ Len(frames) \in Nat
      /\ DOMAIN frames = 1..Len(frames) /\ DOMAIN frames' = 1..Len(frames) + n
  BY LenProperties DEF EncInv, EncTypeOK
<1>2. \A i \in DOMAIN frames' : frames'[i].kind \notin {"ok", "error"}
  <2>. SUFFICES ASSUME NEW i \in 1..Len(frames) + n
                PROVE  frames'[i].kind \notin {"ok", "error"}
    BY <1>1
  <2>1. CASE i \in 1..Len(frames)
    BY <1>1, <2>1, NoStatusYet
  <2>2. CASE i \in Len(frames) + 1..Len(frames) + n
    BY <2>2
  <2>. QED
    BY <1>1, <2>1, <2>2
<1>. QED
  BY <1>2 DEF StatusLast, StatusTruthful, HasStatus

-----------------------------------------------------------------------------
LEMMA InitSafe == EncInit => EncInv
<1>. SUFFICES ASSUME EncInit PROVE EncInv
  OBVIOUS
<1>1. frames = <<>> /\ count = 0 /\ epc = "header" /\ DOMAIN frames = {}
  BY DEF EncInit
<1>2. EncTypeOK
  BY InitTyped
<1>3. StatusLast /\ ElementsInOrder /\ StatusTruthful /\ FailureSignalled
  BY <1>1 DEF StatusLast, ElementsInOrder, StatusTruthful, FailureSignalled, HasStatus
<1>4. Progress
  BY <1>1 DEF Progress
<1>. QED
  BY <1>2, <1>3, <1>4 DEF EncInv

\* How much has been written when control is in the loop or behind it.
LEMMA FramesSoFar ==
    ASSUME EncInv
    PROVE  /\ count \in Nat /\ Written \in Nat
           /\ Written > 0 /\ Written <= 2 * count + 1
           /\ count > 0 => Written = 2 * count
           /\ epc \in {"next", "comma", "element", "okTrailer", "errorTrailer"} =>
                 Len(frames) \in {Written, Written + 1} /\ Len(frames) > 0
           /\ epc \in {"next", "comma", "element", "okTrailer", "errorTrailer"} =>
                 Len(frames) <= 2 * count + 1
<1>1. count \in Nat /\ Len(frames) \in Nat
  BY LenProperties DEF EncInv, EncTypeOK
<1>2. /\ Written \in Nat /\ Written > 0 /\ Written <= 2 * count + 1
      /\ count > 0 => Written = 2 * count
      /\ count = 0 => Written = 1
  BY <1>1 DEF Written
<1>3. epc \in {"next", "comma", "okTrailer"} => Len(frames) = Written
  BY DEF EncInv, Progress
<1>4. epc = "errorTrailer" =>
         Len(frames) \in {Written, Written + 1} /\ (count = 0 => Len(frames) = 1)
  BY DEF EncInv, Progress
<1>5. epc = "element" =>
         Len(frames) = Written \/ (count > 0 /\ Len(frames) = Written + 1)
  BY DEF EncInv, Progress
<1>6. ASSUME epc \in {"next", "comma", "element", "okTrailer", "errorTrailer"}
      PROVE  Len(frames) = Written
             \/ (Len(frames) = Written + 1 /\ Written = 2 * count)
  <2>1. CASE epc \in {"next", "comma", "okTrailer"}
    BY <1>3, <2>1
  <2>2. CASE epc = "element"
    BY <1>2, <1>5, <2>2
  <2>3. CASE epc = "errorTrailer"
    <3>1. CASE count = 0
      BY <1>2, <1>4, <2>3, <3>1
    <3>2. CASE count > 0
      BY <1>2, <1>4, <2>3, <3>2
    <3>. QED
      BY <1>1, <3>1, <3>2
  <2>. QED
    BY <1>6, <2>1, <2>2, <2>3
<1>7. ASSUME epc \in {"next", "comma", "element", "okTrailer", "errorTrailer"}
      PROVE  /\ Len(frames) \in {Written, Written + 1} /\ Len(frames) > 0
             /\ Len(frames) <= 2 * count + 1
  BY <1>1, <1>2, <1>6, <1>7
<1>. QED
  BY <1>1, <1>2, <1>7, Zenon

\* A step after which element count + 1 is the last frame, behind its comma.
LEMMA ElementStep ==
    ASSUME EncInv, epc = "element", count' = count + 1,
           frames' \in Seq(Frame), Len(frames') = 2 * count + 2,
           Len(frames) <= 2 * count + 1,
           \A i \in 1..Len(frames) : frames'[i] = frames[i],
           frames'[2 * count + 2].kind = "element",
           frames'[2 * count + 2].item = count + 1,
           count > 0 => frames'[2 * count + 1].kind = "comma"
    PROVE  ElementsInOrder'
<1>1. /\ count \in Nat /\ Len(frames) \in Nat
      /\ DOMAIN frames = 1..Len(frames)
      /\ DOMAIN frames' = 1..(2 * count + 2)
  BY LenProperties DEF EncInv, EncTypeOK
<1>2. Len(frames) > 0
  BY FramesSoFar
<1>3. frames'[1].kind = "header"
  BY <1>1, <1>2 DEF EncInv, ElementsInOrder
<1>4. ASSUME NEW k \in 1..(count + 1)
      PROVE  /\ 2 * k \in DOMAIN frames'
             /\ frames'[2 * k].kind = "element" /\ frames'[2 * k].item = k
  <2>1. CASE k \in 1..count
    <3>1. 2 * k \in 1..Len(frames)
      BY <1>1, <2>1 DEF EncInv, ElementsInOrder
    <3>2. frames[2 * k].kind = "element" /\ frames[2 * k].item = k
      BY <2>1 DEF EncInv, ElementsInOrder
    <3>. QED
      BY <1>1, <3>1, <3>2
  <2>2. CASE k = count + 1
    <3>1. 2 * k = 2 * count + 2
      BY <1>1, <2>2
    <3>. QED
      BY <1>1, <2>2, <3>1
  <2>. QED
    BY <1>1, <2>1, <2>2
<1>5. ASSUME NEW k \in 1..count
      PROVE  frames'[2 * k + 1].kind = "comma"
  <2>1. CASE k \in 1..(count - 1)
    <3>1. k + 1 \in 1..count
      BY <1>1, <2>1
    <3>2. 2 * (k + 1) \in 1..Len(frames)
      BY <1>1, <3>1 DEF EncInv, ElementsInOrder
    <3>3. 2 * k + 1 \in 1..Len(frames)
      BY <1>1, <3>2
    <3>4. frames[2 * k + 1].kind = "comma"
      BY <2>1 DEF EncInv, ElementsInOrder
    <3>. QED
      BY <3>3, <3>4
  <2>2. CASE k = count
    BY <1>1, <2>2
  <2>. QED
    BY <1>1, <2>1, <2>2
<1>6. (count + 1) - 1 = count /\ 2 * count + 2 <= 2 * (count + 1) + 2
  BY <1>1
<1>. QED
  BY <1>3, <1>4, <1>5, <1>6 DEF ElementsInOrder

\* A step that appends nothing to the elements keeps their order.
LEMMA SameElements ==
    ASSUME EncInv, count' = count,
           frames' \in Seq(Frame), Len(frames') <= 2 * count + 2,
           Len(frames') >= Len(frames), Len(frames) > 0,
           \A i \in 1..Len(frames) : frames'[i] = frames[i]
    PROVE  ElementsInOrder'
<1>1. /\ count \in Nat /\ Len(frames) \in Nat /\ Len(frames') \in Nat
      /\ DOMAIN frames = 1..Len(frames)
      /\ DOMAIN frames' = 1..Len(frames')
  BY LenProperties DEF EncInv, EncTypeOK
<1>2. frames'[1].kind = "header"
  BY <1>1 DEF EncInv, ElementsInOrder
<1>3. ASSUME NEW k \in 1..count
      PROVE  /\ 2 * k \in 1..Len(frames)
             /\ 2 * k \in DOMAIN frames'
             /\ frames'[2 * k].kind = "element" /\ frames'[2 * k].item = k
  <2>1. 2 * k \in 1..Len(frames)
    BY <1>1 DEF EncInv, ElementsInOrder
  <2>. QED
    BY <1>1, <2>1 DEF EncInv, ElementsInOrder
<1>4. ASSUME NEW k \in 1..(count - 1)
      PROVE  frames'[2 * k + 1].kind = "comma"
  <2>1. k + 1 \in 1..count
    BY <1>1
  <2>2. 2 * k + 1 \in 1..Len(frames)
    BY <1>1, <1>3, <2>1
  <2>. QED
    BY <2>2 DEF EncInv, ElementsInOrder
<1>. QED
  BY <1>2, <1>3, <1>4 DEF ElementsInOrder

\* The invariant after a failure has been raised: whether the handler signals
\* it is a matter of the port alone.
LEMMA RaiseStep ==
    ASSUME EncInv, epc \in {"next", "comma", "element"},
           UNCHANGED <<enc, source, ending, count, wire, frames, broken>>,
           NEW kind, Raise(kind),
           ending # "exhausted" \/ broken,
           kind \in {"encode", ending} \/ broken,
           epc # "element" \/ count > 0 \/ Len(frames) = 1
    PROVE  StatusLast' /\ ElementsInOrder' /\ StatusTruthful'
           /\ Progress' /\ FailureSignalled'
<1>1. StatusLast' /\ ElementsInOrder' /\ StatusTruthful' /\ Written' = Written
  BY SilentStep
<1>2. epc' \in {"errorTrailer", "raised"}
  BY RaiseTarget
<1>3. Len(frames) \in {Written, Written + 1} /\ (count = 0 => Len(frames) = 1)
  <2>1. count = 0 => Written = 1
    BY DEF Written
  <2>2. epc \in {"next", "comma"} => Len(frames) = Written
    BY DEF EncInv, Progress
  <2>. QED
    <3>1. CASE epc \in {"next", "comma"}
      BY <2>1, <2>2, <3>1
    <3>2. CASE epc = "element"
      <4>1. Len(frames) \in {Written, Written + 1}
        BY <3>2, FramesSoFar
      <4>2. count > 0 \/ Len(frames) = 1
        BY <3>2
      <4>3. count \in Nat
        BY FramesSoFar
      <4>. QED
        BY <4>1, <4>2, <4>3
    <3>. QED
      BY <3>1, <3>2
<1>4. Progress'
  BY <1>1, <1>2, <1>3 DEF Progress
<1>5. FailureSignalled'
  <2>1. ASSUME ~broken, ending \in {"source", "encode"}
        PROVE  epc' = "errorTrailer"
    <3>1. enc \in Encoders /\ ending \in Endings(enc)
      BY DEF EncInv, EncTypeOK
    <3>2. "encode" \in Port(enc).trailerOn
          /\ (ending = "source" => "source" \in Port(enc).trailerOn)
      BY <3>1, PortFacts
    <3>3. kind \in Port(enc).trailerOn
      BY <2>1, <3>2
    <3>. QED
      BY <3>3 DEF Raise
  <2>. QED
    BY <2>1 DEF FailureSignalled
<1>. QED
  BY <1>1, <1>4, <1>5

\* A write of one frame that is not a status.
LEMMA FrameStep ==
    ASSUME EncInv, epc \notin {"returned", "raised"},
           NEW kind \in {"header", "comma", "element"},
           NEW text \in Seq(Symbol), Write(kind, text)
    PROVE  /\ StatusLast' /\ StatusTruthful'
           /\ frames' \in Seq(Frame) /\ Len(frames') = Len(frames) + 1
           /\ frames'[Len(frames) + 1].kind = kind
           /\ frames'[Len(frames) + 1].item = count + 1
           /\ \A i \in 1..Len(frames) : frames'[i] = frames[i]
<1>1. /\ count \in Nat /\ frames \in Seq(Frame) /\ Len(frames) \in Nat
      /\ wire \in Seq(Symbol) /\ kind \in FrameKind
  BY LenProperties DEF EncInv, EncTypeOK, FrameKind
<1>2. /\ frames' \in Seq(Frame) /\ Len(frames') = Len(frames) + 1
      /\ frames'[Len(frames) + 1].kind = kind
      /\ frames'[Len(frames) + 1].item = count + 1
      /\ \A i \in 1..Len(frames) : frames'[i] = frames[i]
  BY <1>1, WriteTyped
<1>3. \A i \in Len(frames) + 1..Len(frames) + 1 :
          frames'[i].kind \in {"header", "comma", "element"}
  <2>. SUFFICES ASSUME NEW i \in Len(frames) + 1..Len(frames) + 1
                PROVE  frames'[i].kind \in {"header", "comma", "element"}
    OBVIOUS
  <2>1. i = Len(frames) + 1
    BY <1>1
  <2>. QED
    BY <1>2, <2>1
<1>4. 1 \in Nat
  OBVIOUS
<1>5. StatusLast' /\ StatusTruthful'
  BY <1>2, <1>3, <1>4, BodyStep
<1>. QED
  BY <1>2, <1>5

\* Every action keeps the safety part of the invariant.
LEMMA StepSafe == EncInv /\ [EncNext]_encVars => EncInv'
<1>. SUFFICES ASSUME EncInv, [EncNext]_encVars PROVE EncInv'
  OBVIOUS
<1>0. EncTypeOK'
  BY StepTyped DEF EncInv
<1>t. /\ count \in Nat /\ Len(source) \in Nat /\ count <= Len(source)
      /\ frames \in Seq(Frame) /\ Len(frames) \in Nat
      /\ DOMAIN frames = 1..Len(frames)
  BY LenProperties DEF EncInv, EncTypeOK
<1>z. epc \in {"comma", "element"} => count > 0 \/ Len(frames) = 1
  <2>1. epc = "comma" => count > 0
    BY DEF EncInv, Progress
  <2>2. epc = "element" /\ ~(count > 0) => Len(frames) = Written
    BY DEF EncInv, Progress
  <2>3. ~(count > 0) => Written = 1
    BY <1>t DEF Written
  <2>. QED
    BY <2>1, <2>2, <2>3
<1>1. CASE WriteHeader
  <2>1. /\ frames = <<>> /\ count = 0 /\ epc = "header" /\ epc' = "next"
        /\ UNCHANGED <<enc, source, ending, count, broken>>
        /\ Write("header", Header)
    BY <1>1 DEF WriteHeader, EncInv, Progress
  <2>2. Len(frames) = 0
    BY <2>1
  <2>3. /\ StatusLast' /\ StatusTruthful' /\ frames' \in Seq(Frame)
        /\ Len(frames') = Len(frames) + 1
        /\ frames'[Len(frames) + 1].kind = "header"
    BY <2>1, FrameStep, TextsAreWires
  <2>4. Len(frames') = 1 /\ frames'[1].kind = "header" /\ count' = 0
    BY <2>1, <2>2, <2>3
  <2>5. ElementsInOrder'
    <3>1. 1..count' = {} /\ 1..(count' - 1) = {}
      BY <2>4
    <3>2. Len(frames') <= 2 * count' + 2
      BY <2>4
    <3>. QED
      BY <2>4, <3>1, <3>2 DEF ElementsInOrder
  <2>6. Progress' /\ FailureSignalled'
    BY <2>1, <2>4 DEF Progress, Written, FailureSignalled
  <2>. QED
    BY <1>0, <2>3, <2>5, <2>6 DEF EncInv
<1>2. CASE NextItem
  <2>1. epc = "next" /\ UNCHANGED <<enc, source, ending, count, wire, frames, broken>>
        /\ epc' = IF count > 0 /\ ~Joint THEN "comma" ELSE "element"
    BY <1>2 DEF NextItem
  <2>2. StatusLast' /\ ElementsInOrder' /\ StatusTruthful' /\ Written' = Written
        /\ (Joint' <=> Joint) /\ HasItem'
    BY <1>2, <2>1, SilentStep DEF NextItem, HasItem
  <2>3. Len(frames) = Written
    BY <2>1 DEF EncInv, Progress
  <2>4. Progress'
    <3>1. CASE count > 0 /\ ~Joint
      BY <2>1, <2>2, <2>3, <3>1 DEF Progress
    <3>2. CASE ~(count > 0 /\ ~Joint)
      BY <2>1, <2>2, <2>3, <3>2 DEF Progress
    <3>. QED
      BY <3>1, <3>2
  <2>5. FailureSignalled'
    BY <2>1 DEF FailureSignalled
  <2>. QED
    BY <1>0, <2>2, <2>4, <2>5 DEF EncInv
<1>3. CASE WriteComma
  <2>1. /\ epc = "comma" /\ epc' = "element"
        /\ UNCHANGED <<enc, source, ending, count, broken>>
        /\ Write("comma", <<",">>)
    BY <1>3 DEF WriteComma
  <2>2. count > 0 /\ ~Joint /\ Len(frames) = Written
    BY <2>1 DEF EncInv, Progress
  <2>3. /\ StatusLast' /\ StatusTruthful'
        /\ frames' \in Seq(Frame) /\ Len(frames') = Len(frames) + 1
        /\ frames'[Len(frames) + 1].kind = "comma"
        /\ \A i \in 1..Len(frames) : frames'[i] = frames[i]
    BY <2>1, FrameStep, TextsAreWires
  <2>4. Written \in Nat /\ Written <= 2 * count + 1 /\ Written > 0 /\ Written = 2 * count
    BY <2>2, FramesSoFar
  <2>5. ElementsInOrder'
    <3>1. Len(frames') <= 2 * count + 2 /\ Len(frames') >= Len(frames) /\ Len(frames) > 0
      BY <1>t, <2>2, <2>3, <2>4
    <3>. QED
      BY <2>1, <2>3, <3>1, SameElements
  <2>6. Written' = Written /\ (Joint' <=> Joint) /\ HasItem'
    BY <2>1 DEF Written, Joint, HasItem, EncInv, Progress
  <2>7. Len(frames') = Written' + 1 /\ frames'[Written' + 1].kind = "comma"
    BY <2>2, <2>3, <2>6
  <2>8. Progress' /\ FailureSignalled'
    <3>1. count' > 0 /\ ~Joint'
      BY <2>1, <2>2, <2>6
    <3>. QED
      BY <2>1, <2>6, <2>7, <3>1 DEF Progress, FailureSignalled
  <2>. QED
    BY <1>0, <2>3, <2>5, <2>8 DEF EncInv
<1>4. CASE WriteElement
  <2>1. /\ epc = "element" /\ epc' = "next" /\ (~Joint \/ count = 0)
        /\ count' = count + 1 /\ count < Len(source)
        /\ UNCHANGED <<enc, source, ending, broken>>
        /\ Write("element", Text[source[count + 1]])
    BY <1>4 DEF WriteElement
  <2>2. Text[source[count + 1]] \in Seq(Symbol)
    BY <2>1, NextText DEF EncInv
  <2>3. /\ StatusLast' /\ StatusTruthful'
        /\ frames' \in Seq(Frame) /\ Len(frames') = Len(frames) + 1
        /\ frames'[Len(frames) + 1].kind = "element"
        /\ frames'[Len(frames) + 1].item = count + 1
        /\ \A i \in 1..Len(frames) : frames'[i] = frames[i]
    BY <2>1, <2>2, FrameStep
  <2>4. Len(frames) = 2 * count + 1
    <3>1. CASE count = 0
      <4>1. Len(frames) = Written
        BY <2>1, <3>1 DEF EncInv, Progress
      <4>. QED
        BY <3>1, <4>1 DEF Written
    <3>2. CASE count > 0
      <4>0. count # 0
        BY <3>2
      <4>1. ~Joint
        BY <2>1, <4>0, Zenon
      <4>2. Len(frames) = Written + 1
        BY <2>1, <3>2, <4>1 DEF EncInv, Progress
      <4>3. Written = 2 * count
        BY <3>2, FramesSoFar
      <4>. QED
        BY <4>2, <4>3
    <3>3. count = 0 \/ count > 0
      BY <1>t
    <3>. QED
      BY <3>1, <3>2, <3>3, Zenon
  <2>5. count > 0 => frames[2 * count + 1].kind = "comma"
    <3>. SUFFICES ASSUME count > 0 PROVE frames[2 * count + 1].kind = "comma"
      OBVIOUS
    <3>0. count # 0
      OBVIOUS
    <3>1. ~Joint
      BY <2>1, <3>0, Zenon
    <3>2. frames[Written + 1].kind = "comma"
      BY <2>1, <3>1 DEF EncInv, Progress
    <3>. QED
      BY <3>2, FramesSoFar
  <2>6. ElementsInOrder'
    <3>1. /\ Len(frames') = 2 * count + 2 /\ Len(frames) <= 2 * count + 1
          /\ Len(frames) + 1 = 2 * count + 2 /\ 2 * count + 1 \in 1..Len(frames)
      BY <1>t, <2>3, <2>4
    <3>2. /\ frames'[2 * count + 2].kind = "element"
          /\ frames'[2 * count + 2].item = count + 1
          /\ count > 0 => frames'[2 * count + 1].kind = "comma"
      BY <2>3, <2>5, <3>1
    <3>. QED
      BY <2>1, <2>3, <3>1, <3>2, ElementStep
  <2>7. Len(frames') = Written' /\ count' > 0
    BY <1>t, <2>1, <2>3, <2>4 DEF Written
  <2>8. Progress' /\ FailureSignalled'
    BY <2>1, <2>7 DEF Progress, FailureSignalled
  <2>. QED
    BY <1>0, <2>3, <2>6, <2>8 DEF EncInv
<1>5. CASE WriteCommaAndElement
  <2>. DEFINE f == [kind |-> "comma", item |-> count + 1, start |-> Len(wire)]
              g == [kind |-> "element", item |-> count + 1, start |-> Len(wire) + 1]
  <2>1. /\ epc = "element" /\ epc' = "next" /\ Joint /\ count > 0
        /\ count' = count + 1 /\ count < Len(source)
        /\ UNCHANGED <<enc, source, ending, broken>>
        /\ frames' = frames \o <<f, g>>
    BY <1>5 DEF WriteCommaAndElement
  <2>2. f \in Frame /\ g \in Frame
    BY <1>t, LenProperties DEF Frame, FrameKind, EncInv, EncTypeOK
  <2>3. f.kind = "comma" /\ g.kind = "element" /\ g.item = count + 1
    OBVIOUS
  <2>. HIDE DEF f, g
  <2>4. /\ frames' \in Seq(Frame) /\ Len(frames') = Len(frames) + 2
        /\ frames'[Len(frames) + 1] = f /\ frames'[Len(frames) + 2] = g
        /\ \A i \in 1..Len(frames) : frames'[i] = frames[i]
    BY <1>t, <2>1, <2>2
  <2>5. Len(frames) = 2 * count
    <3>1. Len(frames) = Written
      BY <2>1 DEF EncInv, Progress
    <3>. QED
      BY <2>1, <3>1, FramesSoFar
  <2>6. StatusLast' /\ StatusTruthful'
    <3>1. \A i \in Len(frames) + 1..Len(frames) + 2 :
              frames'[i].kind \in {"header", "comma", "element"}
      <4>. SUFFICES ASSUME NEW i \in Len(frames) + 1..Len(frames) + 2
                    PROVE  frames'[i].kind \in {"header", "comma", "element"}
        OBVIOUS
      <4>1. i = Len(frames) + 1 \/ i = Len(frames) + 2
        BY <1>t
      <4>. QED
        BY <2>3, <2>4, <4>1
    <3>2. 2 \in Nat /\ epc \notin {"returned", "raised"}
      BY <2>1
    <3>. QED
      BY <2>4, <3>1, <3>2, BodyStep
  <2>7. ElementsInOrder'
    <3>1. /\ Len(frames') = 2 * count + 2 /\ Len(frames) <= 2 * count + 1
      BY <1>t, <2>4, <2>5
    <3>2. /\ frames'[2 * count + 2].kind = "element"
          /\ frames'[2 * count + 2].item = count + 1
          /\ frames'[2 * count + 1].kind = "comma"
      BY <2>3, <2>4, <2>5
    <3>. QED
      BY <2>1, <2>4, <3>1, <3>2, ElementStep
  <2>8. Len(frames') = Written' /\ count' > 0
    BY <1>t, <2>1, <2>4, <2>5 DEF Written
  <2>9. Progress' /\ FailureSignalled'
    BY <2>1, <2>8 DEF Progress, FailureSignalled
  <2>. QED
    BY <1>0, <2>6, <2>7, <2>9 DEF EncInv
<1>6. CASE EncodeFails
  <2>1. /\ epc = "element" /\ count = Len(source) /\ Raise("encode")
        /\ UNCHANGED <<enc, source, ending, count, wire, frames, broken>>
    BY <1>6 DEF EncodeFails
  <2>2. ending = "encode"
    BY <1>t, <2>1 DEF EncInv, Progress, HasItem
  <2>3. count > 0 \/ Len(frames) = 1
    BY <2>1, <1>z
  <2>4. StatusLast' /\ ElementsInOrder' /\ StatusTruthful'
        /\ Progress' /\ FailureSignalled'
    BY <2>1, <2>2, <2>3, RaiseStep
  <2>. QED
    BY <1>0, <2>4 DEF EncInv
<1>7. CASE SourceFails
  <2>1. /\ epc = "next" /\ ending # "exhausted" /\ Raise(ending)
        /\ UNCHANGED <<enc, source, ending, count, wire, frames, broken>>
    BY <1>7 DEF SourceFails
  <2>2. StatusLast' /\ ElementsInOrder' /\ StatusTruthful'
        /\ Progress' /\ FailureSignalled'
    BY <2>1, RaiseStep
  <2>. QED
    BY <1>0, <2>2 DEF EncInv
<1>8. CASE SourceEnds
  <2>1. /\ epc = "next" /\ ending = "exhausted" /\ count = Len(source)
        /\ epc' = "okTrailer"
        /\ UNCHANGED <<enc, source, ending, count, wire, frames, broken>>
    BY <1>8 DEF SourceEnds
  <2>2. StatusLast' /\ ElementsInOrder' /\ StatusTruthful' /\ Written' = Written
    BY <2>1, SilentStep
  <2>3. Progress' /\ FailureSignalled'
    BY <2>1, <2>2 DEF EncInv, Progress, FailureSignalled
  <2>. QED
    BY <1>0, <2>2, <2>3 DEF EncInv
<1>9. CASE WriteOkTrailer
  <2>1. /\ epc = "okTrailer" /\ epc' = "returned" /\ Write("ok", Status(TRUE))
        /\ UNCHANGED <<enc, source, ending, count, broken>>
    BY <1>9 DEF WriteOkTrailer
  <2>2. Len(frames) > 0 /\ Len(frames) <= 2 * count + 1
    BY <2>1, FramesSoFar
  <2>3. StatusLast' /\ ElementsInOrder' /\ HasStatus("ok")' /\ ~HasStatus("error")'
    BY <2>1, <2>2, StatusStep
  <2>4. ending = "exhausted" /\ count = Len(source)
    BY <2>1 DEF EncInv, Progress
  <2>5. StatusTruthful' /\ Progress' /\ FailureSignalled'
    BY <2>1, <2>3, <2>4 DEF StatusTruthful, Progress, FailureSignalled
  <2>. QED
    BY <1>0, <2>3, <2>5 DEF EncInv
<1>10. CASE WriteErrorTrailer
  <2>1. /\ epc = "errorTrailer" /\ epc' = "raised" /\ Write("error", Status(FALSE))
        /\ UNCHANGED <<enc, source, ending, count, broken>>
    BY <1>10 DEF WriteErrorTrailer
  <2>2. Len(frames) > 0 /\ Len(frames) <= 2 * count + 1
    BY <2>1, FramesSoFar
  <2>3. StatusLast' /\ ElementsInOrder' /\ ~HasStatus("ok")' /\ HasStatus("error")'
    BY <2>1, <2>2, StatusStep
  <2>4. ending # "exhausted" \/ broken
    BY <2>1 DEF EncInv, Progress
  <2>5. StatusTruthful' /\ Progress' /\ FailureSignalled'
    BY <2>1, <2>3, <2>4 DEF StatusTruthful, Progress, FailureSignalled
  <2>. QED
    BY <1>0, <2>3, <2>5 DEF EncInv
<1>11. CASE WriteFails
  <2>1. /\ broken /\ epc \in Writing
        /\ UNCHANGED <<enc, source, ending, count, wire, frames, broken>>
        /\ IF epc \in {"comma", "element"} THEN Raise("write") ELSE epc' = "raised"
    BY <1>11 DEF WriteFails
  <2>2. CASE epc \in {"comma", "element"}
    <3>1. Raise("write")
      BY <2>1, <2>2
    <3>2. count > 0 \/ Len(frames) = 1
      BY <2>2, <1>z
    <3>3. StatusLast' /\ ElementsInOrder' /\ StatusTruthful'
          /\ Progress' /\ FailureSignalled'
      BY <2>1, <2>2, <3>1, <3>2, RaiseStep
    <3>. QED
      BY <1>0, <3>3 DEF EncInv
  <2>3. CASE epc \notin {"comma", "element"}
    <3>1. StatusLast' /\ ElementsInOrder' /\ StatusTruthful' /\ epc' = "raised"
      BY <2>1, <2>3, SilentStep DEF Writing
    <3>2. Progress' /\ FailureSignalled'
      BY <2>1, <3>1 DEF Progress, FailureSignalled
    <3>. QED
      BY <1>0, <3>1, <3>2 DEF EncInv
  <2>. QED
    BY <2>2, <2>3
<1>12. CASE WriteHangs
  <2>1. /\ epc \in Writing /\ epc' = "hung"
        /\ UNCHANGED <<enc, source, ending, count, wire, frames, broken>>
    BY <1>12 DEF WriteHangs
  <2>2. StatusLast' /\ ElementsInOrder' /\ StatusTruthful'
    BY <2>1, SilentStep DEF Writing
  <2>3. Progress' /\ FailureSignalled'
    BY <2>1 DEF Progress, FailureSignalled
  <2>. QED
    BY <1>0, <2>2, <2>3 DEF EncInv
<1>13. CASE Break
  <2>1. /\ broken' = TRUE
        /\ UNCHANGED <<enc, source, ending, count, epc, wire, frames>>
    BY <1>13 DEF Break
  <2>2. Progress' /\ StatusLast' /\ ElementsInOrder'
    BY <2>1 DEF EncInv, Progress, Written, Joint, HasItem, StatusLast, ElementsInOrder
  <2>3. StatusTruthful' /\ FailureSignalled'
    BY <2>1 DEF EncInv, StatusTruthful, HasStatus, FailureSignalled
  <2>. QED
    BY <1>0, <2>2, <2>3 DEF EncInv
<1>14. CASE UNCHANGED encVars
  <2>1. UNCHANGED <<enc, source, ending, count, epc, wire, frames, broken>>
    BY <1>14 DEF encVars
  <2>. QED
    BY <1>0, <2>1 DEF EncInv, Progress, Written, Joint, HasItem, StatusLast, ElementsInOrder,
       StatusTruthful, HasStatus, FailureSignalled
<1>. QED
  BY <1>1, <1>2, <1>3, <1>4, <1>5, <1>6, <1>7, <1>8, <1>9, <1>10, <1>11,
     <1>12, <1>13, <1>14 DEF EncNext, EncStep

\* The inductive invariant.
THEOREM EncoderSafe == EncSpec => []EncInv
<1>. QED
  BY InitSafe, StepSafe, PTL DEF EncSpec

\* "The terminal status is written last" (docs/FAILURE.md): in every port,
\* whatever fails, nothing follows a status and no second status is written.
THEOREM StatusIsLast == EncSpec => []StatusLast
<1>1. EncInv => StatusLast
  BY DEF EncInv
<1>. QED
  BY <1>1, EncoderSafe, PTL

\* "Rows already sent stay valid" as far as the encoder is concerned: at any
\* instant the array on the wire is the values encoded so far, in order.
THEOREM WireInOrder == EncSpec => []ElementsInOrder
<1>1. EncInv => ElementsInOrder
  BY DEF EncInv
<1>. QED
  BY <1>1, EncoderSafe, PTL

\* A consumer that sees complete:true knows the source ended by itself and
\* nothing of it is missing; one that sees complete:false knows it failed.
THEOREM StatusIsTruthful == EncSpec => []StatusTruthful
<1>1. EncInv => StatusTruthful
  BY DEF EncInv
<1>. QED
  BY <1>1, EncoderSafe, PTL

\* Every failure of an element, and every exception of the source that the
\* port's handler is documented to catch, is signalled in-band before it is
\* raised, unless the connection under the writer is gone.
THEOREM FailureIsSignalled == EncSpec => []FailureSignalled
<1>1. EncInv => FailureSignalled
  BY DEF EncInv
<1>. QED
  BY <1>1, EncoderSafe, PTL

-----------------------------------------------------------------------------
(***************************************************************************)
(* The wire as the decoders meet it: the texts of the frames, end to end.  *)
(* EncInv says which frames there are; Layout says where their symbols     *)
(* are.                                                                    *)
(***************************************************************************)
End(f) == f.start + Len(FrameText(f))

LaidOut(w, fs) ==
    /\ fs = <<>> => w = <<>>
    /\ fs # <<>> => fs[1].start = 0 /\ End(fs[Len(fs)]) = Len(w)
    /\ \A i \in 1..Len(fs) :
          /\ FrameText(fs[i]) \in Seq(Symbol)
          /\ End(fs[i]) <= Len(w)
          /\ \A j \in 1..Len(FrameText(fs[i])) :
                w[fs[i].start + j] = FrameText(fs[i])[j]
    /\ \A i \in 1..(Len(fs) - 1) : fs[i + 1].start = End(fs[i])
    /\ \A i, j \in 1..Len(fs) : i < j => End(fs[i]) <= fs[j].start

\* Headers, elements and commas stand where ElementsInOrder has them, and
\* nowhere else.
Placed ==
    \A i \in DOMAIN frames :
        /\ frames[i].kind = "header" => i = 1
        /\ frames[i].kind = "element" =>
              frames[i].item \in 1..count /\ i = 2 * frames[i].item
        /\ frames[i].kind = "comma" => \E k \in 1..count : i = 2 * k + 1

WireInv == EncInv /\ LaidOut(wire, frames) /\ Placed

\* One more frame at the end of the wire.
LEMMA OneMoreFrame ==
    ASSUME NEW w \in Seq(Symbol), NEW fs \in Seq(Frame), LaidOut(w, fs),
           NEW f \in Frame, f.start = Len(w),
           NEW text \in Seq(Symbol), FrameText(f) = text
    PROVE  LaidOut(w \o text, Append(fs, f))
<1>. DEFINE v  == w \o text
            gs == Append(fs, f)
            n  == Len(fs)
<1>1. /\ n \in Nat /\ Len(w) \in Nat /\ Len(text) \in Nat
      /\ Len(v) = Len(w) + Len(text)
      /\ \A i \in 1..Len(w) : v[i] = w[i]
      /\ \A j \in 1..Len(text) : v[Len(w) + j] = text[j]
  <2>1. n \in Nat /\ Len(w) \in Nat /\ Len(text) \in Nat
    BY LenProperties
  <2>. QED
    BY <2>1, ConcatProperties
<1>2. /\ Len(gs) = n + 1 /\ gs[n + 1] = f /\ gs # <<>>
      /\ \A i \in 1..n : gs[i] = fs[i]
  BY <1>1, AppendProperties
<1>3. End(f) = Len(w) + Len(text)
  BY DEF End
<1>4. \A i \in 1..n : fs[i].start \in Nat
  <2>1. \A i \in 1..n : fs[i] \in Frame
    BY LenProperties
  <2>. QED
    BY <2>1 DEF Frame
<1>. HIDE DEF v, gs, n
<1>5. gs[1].start = 0
  <2>1. CASE n = 0
    <3>1. fs = <<>>
      BY <2>1 DEF n
    <3>2. Len(w) = 0
      BY <3>1 DEF LaidOut
    <3>. QED
      BY <1>2, <2>1, <3>2
  <2>2. CASE n > 0
    <3>1. fs[1].start = 0
      BY <1>1, <2>2, EmptySeq DEF LaidOut, n
    <3>. QED
      BY <1>1, <1>2, <2>2, <3>1
  <2>. QED
    BY <1>1, <2>1, <2>2
<1>6. ASSUME NEW i \in 1..(n + 1)
      PROVE  /\ FrameText(gs[i]) \in Seq(Symbol)
             /\ End(gs[i]) <= Len(v)
             /\ \A j \in 1..Len(FrameText(gs[i])) :
                   v[gs[i].start + j] = FrameText(gs[i])[j]
  <2>1. CASE i = n + 1
    <3>1. gs[i] = f
      BY <1>2, <2>1
    <3>2. End(gs[i]) <= Len(v)
      BY <1>1, <1>3, <3>1
    <3>3. \A j \in 1..Len(text) : v[f.start + j] = text[j]
      BY <1>1
    <3>. QED
      BY <3>1, <3>2, <3>3
  <2>2. CASE i \in 1..n
    <3>1. /\ FrameText(fs[i]) \in Seq(Symbol)
          /\ End(fs[i]) <= Len(w)
          /\ \A j \in 1..Len(FrameText(fs[i])) :
                w[fs[i].start + j] = FrameText(fs[i])[j]
      BY <2>2 DEF LaidOut, n
    <3>2. Len(FrameText(fs[i])) \in Nat /\ fs[i].start \in Nat
          /\ End(fs[i]) = fs[i].start + Len(FrameText(fs[i]))
      BY <1>4, <2>2, <3>1, LenProperties DEF End
    <3>3. ASSUME NEW j \in 1..Len(FrameText(fs[i]))
          PROVE  v[fs[i].start + j] = FrameText(fs[i])[j]
      <4>1. fs[i].start + j \in 1..Len(w)
        BY <1>1, <3>1, <3>2, SMTT(40)
      <4>. QED
        BY <1>1, <3>1, <4>1
    <3>4. gs[i] = fs[i]
      BY <1>2, <2>2
    <3>5. End(gs[i]) <= Len(v)
      BY <1>1, <3>1, <3>2, <3>4
    <3>. QED
      BY <3>1, <3>3, <3>4, <3>5
  <2>. QED
    BY <1>1, <2>1, <2>2
<1>7. ASSUME NEW i \in 1..n
      PROVE  gs[i + 1].start = End(gs[i])
  <2>1. CASE i = n
    <3>1. fs # <<>>
      BY <1>1, <2>1, EmptySeq DEF n
    <3>2. End(fs[n]) = Len(w)
      BY <3>1 DEF LaidOut, n
    <3>. QED
      BY <1>2, <2>1, <3>2
  <2>2. CASE i \in 1..(n - 1)
    <3>1. fs[i + 1].start = End(fs[i])
      BY <2>2 DEF LaidOut, n
    <3>. QED
      BY <1>1, <1>2, <2>2, <3>1
  <2>. QED
    BY <1>1, <2>1, <2>2
<1>8. ASSUME NEW i \in 1..(n + 1), NEW j \in 1..(n + 1), i < j
      PROVE  End(gs[i]) <= gs[j].start
  <2>1. i \in 1..n
    BY <1>1, <1>8
  <2>2. CASE j \in 1..n
    BY <1>2, <1>8, <2>1, <2>2 DEF LaidOut, n
  <2>3. CASE j = n + 1
    BY <1>2, <2>1, <2>3 DEF LaidOut, n
  <2>. QED
    BY <1>1, <2>2, <2>3
<1>9. End(gs[n + 1]) = Len(v)
  BY <1>1, <1>2, <1>3
<1>10. LaidOut(v, gs)
  <2>1. n = Len(gs) - 1 /\ 1..(n + 1) = 1..Len(gs)
    BY <1>1, <1>2
  <2>. QED
    BY <1>2, <1>5, <1>6, <1>7, <1>8, <1>9, <2>1 DEF LaidOut
<1>. QED
  BY <1>10 DEF v, gs

\* Appending two at once, or one after the other.
LEMMA AppendTwo ==
    ASSUME NEW S, NEW s \in Seq(S), NEW a \in S, NEW b \in S
    PROVE  /\ s \o <<a, b>> = Append(Append(s, a), b)
           /\ s \o <<a, b>> \in Seq(S)
           /\ Len(s \o <<a, b>>) = Len(s) + 2
           /\ (s \o <<a, b>>)[Len(s) + 1] = a
           /\ (s \o <<a, b>>)[Len(s) + 2] = b
           /\ \A i \in 1..Len(s) : (s \o <<a, b>>)[i] = s[i]
<1>1. Len(s) \in Nat
  BY LenProperties
<1>2. <<a, b>> \in Seq(S) /\ Len(<<a, b>>) = 2
      /\ <<a, b>>[1] = a /\ <<a, b>>[2] = b
  BY Tuple2
<1>. DEFINE p == <<a, b>>
            t == s \o p
            q == Append(s, a)
            u == Append(q, b)
<1>. HIDE DEF p
<1>3. /\ t \in Seq(S) /\ Len(t) = Len(s) + 2
      /\ \A i \in 1..(Len(s) + 2) :
            t[i] = IF i <= Len(s) THEN s[i] ELSE p[i - Len(s)]
  BY <1>1, <1>2, ConcatProperties DEF p
<1>4. /\ q \in Seq(S) /\ Len(q) = Len(s) + 1 /\ q[Len(s) + 1] = a
      /\ \A i \in 1..Len(s) : q[i] = s[i]
  BY <1>1, AppendProperties
<1>. HIDE DEF q
<1>5. /\ u \in Seq(S) /\ Len(u) = Len(s) + 2 /\ u[Len(s) + 2] = b
      /\ \A i \in 1..(Len(s) + 1) : u[i] = q[i]
  BY <1>1, <1>4, AppendProperties
<1>. HIDE DEF t, u
<1>6. /\ t[Len(s) + 1] = a /\ t[Len(s) + 2] = b
      /\ \A i \in 1..Len(s) : t[i] = s[i]
  BY <1>1, <1>2, <1>3 DEF p
<1>7. ASSUME NEW i \in 1..(Len(s) + 2)
      PROVE  t[i] = u[i]
  <2>1. CASE i \in 1..Len(s)
    BY <1>1, <1>4, <1>5, <1>6, <2>1
  <2>2. CASE i = Len(s) + 1
    BY <1>1, <1>4, <1>5, <1>6, <2>2
  <2>3. CASE i = Len(s) + 2
    BY <1>5, <1>6, <2>3
  <2>. QED
    BY <1>1, <2>1, <2>2, <2>3
<1>8. t = u
  BY <1>1, <1>3, <1>5, <1>7, SeqEqual
<1>. QED
  BY <1>3, <1>6, <1>8 DEF t, u, p, q

LEMMA SameSource ==
    ASSUME source' = source, LaidOut(wire', frames')
    PROVE  LaidOut(wire, frames)'
<1>1. \A f : FrameText(f)' = FrameText(f)
  BY DEF FrameText
<1>2. \A f : End(f)' = End(f)
  BY <1>1 DEF End
<1>. QED
  BY <1>1, <1>2 DEF LaidOut

\* A step that writes one frame keeps the layout, if it writes the frame's text.
LEMMA WriteLaid ==
    ASSUME EncTypeOK, LaidOut(wire, frames), source' = source,
           NEW kind \in FrameKind, NEW text \in Seq(Symbol), Write(kind, text),
           FrameText([kind |-> kind, item |-> count + 1, start |-> Len(wire)]) = text
    PROVE  LaidOut(wire, frames)'
<1>. DEFINE f == [kind |-> kind, item |-> count + 1, start |-> Len(wire)]
<1>1. /\ wire \in Seq(Symbol) /\ frames \in Seq(Frame)
      /\ count \in Nat /\ Len(wire) \in Nat
  BY LenProperties DEF EncTypeOK
<1>2. f \in Frame /\ f.start = Len(wire) /\ FrameText(f) = text
  BY <1>1 DEF Frame
<1>3. wire' = wire \o text /\ frames' = Append(frames, f)
  BY DEF Write
<1>. HIDE DEF f
<1>4. LaidOut(wire', frames')
  BY <1>1, <1>2, <1>3, OneMoreFrame
<1>. QED
  BY <1>4, SameSource

\* A step that appends n frames keeps each in its place, if the new ones are.
LEMMA PlacedStep ==
    ASSUME EncTypeOK, Placed, NEW n \in Nat,
           frames' \in Seq(Frame), Len(frames') = Len(frames) + n,
           \A i \in 1..Len(frames) : frames'[i] = frames[i],
           count' \in Nat, count <= count',
           \A i \in (Len(frames) + 1)..(Len(frames) + n) :
               /\ frames'[i].kind = "header" => i = 1
               /\ frames'[i].kind = "element" =>
                     frames'[i].item \in 1..count' /\ i = 2 * frames'[i].item
               /\ frames'[i].kind = "comma" => \E k \in 1..count' : i = 2 * k + 1
    PROVE  Placed'
<1>1. /\ Len(frames) \in Nat /\ count \in Nat
      /\ DOMAIN frames = 1..Len(frames)
      /\ DOMAIN frames' = 1..(Len(frames) + n)
  BY LenProperties DEF EncTypeOK
<1>2. 1..count \subseteq 1..count'
  BY <1>1
<1>3. ASSUME NEW i \in 1..(Len(frames) + n)
      PROVE  /\ frames'[i].kind = "header" => i = 1
             /\ frames'[i].kind = "element" =>
                   frames'[i].item \in 1..count' /\ i = 2 * frames'[i].item
             /\ frames'[i].kind = "comma" => \E k \in 1..count' : i = 2 * k + 1
  <2>1. CASE i \in 1..Len(frames)
    <3>1. frames'[i] = frames[i] /\ i \in DOMAIN frames
      BY <1>1, <2>1
    <3>. QED
      BY <1>2, <3>1, Zenon DEF Placed
  <2>2. CASE i \in (Len(frames) + 1)..(Len(frames) + n)
    BY <2>2, Zenon
  <2>. QED
    BY <1>1, <2>1, <2>2
<1>. QED
  BY <1>1, <1>3, Zenon DEF Placed

\* How many frames there are when the next one is written.
LEMMA FramesBefore ==
    ASSUME EncInv
    PROVE  /\ epc = "header" => Len(frames) = 0
           /\ epc = "comma" => count > 0 /\ Len(frames) = 2 * count
           /\ epc = "element" =>
                 Len(frames) = (IF Joint /\ count > 0 THEN 2 * count
                                                      ELSE 2 * count + 1)
<1>1. count \in Nat
  BY DEF EncInv, EncTypeOK
<1>2. (count > 0 => Written = 2 * count) /\ (count = 0 => Written = 1)
  BY <1>1 DEF Written
<1>3. epc = "header" => Len(frames) = 0
  BY EmptySeq DEF EncInv, Progress
<1>4. epc = "comma" => count > 0 /\ Len(frames) = 2 * count
  <2>1. epc = "comma" => count > 0 /\ Len(frames) = Written
    BY DEF EncInv, Progress
  <2>. QED
    BY <1>2, <2>1
<1>5. ASSUME epc = "element"
      PROVE  Len(frames) = (IF Joint /\ count > 0 THEN 2 * count
                                                  ELSE 2 * count + 1)
  <2>1. IF count > 0 /\ ~Joint THEN Len(frames) = Written + 1
                               ELSE Len(frames) = Written
    BY <1>5 DEF EncInv, Progress
  <2>2. CASE count > 0 /\ ~Joint
    BY <1>2, <2>1, <2>2
  <2>3. CASE count > 0 /\ Joint
    BY <1>2, <2>1, <2>3
  <2>4. CASE count = 0
    BY <1>2, <2>1, <2>4
  <2>. QED
    BY <1>1, <2>2, <2>3, <2>4
<1>. QED
  BY <1>3, <1>4, <1>5

LEMMA InitLaid == EncInit => WireInv
<1>. SUFFICES ASSUME EncInit PROVE WireInv
  OBVIOUS
<1>1. frames = <<>> /\ wire = <<>> /\ Len(frames) = 0 /\ DOMAIN frames = {}
  BY DEF EncInit
<1>2. LaidOut(wire, frames)
  BY <1>1 DEF LaidOut
<1>3. Placed
  BY <1>1 DEF Placed
<1>. QED
  BY <1>2, <1>3, InitSafe DEF WireInv

\* The layout, in one step of the encoder.
LEMMA StepLaid == WireInv /\ [EncNext]_encVars => WireInv'
<1>. SUFFICES ASSUME WireInv, [EncNext]_encVars PROVE WireInv'
  OBVIOUS
<1>0. EncInv /\ EncInv' /\ EncTypeOK /\ LaidOut(wire, frames) /\ Placed
  BY StepSafe DEF WireInv, EncInv
<1>t. /\ count \in Nat /\ Len(frames) \in Nat /\ frames \in Seq(Frame)
      /\ wire \in Seq(Symbol) /\ count' \in Nat
  BY <1>0, LenProperties DEF EncInv, EncTypeOK
<1>n. count \in Nat /\ count' \in Nat /\ Len(frames) \in Nat
  BY <1>t
<1>u. ASSUME UNCHANGED <<source, count, wire, frames>>
      PROVE  WireInv'
  <2>1. LaidOut(wire, frames)'
    BY <1>0, <1>u, SameSource
  <2>2. Placed'
    BY <1>0, <1>u DEF Placed
  <2>. QED
    BY <1>0, <2>1, <2>2 DEF WireInv
\* One frame is written; its place and its text are what the last two
\* assumptions say.
<1>w. ASSUME NEW kind \in FrameKind, NEW text \in Seq(Symbol),
             Write(kind, text), source' = source, count <= count',
             FrameText([kind |-> kind, item |-> count + 1,
                        start |-> Len(wire)]) = text,
             /\ kind = "header" => Len(frames) = 0
             /\ kind = "element" =>
                   count' = count + 1 /\ Len(frames) = 2 * count + 1
             /\ kind = "comma" => count > 0 /\ Len(frames) = 2 * count
      PROVE  WireInv'
  <2>1. LaidOut(wire, frames)'
    BY <1>0, <1>w, WriteLaid
  <2>2. /\ frames' \in Seq(Frame) /\ Len(frames') = Len(frames) + 1
        /\ \A i \in 1..Len(frames) : frames'[i] = frames[i]
        /\ frames'[Len(frames) + 1].kind = kind
        /\ frames'[Len(frames) + 1].item = count + 1
    BY <1>t, <1>w, WriteTyped
  <2>3. ASSUME NEW i \in (Len(frames) + 1)..(Len(frames) + 1)
        PROVE  /\ frames'[i].kind = "header" => i = 1
               /\ frames'[i].kind = "element" =>
                     frames'[i].item \in 1..count' /\ i = 2 * frames'[i].item
               /\ frames'[i].kind = "comma" => \E k \in 1..count' : i = 2 * k + 1
    <3>1. i = Len(frames) + 1 /\ frames'[i].kind = kind
          /\ frames'[i].item = count + 1
      BY <1>t, <2>2
    <3>2. kind = "header" => i = 1
      BY <1>w, <3>1
    <3>3. kind = "element" => frames'[i].item \in 1..count'
                             /\ i = 2 * frames'[i].item
      BY <1>t, <1>w, <3>1
    <3>4. kind = "comma" => \E k \in 1..count' : i = 2 * k + 1
      <4>1. kind = "comma" => count \in 1..count' /\ i = 2 * count + 1
        BY <1>n, <1>w, <3>1, SMTT(40)
      <4>. QED
        BY <4>1
    <3>. QED
      BY <3>1, <3>2, <3>3, <3>4
  <2>4. 1 \in Nat
    OBVIOUS
  <2>5. Placed'
    BY <1>0, <1>t, <1>w, <2>2, <2>3, <2>4, PlacedStep
  <2>. QED
    BY <1>0, <2>1, <2>5 DEF WireInv
<1>1. CASE WriteHeader
  <2>1. Write("header", Header) /\ source' = source /\ count' = count
        /\ Len(frames) = 0
    BY <1>0, <1>1, FramesBefore DEF WriteHeader
  <2>2. FrameText([kind |-> "header", item |-> count + 1,
                   start |-> Len(wire)]) = Header
    BY DEF FrameText
  <2>3. "header" \in FrameKind /\ Header \in Seq(Symbol)
    BY TextsAreWires DEF FrameKind
  <2>4. count <= count'
    <3>1. count' = count
      BY <1>1 DEF WriteHeader
    <3>. QED
      BY <1>n, <3>1
  <2>. QED
    BY <1>w, <2>1, <2>2, <2>3, <2>4
<1>2. CASE WriteComma
  <2>1. Write("comma", <<",">>) /\ source' = source /\ count' = count
        /\ count > 0 /\ Len(frames) = 2 * count
    BY <1>0, <1>2, FramesBefore DEF WriteComma
  <2>2. FrameText([kind |-> "comma", item |-> count + 1,
                   start |-> Len(wire)]) = <<",">>
    BY DEF FrameText
  <2>3. "comma" \in FrameKind /\ <<",">> \in Seq(Symbol)
    BY TextsAreWires DEF FrameKind
  <2>4. count <= count'
    <3>1. count' = count
      BY <1>2 DEF WriteComma
    <3>. QED
      BY <1>n, <3>1
  <2>. QED
    BY <1>w, <2>1, <2>2, <2>3, <2>4
<1>3. CASE WriteElement
  <2>1. /\ Write("element", Text[source[count + 1]]) /\ source' = source
        /\ count' = count + 1 /\ count < Len(source)
        /\ epc = "element" /\ (~Joint \/ count = 0)
    BY <1>3 DEF WriteElement
  <2>2. Len(frames) = 2 * count + 1
    <3>1. ~(Joint /\ count > 0)
      <4>1. CASE ~Joint
        BY <4>1
      <4>2. CASE count = 0
        BY <4>2
      <4>. QED
        BY <2>1, <4>1, <4>2
    <3>2. Len(frames) = IF Joint /\ count > 0 THEN 2 * count ELSE 2 * count + 1
      BY <1>0, <2>1, FramesBefore
    <3>. QED
      BY <3>1, <3>2, Zenon
  <2>3. FrameText([kind |-> "element", item |-> count + 1,
                   start |-> Len(wire)]) = Text[source[count + 1]]
    BY DEF FrameText
  <2>4. Text[source[count + 1]] \in Seq(Symbol)
    BY <1>0, <2>1, NextText
  <2>5. count <= count' /\ "element" \in FrameKind
    BY <1>t, <2>1 DEF FrameKind
  <2>. QED
    BY <1>w, <2>1, <2>2, <2>3, <2>4, <2>5
<1>4. CASE WriteCommaAndElement
  <2>. DEFINE text == Text[source[count + 1]]
              f == [kind |-> "comma", item |-> count + 1, start |-> Len(wire)]
              g == [kind |-> "element", item |-> count + 1, start |-> Len(wire) + 1]
              w == wire \o <<",">>
              fs == Append(frames, f)
  <2>1. /\ wire' = wire \o <<",">> \o text
        /\ frames' = frames \o <<f, g>>
        /\ source' = source /\ count' = count + 1 /\ count < Len(source)
        /\ epc = "element" /\ Joint /\ count > 0
    BY <1>4 DEF WriteCommaAndElement
  <2>2. Len(frames) = 2 * count /\ count > 0 /\ count' = count + 1
    BY <1>0, <2>1, FramesBefore
  <2>3. /\ f \in Frame /\ g \in Frame
        /\ f.kind = "comma" /\ g.kind = "element" /\ g.item = count + 1
        /\ f.start = Len(wire) /\ g.start = Len(wire) + 1
        /\ FrameText(f) = <<",">> /\ FrameText(g) = text
    <3>1. Len(wire) \in Nat /\ count + 1 \in Nat /\ Len(wire) + 1 \in Nat
      BY <1>t, <1>t, LenProperties
    <3>2. f \in Frame /\ g \in Frame
      BY <3>1 DEF Frame, FrameKind
    <3>3. FrameText(f) = <<",">> /\ FrameText(g) = text
      BY DEF FrameText
    <3>. QED
      BY <3>2, <3>3
  <2>4. text \in Seq(Symbol) /\ <<",">> \in Seq(Symbol) /\ Len(<<",">>) = 1
    BY <1>0, <2>1, NextText, TextsAreWires
  <2>. HIDE DEF f, g, text
  <2>5. w \in Seq(Symbol) /\ Len(w) = Len(wire) + 1
    BY <1>t, <2>4, ConcatProperties
  <2>6. fs \in Seq(Frame)
    BY <1>t, <2>3, AppendProperties
  <2>7. LaidOut(w, fs)
    BY <1>0, <1>t, <2>3, <2>4, OneMoreFrame
  <2>8. frames' = Append(fs, g)
    <3>1. frames \in Seq(Frame) /\ f \in Frame /\ g \in Frame
      BY <1>t, <2>3
    <3>2. frames \o <<f, g>> = Append(Append(frames, f), g)
      BY <3>1, AppendTwo
    <3>3. frames' = frames \o <<f, g>>
      BY <2>1
    <3>. QED
      BY <3>2, <3>3
  <2>. HIDE DEF w, fs
  <2>9. LaidOut(wire', frames')
    <3>1. LaidOut(w \o text, Append(fs, g))
      BY <2>3, <2>4, <2>5, <2>6, <2>7, OneMoreFrame
    <3>2. wire' = w \o text
      BY <2>1 DEF w
    <3>. QED
      BY <2>8, <3>1, <3>2
  <2>10. /\ frames' \in Seq(Frame) /\ Len(frames') = Len(frames) + 2
         /\ frames'[Len(frames) + 1] = f /\ frames'[Len(frames) + 2] = g
         /\ \A i \in 1..Len(frames) : frames'[i] = frames[i]
    <3>1. frames \in Seq(Frame) /\ f \in Frame /\ g \in Frame
      BY <1>t, <2>3
    <3>2. frames' = frames \o <<f, g>>
      BY <2>1
    <3>. QED
      BY <3>1, <3>2, AppendTwo
  <2>11. ASSUME NEW i \in (Len(frames) + 1)..(Len(frames) + 2)
         PROVE  /\ frames'[i].kind = "header" => i = 1
                /\ frames'[i].kind = "element" =>
                      frames'[i].item \in 1..count' /\ i = 2 * frames'[i].item
                /\ frames'[i].kind = "comma" => \E k \in 1..count' : i = 2 * k + 1
    <3>1. CASE i = Len(frames) + 1
      <4>1. frames'[i].kind = "comma"
        BY <2>3, <2>10, <3>1
      <4>2. count \in 1..count' /\ i = 2 * count + 1
        BY <1>n, <2>2, <3>1
      <4>. QED
        BY <4>1, <4>2
    <3>2. CASE i = Len(frames) + 2
      <4>1. frames'[i].kind = "element" /\ frames'[i].item = count + 1
        BY <2>3, <2>10, <3>2
      <4>2. count + 1 \in 1..count' /\ i = 2 * (count + 1)
        BY <1>n, <2>2, <3>2
      <4>. QED
        BY <4>1, <4>2
    <3>. QED
      BY <1>t, <3>1, <3>2
  <2>12. Placed'
    <3>1. count <= count' /\ 2 \in Nat
      BY <1>n, <2>2
    <3>. QED
      BY <1>0, <1>t, <2>10, <2>11, <3>1, PlacedStep
  <2>. QED
    BY <1>0, <2>1, <2>9, <2>12, SameSource DEF WireInv
<1>5. CASE WriteOkTrailer
  <2>1. Write("ok", Status(TRUE)) /\ source' = source /\ count' = count
    BY <1>5 DEF WriteOkTrailer
  <2>2. FrameText([kind |-> "ok", item |-> count + 1,
                   start |-> Len(wire)]) = Status(TRUE)
    BY DEF FrameText
  <2>3. "ok" \in FrameKind /\ Status(TRUE) \in Seq(Symbol)
    BY TextsAreWires DEF FrameKind
  <2>4. count <= count'
    <3>1. count' = count
      BY <1>5 DEF WriteOkTrailer
    <3>. QED
      BY <1>n, <3>1
  <2>. QED
    BY <1>w, <2>1, <2>2, <2>3, <2>4
<1>6. CASE WriteErrorTrailer
  <2>1. Write("error", Status(FALSE)) /\ source' = source /\ count' = count
    BY <1>6 DEF WriteErrorTrailer
  <2>2. FrameText([kind |-> "error", item |-> count + 1,
                   start |-> Len(wire)]) = Status(FALSE)
    BY DEF FrameText
  <2>3. "error" \in FrameKind /\ Status(FALSE) \in Seq(Symbol)
    BY TextsAreWires DEF FrameKind
  <2>4. count <= count'
    <3>1. count' = count
      BY <1>6 DEF WriteErrorTrailer
    <3>. QED
      BY <1>n, <3>1
  <2>. QED
    BY <1>w, <2>1, <2>2, <2>3, <2>4
<1>7. CASE NextItem \/ EncodeFails \/ SourceFails \/ SourceEnds
           \/ WriteFails \/ WriteHangs \/ Break \/ UNCHANGED encVars
  <2>1. UNCHANGED <<source, count, wire, frames>>
    BY <1>7 DEF NextItem, EncodeFails, SourceFails, SourceEnds, WriteFails,
                WriteHangs, Break, encVars
  <2>. QED
    BY <1>u, <2>1
<1>. QED
  BY <1>1, <1>2, <1>3, <1>4, <1>5, <1>6, <1>7 DEF EncNext, EncStep

\* The symbols on the wire are the texts of the frames EncInv speaks of, end to
\* end: the header, the values in order with one comma between two neighbours,
\* the terminal status last and whole.
THEOREM WireIsFrames == EncSpec => []WireInv
<1>1. EncInit => WireInv
  BY InitLaid
<1>2. WireInv /\ [EncNext]_encVars => WireInv'
  BY StepLaid
<1>. QED
  BY <1>1, <1>2, PTL DEF EncSpec

-----------------------------------------------------------------------------
(***************************************************************************)
(* What a reader finds at each place of the wire.                          *)
(***************************************************************************)

\* The place of the m-th value begins after s symbols: after the header, or
\* after the comma that precedes the value.
SlotAt(m, s) ==
    IF m = 1 THEN frames # <<>> /\ s = Len(Header)
             ELSE /\ 2 * m - 1 \in DOMAIN frames
                  /\ frames[2 * m - 1].kind = "comma"
                  /\ s = frames[2 * m - 1].start + 1

\* The terminal status begins after p symbols.
StatusAt(p) ==
    /\ frames # <<>>
    /\ frames[Len(frames)].kind \in {"ok", "error"}
    /\ p = frames[Len(frames)].start

Terminal == Status(frames[Len(frames)].kind = "ok")

LEMMA WireFacts ==
    ASSUME WireInv
    PROVE  /\ EncInv /\ Placed /\ LaidOut(wire, frames)
           /\ count \in Nat /\ Len(frames) \in Nat /\ Len(wire) \in Nat
           /\ Len(source) \in Nat /\ count <= Len(source)
           /\ frames \in Seq(Frame) /\ DOMAIN frames = 1..Len(frames)
           /\ wire \in Seq(Symbol) /\ source \in Seq(Element)
           /\ \A i \in 1..Len(frames) :
                 frames[i].start \in Nat /\ frames[i].kind \in FrameKind
<1>1. EncInv /\ Placed /\ LaidOut(wire, frames) /\ EncTypeOK
  BY DEF WireInv, EncInv
<1>2. /\ frames \in Seq(Frame) /\ wire \in Seq(Symbol)
      /\ source \in Seq(Encodable(enc)) /\ count \in 0..Len(source)
  BY <1>1 DEF EncTypeOK
<1>3. source \in Seq(Element)
  <2>1. Encodable(enc) \subseteq Element
    BY DEF Encodable
  <2>. QED
    BY <1>2, <2>1, SeqMonotonic
<1>4. /\ Len(frames) \in Nat /\ Len(wire) \in Nat /\ Len(source) \in Nat
      /\ DOMAIN frames = 1..Len(frames)
      /\ \A i \in 1..Len(frames) : frames[i] \in Frame
  BY <1>2, LenProperties
<1>5. \A i \in 1..Len(frames) :
          frames[i].start \in Nat /\ frames[i].kind \in FrameKind
  BY <1>4 DEF Frame
<1>. QED
  BY <1>1, <1>2, <1>3, <1>4, <1>5

LEMMA HeaderSymbols ==
    /\ Len(Header) = 3
    /\ Header[1] = "{" /\ Header[2] = "items" /\ Header[3] = "["
BY DEF Header

LEMMA StatusSymbols ==
    /\ Len(OkTrailer) = 4 /\ Len(ErrorTrailer) = 9
    /\ Len(Status(TRUE)) = 5 /\ Status(TRUE)[1] = "]"
    /\ \A j \in 1..4 : Status(TRUE)[1 + j] = OkTrailer[j]
    /\ Len(Status(FALSE)) = 10 /\ Status(FALSE)[1] = "]"
    /\ \A j \in 1..9 : Status(FALSE)[1 + j] = ErrorTrailer[j]
<1>2. Len(OkTrailer) = 4 /\ Len(ErrorTrailer) = 9
  BY DEF OkTrailer, ErrorTrailer
<1>3. Len(<<"]">>) = 1 /\ <<"]">>[1] = "]"
  OBVIOUS
<1>4. ASSUME NEW t \in Seq(Symbol)
      PROVE  /\ Len(<<"]">> \o t) = 1 + Len(t)
             /\ (<<"]">> \o t)[1] = "]"
             /\ \A j \in 1..Len(t) : (<<"]">> \o t)[1 + j] = t[j]
  <2>. DEFINE b == <<"]">>
  <2>1. b \in Seq(Symbol) /\ Len(b) = 1 /\ b[1] = "]" /\ Len(t) \in Nat
    BY <1>3, TextsAreWires, LenProperties
  <2>. HIDE DEF b
  <2>2. /\ Len(b \o t) = Len(b) + Len(t)
        /\ \A i \in 1..Len(b) + Len(t) :
              (b \o t)[i] = IF i <= Len(b) THEN b[i] ELSE t[i - Len(b)]
    BY <2>1, ConcatProperties
  <2>3. 1 \in 1..Len(b) + Len(t) /\ 1 <= Len(b)
        /\ \A j \in 1..Len(t) : /\ 1 + j \in 1..Len(b) + Len(t)
                                 /\ ~(1 + j <= Len(b)) /\ (1 + j) - Len(b) = j
    BY <2>1
  <2>4. (b \o t)[1] = "]" /\ \A j \in 1..Len(t) : (b \o t)[1 + j] = t[j]
    BY <2>1, <2>2, <2>3
  <2>. QED
    BY <2>1, <2>2, <2>4 DEF b
<1>. DEFINE ok == <<"]">> \o OkTrailer
            er == <<"]">> \o ErrorTrailer
<1>5. /\ Len(ok) = 1 + Len(OkTrailer) /\ ok[1] = "]"
      /\ \A j \in 1..Len(OkTrailer) : ok[1 + j] = OkTrailer[j]
  BY <1>4, TextsAreWires, Zenon
<1>6. /\ Len(er) = 1 + Len(ErrorTrailer) /\ er[1] = "]"
      /\ \A j \in 1..Len(ErrorTrailer) : er[1 + j] = ErrorTrailer[j]
  BY <1>4, TextsAreWires, Zenon
<1>7. Status(TRUE) = ok /\ Status(FALSE) = er
  BY DEF Status
<1>. HIDE DEF ok, er
<1>8. Len(ok) = 5 /\ \A j \in 1..4 : ok[1 + j] = OkTrailer[j]
  BY <1>2, <1>5
<1>9. Len(er) = 10 /\ \A j \in 1..9 : er[1 + j] = ErrorTrailer[j]
  BY <1>2, <1>6
<1>. QED
  BY <1>2, <1>5, <1>6, <1>7, <1>8, <1>9, Zenon

\* The wire begins with the header.
LEMMA HeaderText ==
    ASSUME WireInv, Len(wire) > 0
    PROVE  /\ frames # <<>> /\ Len(wire) >= 3
           /\ \A j \in 1..3 : wire[j] = Header[j]
           /\ frames[1].kind = "header" /\ End(frames[1]) = 3
<1>1. frames # <<>>
  <2>1. frames = <<>> => wire = <<>>
    BY WireFacts DEF LaidOut
  <2>. QED
    BY <2>1
<1>2. 1 \in 1..Len(frames)
  BY <1>1, WireFacts, EmptySeq
<1>3. frames[1].kind = "header" /\ FrameText(frames[1]) = Header
  BY <1>1, WireFacts DEF EncInv, ElementsInOrder, FrameText
<1>4. frames[1].start = 0 /\ End(frames[1]) <= Len(wire)
      /\ \A j \in 1..Len(FrameText(frames[1])) :
            wire[frames[1].start + j] = FrameText(frames[1])[j]
  BY <1>1, <1>2, WireFacts DEF LaidOut
<1>5. End(frames[1]) = 3 /\ Len(FrameText(frames[1])) = 3
  <2>1. Len(FrameText(frames[1])) = 3
    BY <1>3, HeaderSymbols, Zenon
  <2>. QED
    BY <1>4, <2>1 DEF End
<1>6. ASSUME NEW j \in 1..3
      PROVE  wire[j] = Header[j]
  <2>1. j \in 1..Len(FrameText(frames[1])) /\ frames[1].start + j = j
    BY <1>4, <1>5
  <2>. QED
    BY <1>3, <1>4, <2>1
<1>7. Len(wire) >= 3
  BY <1>4, <1>5, WireFacts
<1>. QED
  BY <1>1, <1>3, <1>5, <1>6, <1>7

\* The terminal status is the last thing on the wire, and whole.
LEMMA StatusText ==
    ASSUME WireInv, NEW p, StatusAt(p)
    PROVE  /\ p \in Nat /\ Len(wire) = p + Len(Terminal)
           /\ \A j \in 1..Len(Terminal) : wire[p + j] = Terminal[j]
           /\ Len(Terminal) \in {5, 10} /\ wire[p + 1] = "]"
           /\ HasStatus(frames[Len(frames)].kind)
<1>. DEFINE n == Len(frames)
<1>1. n \in 1..Len(frames) /\ frames # <<>> /\ n \in DOMAIN frames
  BY WireFacts, EmptySeq DEF StatusAt
<1>2. FrameText(frames[n]) = Terminal
  BY DEF StatusAt, FrameText, Terminal
<1>3. /\ frames[n].start \in Nat /\ p = frames[n].start
      /\ End(frames[n]) = Len(wire)
      /\ \A j \in 1..Len(FrameText(frames[n])) :
            wire[frames[n].start + j] = FrameText(frames[n])[j]
  BY <1>1, WireFacts DEF LaidOut, StatusAt
<1>4. Len(Terminal) \in {5, 10} /\ Terminal[1] = "]"
  <2>1. CASE frames[n].kind = "ok"
    <3>1. Terminal = Status(TRUE)
      BY <2>1 DEF Terminal
    <3>. QED
      BY <3>1, StatusSymbols
  <2>2. CASE frames[n].kind # "ok"
    <3>1. Terminal = Status(FALSE)
      BY <2>2 DEF Terminal
    <3>. QED
      BY <3>1, StatusSymbols
  <2>. QED
    BY <2>1, <2>2
<1>5. HasStatus(frames[n].kind)
  BY <1>1 DEF HasStatus
<1>. HIDE DEF n
<1>6. \A j \in 1..Len(Terminal) : wire[p + j] = Terminal[j]
  BY <1>2, <1>3
<1>7. Len(wire) = p + Len(Terminal)
  BY <1>2, <1>3 DEF End
<1>8. wire[p + 1] = "]"
  BY <1>4, <1>6
<1>. QED
  BY <1>3, <1>4, <1>5, <1>6, <1>7, <1>8 DEF n

\* The text of a value that has been written begins where its place does.
LEMMA SlotText ==
    ASSUME WireInv, NEW m \in 1..count, NEW s, SlotAt(m, s)
    PROVE  /\ source[m] \in Element /\ Text[source[m]] \in Seq(Symbol)
           /\ Len(Text[source[m]]) \in Nat \ {0}
           /\ s \in Nat /\ s + Len(Text[source[m]]) <= Len(wire)
           /\ \A j \in 1..Len(Text[source[m]]) : wire[s + j] = Text[source[m]][j]
           /\ 2 * m \in 1..Len(frames)
           /\ frames[2 * m].start = s
           /\ End(frames[2 * m]) = s + Len(Text[source[m]])
<1>. DEFINE T == Text[source[m]]
            f == frames[2 * m]
<1>1. /\ 2 * m \in 1..Len(frames) /\ f.kind = "element" /\ f.item = m
      /\ m \in Nat /\ m > 0
  BY WireFacts DEF EncInv, ElementsInOrder
<1>2. source[m] \in Element /\ T \in Seq(Symbol) /\ T # <<>>
  <2>1. m \in 1..Len(source)
    BY WireFacts
  <2>2. source[m] \in Element
    BY <2>1, WireFacts, ElementOfSeq
  <2>. QED
    BY <2>2, TextAssumption
<1>3. Len(T) \in Nat \ {0}
  BY <1>2, EmptySeq
<1>4. FrameText(f) = T
  BY <1>1 DEF FrameText
<1>5. /\ f.start \in Nat /\ End(f) <= Len(wire)
      /\ \A j \in 1..Len(FrameText(f)) : wire[f.start + j] = FrameText(f)[j]
  BY <1>1, WireFacts DEF LaidOut
<1>6. f.start = s
  <2>1. CASE m = 1
    <3>1. frames # <<>> /\ s = 3
      BY <2>1, HeaderSymbols DEF SlotAt
    <3>2. Len(wire) > 0
      <4>1. wire # <<>>
        <5>1. 1 \in 1..Len(frames)
          BY <1>1, WireFacts
        <5>2. frames[1].kind = "header" /\ End(frames[1]) <= Len(wire)
              /\ frames[1].start = 0
          BY <3>1, <5>1, WireFacts DEF EncInv, ElementsInOrder, LaidOut
        <5>3. FrameText(frames[1]) = Header
          BY <5>2 DEF FrameText
        <5>4. Len(FrameText(frames[1])) = 3
          BY <5>3, HeaderSymbols, Zenon
        <5>5. Len(wire) > 0
          BY <5>2, <5>4, WireFacts DEF End
        <5>. QED
          BY <5>5, EmptySeq
      <4>. QED
        BY <4>1, WireFacts, EmptySeq
    <3>3. End(frames[1]) = 3
      BY <3>2, HeaderText
    <3>4. frames[1 + 1].start = End(frames[1])
      <4>1. 1 \in 1..(Len(frames) - 1)
        BY <1>1, <2>1, WireFacts
      <4>. QED
        BY <4>1, WireFacts DEF LaidOut
    <3>. QED
      BY <2>1, <3>1, <3>3, <3>4
  <2>2. CASE m # 1
    <3>. DEFINE g == frames[2 * m - 1]
    <3>1. /\ 2 * m - 1 \in 1..(Len(frames) - 1) /\ g.kind = "comma"
          /\ s = g.start + 1
      BY <1>1, <2>2, WireFacts DEF SlotAt
    <3>2. FrameText(g) = <<",">> /\ Len(<<",">>) = 1
      BY <3>1 DEF FrameText
    <3>3. frames[(2 * m - 1) + 1].start = End(g)
      BY <3>1, WireFacts DEF LaidOut
    <3>4. End(g) = g.start + 1
      BY <3>2 DEF End
    <3>5. (2 * m - 1) + 1 = 2 * m
      BY <1>1
    <3>. QED
      BY <3>1, <3>3, <3>4, <3>5
  <2>. QED
    BY <2>1, <2>2
<1>7. End(f) = s + Len(T)
  BY <1>4, <1>6 DEF End
<1>. HIDE DEF T, f
<1>8. \A j \in 1..Len(T) : wire[s + j] = T[j]
  BY <1>4, <1>5, <1>6
<1>9. s \in Nat /\ s + Len(T) <= Len(wire)
  BY <1>5, <1>6, <1>7
<1>. QED
  BY <1>1, <1>2, <1>3, <1>6, <1>7, <1>8, <1>9 DEF T, f

\* Behind a value that has been written there is nothing yet, or the comma
\* before the next place, or the terminal status.
LEMMA AfterText ==
    ASSUME WireInv, NEW m \in 1..count, NEW s, SlotAt(m, s),
           NEW p, p = s + Len(Text[source[m]]), p < Len(wire)
    PROVE  \/ wire[p + 1] = "," /\ SlotAt(m + 1, p + 1)
           \/ wire[p + 1] = "]" /\ StatusAt(p) /\ m = count
<1>. DEFINE f == frames[2 * m + 1]
<1>1. /\ m \in Nat /\ m > 0 /\ count \in Nat /\ m <= count
      /\ 2 * m \in 1..Len(frames) /\ Len(frames) \in Nat
      /\ End(frames[2 * m]) = p
  BY SlotText, WireFacts
<1>2. 2 * m # Len(frames)
  <2>. SUFFICES ASSUME 2 * m = Len(frames) PROVE FALSE
    OBVIOUS
  <2>1. frames # <<>>
    BY <1>1, EmptySeq
  <2>2. End(frames[Len(frames)]) = Len(wire)
    BY <2>1, WireFacts DEF LaidOut
  <2>3. p = Len(wire)
    BY <1>1, <2>2
  <2>. QED
    BY <2>3, WireFacts
<1>3. 2 * m + 1 \in 1..Len(frames) /\ 2 * m \in 1..(Len(frames) - 1)
  BY <1>1, <1>2
<1>4. f.start = p
  BY <1>1, <1>3, WireFacts DEF LaidOut
<1>5. \A j \in 1..Len(FrameText(f)) : wire[f.start + j] = FrameText(f)[j]
  BY <1>3, WireFacts DEF LaidOut
<1>6. CASE f.kind = "comma"
  <2>1. FrameText(f) = <<",">> /\ Len(<<",">>) = 1 /\ <<",">>[1] = ","
    BY <1>6 DEF FrameText
  <2>2. wire[p + 1] = ","
    <3>1. \A j \in 1..1 : wire[p + j] = FrameText(f)[j]
      BY <1>4, <1>5, <2>1
    <3>2. wire[p + 1] = FrameText(f)[1]
      BY <3>1
    <3>. QED
      BY <2>1, <3>2
  <2>3. /\ 2 * (m + 1) - 1 = 2 * m + 1 /\ m + 1 # 1
        /\ 2 * m + 1 \in DOMAIN frames
    BY <1>1, <1>3, WireFacts
  <2>4. SlotAt(m + 1, p + 1)
    BY <1>4, <1>6, <2>3 DEF SlotAt
  <2>. QED
    BY <2>2, <2>4
<1>7. CASE f.kind \in {"ok", "error"}
  <2>1. 2 * m + 1 = Len(frames)
    BY <1>3, <1>7, WireFacts DEF EncInv, StatusLast
  <2>2. StatusAt(p)
    BY <1>3, <1>4, <1>7, <2>1, EmptySeq DEF StatusAt
  <2>3. m = count
    <3>1. ASSUME m < count PROVE FALSE
      <4>1. count \in 1..count
        BY <1>1
      <4>2. 2 * count \in 1..Len(frames)
        BY <4>1, WireFacts DEF EncInv, ElementsInOrder
      <4>. QED
        BY <1>1, <2>1, <3>1, <4>2
    <3>. QED
      BY <1>1, <3>1
  <2>. QED
    BY <2>2, <2>3, StatusText
<1>8. f.kind \notin {"header", "element"}
  <2>1. 2 * m + 1 \in DOMAIN frames
    BY <1>3, WireFacts
  <2>2. /\ f.kind = "header" => 2 * m + 1 = 1
        /\ f.kind = "element" => f.item \in 1..count /\ 2 * m + 1 = 2 * f.item
    BY <2>1, WireFacts DEF Placed
  <2>3. f.kind # "header"
    BY <1>1, <2>2
  <2>4. f.kind # "element"
    <3>. SUFFICES ASSUME f.kind = "element" PROVE FALSE
      OBVIOUS
    <3>1. f.item \in 1..count /\ 2 * m + 1 = 2 * f.item
      BY <2>2
    <3>. QED
      BY <1>1, <3>1
  <2>. QED
    BY <2>3, <2>4
<1>. QED
  <2>1. f.kind \in FrameKind
    BY <1>3, WireFacts
  <2>. QED
    BY <1>6, <1>7, <1>8, <2>1 DEF FrameKind

\* At the place of a value that has not been written there is nothing yet, or
\* the terminal status.
LEMMA EmptySlot ==
    ASSUME WireInv, NEW s, SlotAt(count + 1, s)
    PROVE  /\ s \in Nat /\ s <= Len(wire)
           /\ s < Len(wire) => StatusAt(s) /\ wire[s + 1] = "]"
<1>. DEFINE i == 2 * count + 1
            f == frames[i]
<1>1. count \in Nat /\ Len(frames) \in Nat
  BY WireFacts
<1>2. i \in 1..Len(frames) /\ End(f) = s
  <2>1. CASE count = 0
    <3>0. count + 1 = 1 /\ i = 1
      BY <1>1, <2>1
    <3>1. frames # <<>> /\ s = 3 /\ i = 1
      BY <3>0, HeaderSymbols DEF SlotAt
    <3>2. 1 \in 1..Len(frames)
      BY <3>1, EmptySeq, WireFacts
    <3>3. frames[1].kind = "header" /\ frames[1].start = 0
      BY <3>1, WireFacts DEF EncInv, ElementsInOrder, LaidOut
    <3>4. FrameText(frames[1]) = Header
      BY <3>3 DEF FrameText
    <3>5. Len(FrameText(frames[1])) = 3
      BY <3>4, HeaderSymbols, Zenon
    <3>6. End(frames[1]) = 3
      BY <3>3, <3>5 DEF End
    <3>. QED
      BY <3>1, <3>2, <3>6
  <2>2. CASE count > 0
    <3>1. count + 1 # 1 /\ 2 * (count + 1) - 1 = i
      BY <1>1, <2>2
    <3>2. i \in DOMAIN frames /\ f.kind = "comma" /\ s = f.start + 1
      BY <3>1 DEF SlotAt
    <3>3. FrameText(f) = <<",">> /\ Len(<<",">>) = 1
      BY <3>2 DEF FrameText
    <3>4. End(f) = f.start + 1
      BY <3>3 DEF End
    <3>. QED
      BY <3>2, <3>4, WireFacts
  <2>. QED
    BY <1>1, <2>1, <2>2
<1>3. s \in Nat /\ s <= Len(wire)
  <2>1. FrameText(f) \in Seq(Symbol) /\ End(f) <= Len(wire) /\ f.start \in Nat
    BY <1>2, WireFacts DEF LaidOut
  <2>2. Len(FrameText(f)) \in Nat
    BY <2>1, LenProperties
  <2>. QED
    BY <1>2, <2>1, <2>2 DEF End
<1>4. ASSUME s < Len(wire)
      PROVE  StatusAt(s) /\ wire[s + 1] = "]"
  <2>. DEFINE g == frames[i + 1]
  <2>1. i # Len(frames)
    <3>1. frames # <<>>
      BY <1>2, EmptySeq
    <3>2. End(frames[Len(frames)]) = Len(wire)
      BY <3>1, WireFacts DEF LaidOut
    <3>. QED
      BY <1>2, <1>3, <1>4, <3>2, WireFacts
  <2>2. i + 1 \in 1..Len(frames) /\ i \in 1..(Len(frames) - 1)
    BY <1>1, <1>2, <2>1
  <2>3. g.start = s
    BY <1>2, <2>2, WireFacts DEF LaidOut
  <2>4. /\ g.kind = "header" => i + 1 = 1
        /\ g.kind = "element" => g.item \in 1..count /\ i + 1 = 2 * g.item
        /\ g.kind = "comma" => \E k \in 1..count : i + 1 = 2 * k + 1
    BY <2>2, WireFacts DEF Placed
  <2>5. g.kind # "header"
    BY <1>1, <2>4
  <2>6. g.kind # "element"
    <3>. SUFFICES ASSUME g.kind = "element" PROVE FALSE
      OBVIOUS
    <3>1. g.item \in 1..count /\ 2 * count + 2 = 2 * g.item
      BY <1>1, <2>4
    <3>. QED
      BY <1>1, <3>1
  <2>7. g.kind # "comma"
    <3>. SUFFICES ASSUME g.kind = "comma" PROVE FALSE
      OBVIOUS
    <3>1. PICK k \in 1..count : i + 1 = 2 * k + 1
      BY <2>4
    <3>. QED
      BY <1>1, <3>1
  <2>8. g.kind \in {"ok", "error"}
    <3>1. g.kind \in FrameKind
      BY <2>2, WireFacts
    <3>. QED
      BY <2>5, <2>6, <2>7, <3>1 DEF FrameKind
  <2>9. i + 1 = Len(frames)
    BY <2>2, <2>8, WireFacts DEF EncInv, StatusLast
  <2>10. StatusAt(s)
    BY <2>2, <2>3, <2>8, <2>9, EmptySeq DEF StatusAt
  <2>. QED
    BY <2>10, StatusText
<1>. QED
  BY <1>3, <1>4

-----------------------------------------------------------------------------
(***************************************************************************)
(* The inductive invariant.  The decoder is always at a place of the wire  *)
(* that the layout of the encoder's writes knows: WireInv says what stands *)
(* there, and the conjuncts below where the cursor is.                     *)
(***************************************************************************)
NetInv ==
    /\ dec \in Decoders
    /\ fault \in {"none", "eof", "reset"} /\ (fault # "none" => broken)
    /\ cut \in 0..Len(wire)
    /\ read \in 0..Len(Arriving)

\* The values handed over are the first ones of the source.
Prefix ==
    /\ yielded \in Seq(Element) /\ Len(yielded) <= count
    /\ \A i \in 1..Len(yielded) : yielded[i] = source[i]

\* The text held is the part of the wire that was read last.
Base == read - Len(buf)
Held ==
    /\ buf \in Seq(Symbol)
    /\ pos \in 0..Len(buf) /\ elemStart \in 0..pos
    /\ inString \in BOOLEAN /\ escape \in BOOLEAN
    /\ Base \in Nat
    /\ \A j \in 1..Len(buf) : buf[j] = wire[Base + j]

\* The scanner stands in the next value, at a slot of the wire, in the lexical
\* state of the value's text up to there.
Here     == Len(yielded) + 1
Passed   == pos - elemStart
LexState == [depth |-> depth, inString |-> inString, escape |-> escape]

Located ==
    /\ SlotAt(Here, Base + elemStart)
    /\ elemStart <= Len(Header)
    /\ Len(buf) - pos <= ChunkSize
    /\ LexState = IF Passed = 0 THEN Fresh ELSE Lexed(Text[source[Here]])[Passed]
    /\ Passed > 0 => Here <= count /\ Passed <= Len(Text[source[Here]])

\* The scanner has passed the "]" of the terminal status; the values have been
\* handed over, but for the one a draining port holds back.
LastText == SubSeq(buf, elemStart + 1, pos - 1)
Closed ==
    /\ pos > elemStart /\ StatusAt(Base + pos - 1)
    /\ elemStart <= Len(Header)
    /\ \E n \in TextLengths : pos = elemStart + n + 1
    /\ dpc = "trailer" =>
          IF dec = "rust" /\ LastText # <<>>
            THEN /\ Len(yielded) + 1 = count
                 /\ source[count] \in Parsable(dec) /\ LastText = Text[source[count]]
            ELSE Len(yielded) = count
    /\ dpc = "pending" =>
          Len(yielded) = count /\ (fault = "none" => read = Len(wire))

ScanPlace ==
    /\ dpc \in {"header", "scan", "trailer", "pending", "done"}
    /\ outcome = "none" <=> dpc # "done"
    /\ dpc = "header" =>
          /\ Base = 0 /\ pos = 0 /\ elemStart = 0 /\ LexState = Fresh
          /\ yielded = <<>> /\ Len(buf) < Len(Header) + ChunkSize
    /\ dpc = "scan" => Located
    /\ dpc \in {"trailer", "pending"} => Closed

\* What the verdicts say, while the producer may still run.
IntactSettled ==
    fault = "none" /\ Settled /\ Readable =>
        /\ Ended
        /\ outcome = (IF HasStatus("ok") THEN "clean"
                      ELSE IF HasStatus("error") THEN "streamError"
                      ELSE "truncated")

ScanInv ==
    dec \in ScannerPorts =>
        /\ Prefix /\ Held /\ ScanPlace /\ IntactSettled
        /\ dpc = "done" => BufferBounded

\* A token reader stands behind the values it has handed over.
ReadPlace ==
    IF yielded = <<>>
      THEN frames # <<>> /\ read = Len(Header)
      ELSE read = End(frames[2 * Len(yielded)])

\* Or it took the end of the stream for the end of a number that was cut: it
\* has nothing left to read.
SplitOff == fault = "eof" /\ read = cut

TokenInv ==
    dec \notin ScannerPorts =>
        /\ yielded \in Seq(Element) /\ buf = <<>>
        /\ dpc \in {"header", "items", "trailer", "done"}
        /\ outcome = "none" <=> dpc # "done"
        /\ dpc = "header" => read = 0 /\ yielded = <<>>
        /\ dpc = "items" => (Prefix /\ ReadPlace) \/ SplitOff
        /\ dpc = "trailer" =>
              Prefix /\ Len(yielded) = count /\ read > 0 /\ StatusAt(read - 1)
        /\ fault # "eof" => Prefix

StreamInv ==
    WireInv /\ NetInv /\ VerdictSound /\ ScanInv /\ TokenInv

-----------------------------------------------------------------------------
(***************************************************************************)
(* The producer under a decoder.                                           *)
(***************************************************************************)

\* An encoder that has ended takes no step; until then what is on the wire
\* stays there.
LEMMA EncoderGrows ==
    ASSUME WireInv, EncStep
    PROVE  /\ WireInv'
           /\ enc' = enc /\ source' = source /\ broken' = broken
           /\ count' \in Nat /\ count <= count'
           /\ Len(wire') \in Nat /\ Len(wire) <= Len(wire')
           /\ \A i \in 1..Len(wire) : wire'[i] = wire[i]
           /\ Len(frames') \in Nat /\ Len(frames) <= Len(frames')
           /\ \A i \in 1..Len(frames) : frames'[i] = frames[i]
           /\ frames # <<>> => frames' # <<>>
           /\ epc \notin {"returned", "raised"}
<1>1. /\ wire \in Seq(Symbol) /\ frames \in Seq(Frame)
      /\ Len(wire) \in Nat /\ Len(frames) \in Nat /\ count \in Nat
  BY WireFacts
<1>2. EncTypeOK
  BY DEF WireInv, EncInv
<1>3. WireInv'
  BY StepLaid DEF EncNext
<1>4. count' \in Nat /\ Len(wire') \in Nat /\ Len(frames') \in Nat
      /\ frames' \in Seq(Frame)
  <2>1. EncTypeOK'
    BY <1>3 DEF WireInv, EncInv
  <2>2. count' \in Nat /\ wire' \in Seq(Symbol) /\ frames' \in Seq(Frame)
    <3>1. Len(source') \in Nat /\ count' \in 0..Len(source')
      BY <2>1, LenProperties DEF EncTypeOK
    <3>. QED
      BY <2>1, <3>1 DEF EncTypeOK
  <2>. QED
    BY <2>2, LenProperties
<1>5. /\ enc' = enc /\ source' = source /\ broken' = broken
      /\ epc \notin {"returned", "raised"}
  BY DEF EncStep, WriteHeader, NextItem, WriteComma, WriteElement,
         WriteCommaAndElement, EncodeFails, SourceFails, SourceEnds,
         WriteOkTrailer, WriteErrorTrailer, WriteFails, WriteHangs, Writing
<1>6. count <= count'
  <2>1. count' \in {count, count + 1}
    BY DEF EncStep, WriteHeader, NextItem, WriteComma, WriteElement,
           WriteCommaAndElement, EncodeFails, SourceFails, SourceEnds,
           WriteOkTrailer, WriteErrorTrailer, WriteFails, WriteHangs
  <2>. QED
    BY <1>1, <2>1
<1>. DEFINE Grown ==
               /\ Len(wire) <= Len(wire')
               /\ \A i \in 1..Len(wire) : wire'[i] = wire[i]
               /\ Len(frames) <= Len(frames')
               /\ \A i \in 1..Len(frames) : frames'[i] = frames[i]
<1>7. ASSUME UNCHANGED <<wire, frames>>
      PROVE  Grown
  BY <1>1, <1>7
<1>8. ASSUME NEW kind \in FrameKind, NEW text \in Seq(Symbol), Write(kind, text)
      PROVE  Grown
  <2>. DEFINE f == [kind |-> kind, item |-> count + 1, start |-> Len(wire)]
  <2>1. f \in Frame
    BY <1>1 DEF Frame
  <2>2. wire' = wire \o text /\ frames' = Append(frames, f)
    BY <1>8 DEF Write
  <2>. HIDE DEF f
  <2>4. Len(wire) <= Len(wire') /\ \A i \in 1..Len(wire) : wire'[i] = wire[i]
    BY <1>1, <2>2, ConcatGrows
  <2>5. Len(frames) <= Len(frames')
        /\ \A i \in 1..Len(frames) : frames'[i] = frames[i]
    BY <1>1, <2>1, <2>2, AppendProperties
  <2>. QED
    BY <2>4, <2>5
<1>9. Grown
  <2>1. CASE WriteHeader
    BY <1>8, <2>1, TextsAreWires DEF WriteHeader, FrameKind
  <2>2. CASE WriteComma
    BY <1>8, <2>2, TextsAreWires DEF WriteComma, FrameKind
  <2>3. CASE WriteElement
    <3>1. Text[source[count + 1]] \in Seq(Symbol)
      BY <1>2, <2>3, NextText DEF WriteElement
    <3>2. Write("element", Text[source[count + 1]])
      BY <2>3 DEF WriteElement
    <3>. QED
      BY <1>8, <3>1, <3>2 DEF FrameKind
  <2>4. CASE WriteOkTrailer
    BY <1>8, <2>4, TextsAreWires DEF WriteOkTrailer, FrameKind
  <2>5. CASE WriteErrorTrailer
    BY <1>8, <2>5, TextsAreWires DEF WriteErrorTrailer, FrameKind
  <2>6. CASE WriteCommaAndElement
    <3>. DEFINE T == Text[source[count + 1]]
                f == [kind |-> "comma",   item |-> count + 1,
                      start |-> Len(wire)]
                g == [kind |-> "element", item |-> count + 1,
                      start |-> Len(wire) + 1]
    <3>1. T \in Seq(Symbol)
      BY <1>2, <2>6, NextText DEF WriteCommaAndElement
    <3>2. f \in Frame /\ g \in Frame
      BY <1>1 DEF Frame, FrameKind
    <3>3. wire' = wire \o <<",">> \o T /\ frames' = frames \o <<f, g>>
      BY <2>6 DEF WriteCommaAndElement
    <3>. DEFINE v == wire \o <<",">>
    <3>. HIDE DEF T, f, g
    <3>. DEFINE h == frames \o <<f, g>>
    <3>4. Len(h) = Len(frames) + 2 /\ \A i \in 1..Len(frames) : h[i] = frames[i]
      BY <1>1, <3>2, AppendTwo
    <3>11. frames' = h
      BY <3>3
    <3>. HIDE DEF h
    <3>5. /\ v \in Seq(Symbol) /\ Len(v) \in Nat /\ Len(wire) <= Len(v)
          /\ \A i \in 1..Len(wire) : v[i] = wire[i]
      <4>. DEFINE comma == <<",">>
      <4>1. wire \in Seq(Symbol) /\ comma \in Seq(Symbol) /\ v = wire \o comma
        BY <1>1, TextsAreWires
      <4>. HIDE DEF comma, v
      <4>. QED
        BY ONLY <4>1, ConcatGrows
    <3>6. wire' = v \o T
      BY <3>3
    <3>. HIDE DEF v
    <3>8. Len(v) <= Len(wire') /\ \A i \in 1..Len(v) : wire'[i] = v[i]
      BY <3>1, <3>5, <3>6, ConcatGrows
    <3>10. Len(frames) <= Len(frames')
           /\ \A i \in 1..Len(frames) : frames'[i] = frames[i]
      BY <1>1, <3>4, <3>11
    <3>9. Len(wire) <= Len(wire') /\ \A i \in 1..Len(wire) : wire'[i] = wire[i]
      BY <1>1, <1>4, <3>5, <3>8
    <3>. QED
      BY <3>9, <3>10
  <2>7. CASE NextItem \/ EncodeFails \/ SourceFails \/ SourceEnds
               \/ WriteFails \/ WriteHangs
    BY <1>7, <2>7 DEF NextItem, EncodeFails, SourceFails, SourceEnds,
                      WriteFails, WriteHangs
  <2>. QED
    BY <2>1, <2>2, <2>3, <2>4, <2>5, <2>6, <2>7 DEF EncStep
<1>10. frames # <<>> => frames' # <<>>
  <2>. SUFFICES ASSUME frames # <<>> PROVE frames' # <<>>
    OBVIOUS
  <2>1. Len(frames) > 0 /\ Len(frames) <= Len(frames')
    BY <1>1, <1>9, EmptySeq
  <2>2. Len(frames') # 0
    BY <1>1, <1>4, <2>1
  <2>. QED
    BY <2>2
<1>. QED
  BY <1>3, <1>4, <1>5, <1>6, <1>9, <1>10

\* Places stay where they are.
LEMMA PlacesStay ==
    ASSUME WireInv, EncStep
    PROVE  /\ \A m \in Nat : \A s : SlotAt(m, s) => SlotAt(m, s)'
           /\ \A p : ~StatusAt(p)
           /\ \A kind \in {"ok", "error"} : ~HasStatus(kind)
           /\ \A i \in 1..Len(frames) : End(frames[i])' = End(frames[i])
<1>1. /\ Len(frames') \in Nat /\ Len(frames) <= Len(frames')
      /\ \A i \in 1..Len(frames) : frames'[i] = frames[i]
      /\ frames # <<>> => frames' # <<>>
      /\ source' = source /\ epc \notin {"returned", "raised"}
  BY EncoderGrows
<1>2. DOMAIN frames = 1..Len(frames) /\ DOMAIN frames' = 1..Len(frames')
      /\ Len(frames) \in Nat
  <2>1. WireInv'
    BY EncoderGrows
  <2>2. EncTypeOK'
    BY <2>1 DEF WireInv, EncInv
  <2>3. frames' \in Seq(Frame)
    BY <2>2 DEF EncTypeOK
  <2>. QED
    BY <2>3, WireFacts, LenProperties
<1>3. ASSUME NEW m \in Nat, NEW s, SlotAt(m, s)
      PROVE  SlotAt(m, s)'
  <2>1. CASE m = 1
    BY <1>1, <1>3, <2>1 DEF SlotAt
  <2>2. CASE m # 1
    <3>1. /\ 2 * m - 1 \in DOMAIN frames /\ frames[2 * m - 1].kind = "comma"
          /\ s = frames[2 * m - 1].start + 1
      BY <1>3, <2>2 DEF SlotAt
    <3>2. 2 * m - 1 \in DOMAIN frames'
          /\ frames'[2 * m - 1] = frames[2 * m - 1]
      BY <1>1, <1>2, <3>1
    <3>. QED
      BY <2>2, <3>1, <3>2 DEF SlotAt
  <2>. QED
    BY <2>1, <2>2
<1>4. \A i \in DOMAIN frames : frames[i].kind \notin {"ok", "error"}
  BY <1>1 DEF WireInv, EncInv, StatusLast
<1>5. \A p : ~StatusAt(p)
  <2>1. frames # <<>> => Len(frames) \in DOMAIN frames
    BY <1>2, WireFacts, EmptySeq
  <2>. QED
    BY <1>4, <2>1 DEF StatusAt
<1>6. \A kind \in {"ok", "error"} : ~HasStatus(kind)
  BY <1>4 DEF HasStatus
<1>7. \A i \in 1..Len(frames) : End(frames[i])' = End(frames[i])
  BY <1>1 DEF End, FrameText
<1>. QED
  BY <1>3, <1>5, <1>6, <1>7

\* What can reach the reader is the wire, or a first part of it.
LEMMA ReachOf ==
    ASSUME NEW w \in Seq(Symbol), NEW f, NEW c \in 0..Len(w),
           NEW r, r = IF f = "none" THEN w ELSE SubSeq(w, 1, c)
    PROVE  /\ r \in Seq(Symbol)
           /\ Len(r) = IF f = "none" THEN Len(w) ELSE c
           /\ Len(r) \in Nat /\ Len(r) <= Len(w)
           /\ \A i \in 1..Len(r) : r[i] = w[i]
<1>1. Len(w) \in Nat /\ c \in Nat /\ c <= Len(w)
  BY LenProperties
<1>2. CASE f = "none"
  BY <1>1, <1>2
<1>3. CASE f # "none"
  <2>1. \A i \in 1..c : w[i] \in Symbol
    BY <1>1, ElementOfSeq
  <2>2. r = SubSeq(w, 1, c)
    BY <1>3
  <2>3. /\ SubSeq(w, 1, c) \in Seq(Symbol)
        /\ Len(SubSeq(w, 1, c)) = IF 1 <= c THEN c - 1 + 1 ELSE 0
        /\ \A i \in 1..(c - 1 + 1) : SubSeq(w, 1, c)[i] = w[1 + i - 1]
    BY <1>1, <2>1, SubSeqProperties
  <2>4. r \in Seq(Symbol) /\ Len(r) = c
    BY <1>1, <2>2, <2>3
  <2>5. ASSUME NEW i \in 1..c PROVE r[i] = w[i]
    <3>1. i \in 1..(c - 1 + 1) /\ 1 + i - 1 = i
      BY <1>1
    <3>. QED
      BY <2>2, <2>3, <3>1
  <2>. QED
    BY <1>1, <1>3, <2>4, <2>5
<1>. QED
  BY <1>2, <1>3

\* What arrives is the beginning of what was written.
LEMMA NetFacts ==
    ASSUME WireInv, NetInv
    PROVE  /\ Arriving \in Seq(Symbol)
           /\ Len(Arriving) = IF fault = "none" THEN Len(wire) ELSE cut
           /\ Len(Arriving) \in Nat /\ Len(Arriving) <= Len(wire)
           /\ \A i \in 1..Len(Arriving) : Arriving[i] = wire[i]
           /\ read \in Nat /\ read <= Len(Arriving) /\ Len(wire) \in Nat
<1>1. wire \in Seq(Symbol) /\ Len(wire) \in Nat /\ cut \in 0..Len(wire)
  BY WireFacts DEF NetInv
<1>2. Arriving = IF fault = "none" THEN wire ELSE SubSeq(wire, 1, cut)
  BY DEF Arriving
<1>. HIDE DEF Arriving
<1>3. /\ Arriving \in Seq(Symbol)
      /\ Len(Arriving) = IF fault = "none" THEN Len(wire) ELSE cut
      /\ Len(Arriving) \in Nat /\ Len(Arriving) <= Len(wire)
      /\ \A i \in 1..Len(Arriving) : Arriving[i] = wire[i]
  BY <1>1, <1>2, ReachOf
<1>. QED
  BY <1>1, <1>3 DEF NetInv

\* How much can reach the reader, now and after a step that keeps the wire.
LEMMA ReachStep ==
    ASSUME WireInv, WireInv', cut' \in 0..Len(wire')
    PROVE  Len(Arriving)' = IF fault' = "none" THEN Len(wire') ELSE cut'
<1>1. wire' \in Seq(Symbol)
  BY DEF WireInv, EncInv, EncTypeOK
<1>2. Arriving' = IF fault' = "none" THEN wire' ELSE SubSeq(wire', 1, cut')
  BY DEF Arriving
<1>. HIDE DEF Arriving
<1>. QED
  BY <1>1, <1>2, ReachOf

\* The encoder writes on, and the connection carries no less.
LEMMA ProduceNet ==
    ASSUME WireInv, NetInv, Produce
    PROVE  NetInv'
<1>1. /\ EncStep /\ fault' = fault /\ cut' = cut /\ read' = read /\ dec' = dec
  BY DEF Produce, netVars, decVars
<1>2. /\ WireInv' /\ broken' = broken /\ Len(wire) <= Len(wire')
      /\ Len(wire') \in Nat /\ Len(wire) \in Nat
  BY <1>1, EncoderGrows, WireFacts
<1>3. cut' \in 0..Len(wire')
  BY <1>1, <1>2 DEF NetInv
<1>4. Len(Arriving)' = IF fault' = "none" THEN Len(wire') ELSE cut'
  BY <1>2, <1>3, ReachStep
<1>5. read \in Nat /\ read <= Len(Arriving)
      /\ Len(Arriving) = IF fault = "none" THEN Len(wire) ELSE cut
  BY NetFacts
<1>. DEFINE a == Len(Arriving')
<1>. HIDE DEF a
<1>6. a = IF fault' = "none" THEN Len(wire') ELSE cut'
  BY <1>4 DEF a
<1>7. read' \in 0..a
  BY <1>1, <1>2, <1>3, <1>5, <1>6
<1>. QED
  BY <1>1, <1>2, <1>3, <1>7 DEF NetInv, a

\* A scanner is not disturbed by what the encoder writes, ...
LEMMA ProduceScan ==
    ASSUME WireInv, NetInv, ScanInv, Produce, dec \in ScannerPorts
    PROVE  ScanInv'
<1>1. /\ EncStep /\ fault' = fault /\ dec' = dec /\ dpc' = dpc /\ read' = read
      /\ buf' = buf /\ pos' = pos /\ elemStart' = elemStart
      /\ depth' = depth /\ inString' = inString /\ escape' = escape
      /\ yielded' = yielded /\ outcome' = outcome
  BY DEF Produce, netVars, decVars, bufVars
<1>2. /\ WireInv' /\ source' = source /\ count \in Nat
      /\ count' \in Nat /\ count <= count'
      /\ Len(wire) <= Len(wire') /\ Len(wire') \in Nat /\ Len(wire) \in Nat
      /\ \A i \in 1..Len(wire) : wire'[i] = wire[i]
      /\ epc \notin {"returned", "raised"}
  BY <1>1, EncoderGrows, WireFacts
<1>3. /\ Prefix /\ Held /\ ScanPlace /\ IntactSettled
      /\ dpc = "done" => BufferBounded
  BY DEF ScanInv
<1>4. read \in Nat /\ read <= Len(wire)
  BY NetFacts
<1>5. Prefix'
  <2>1. Len(yielded) \in Nat
    BY <1>3, LenProperties DEF Prefix
  <2>. QED
    BY <1>1, <1>2, <1>3, <2>1 DEF Prefix
<1>6. Held'
  <2>1. Len(buf) \in Nat
    BY <1>3, LenProperties DEF Held
  <2>2. Base' = Base /\ Base \in Nat /\ Base + Len(buf) = read
    BY <1>1, <1>3, <1>4, <2>1 DEF Base, Held
  <2>3. ASSUME NEW j \in 1..Len(buf) PROVE buf[j] = wire'[Base + j]
    <3>1. Base + j \in 1..Len(wire)
      BY <1>2, <1>4, <2>1, <2>2
    <3>. QED
      BY <1>2, <1>3, <3>1 DEF Held
  <2>. QED
    BY <1>1, <1>3, <2>2, <2>3 DEF Held
<1>7. ScanPlace'
  <2>1. Base' = Base /\ LexState' = LexState
    BY <1>1 DEF Base, LexState
  <2>2. dpc \notin {"trailer", "pending"}
    BY <1>1, <1>3, PlacesStay DEF ScanPlace, Closed
  <2>3. ASSUME dpc = "scan" PROVE Located'
    <3>1. Here \in Nat
      BY <1>3, LenProperties DEF Prefix, Here
    <3>2. Located
      BY <1>3, <2>3 DEF ScanPlace
    <3>3. /\ Here' = Here /\ Passed' = Passed
          /\ Text[source[Here]]' = Text[source[Here]]
      BY <1>1, <1>2 DEF Here, Passed
    <3>4. SlotAt(Here, Base + elemStart)'
      <4>. DEFINE m == Here
                  s == Base + elemStart
      <4>1. m \in Nat /\ SlotAt(m, s)
        BY <3>1, <3>2 DEF Located
      <4>2. m' = m /\ s' = s
        BY <1>1, <2>1, <3>3
      <4>. HIDE DEF m, s
      <4>3. SlotAt(m, s)'
        BY <1>1, <4>1, <4>2, PlacesStay DEF SlotAt
      <4>. QED
        BY <4>3 DEF m, s
    <3>5. Here <= count => Here <= count'
      BY <1>2, <3>1
    <3>. QED
      BY <1>1, <2>1, <3>2, <3>3, <3>4, <3>5 DEF Located
  <2>. QED
    BY <1>1, <1>3, <2>1, <2>2, <2>3 DEF ScanPlace
<1>8. IntactSettled'
  <2>1. Readable' = Readable /\ Settled' = Settled
    BY <1>1, <1>2 DEF Readable, Settled
  <2>2. ~Ended
    BY <1>2 DEF Ended
  <2>. QED
    BY <1>1, <1>3, <2>1, <2>2 DEF IntactSettled
<1>9. dpc' = "done" => BufferBounded'
  BY <1>1, <1>3 DEF BufferBounded, TextLengths
<1>. QED
  BY <1>1, <1>5, <1>6, <1>7, <1>8, <1>9 DEF ScanInv

\* ... nor is a token reader.
LEMMA ProduceToken ==
    ASSUME WireInv, NetInv, TokenInv, Produce, dec \notin ScannerPorts
    PROVE  TokenInv'
<1>1. /\ EncStep /\ fault' = fault /\ cut' = cut /\ dec' = dec /\ dpc' = dpc
      /\ read' = read /\ buf' = buf /\ yielded' = yielded /\ outcome' = outcome
  BY DEF Produce, netVars, decVars, bufVars
<1>2. /\ source' = source /\ count \in Nat
      /\ count' \in Nat /\ count <= count'
      /\ frames # <<>> => frames' # <<>>
      /\ Len(frames) \in Nat /\ DOMAIN frames = 1..Len(frames)
      /\ \A i \in 1..Len(frames) : frames'[i] = frames[i]
  BY <1>1, EncoderGrows, WireFacts
<1>3. yielded \in Seq(Element) /\ Len(yielded) \in Nat
  BY LenProperties DEF TokenInv
<1>4. Prefix => Prefix'
  BY <1>1, <1>2, <1>3 DEF Prefix
<1>5. ASSUME Prefix, ReadPlace PROVE ReadPlace'
  <2>1. CASE yielded = <<>>
    BY <1>1, <1>2, <1>5, <2>1 DEF ReadPlace
  <2>2. CASE yielded # <<>>
    <3>. DEFINE k == Len(yielded)
    <3>1. k \in 1..count
      BY <1>2, <1>3, <1>5, <2>2, EmptySeq DEF Prefix
    <3>2. 2 * k \in 1..Len(frames)
      BY <1>2, <3>1 DEF WireInv, EncInv, ElementsInOrder
    <3>3. End(frames[2 * k])' = End(frames[2 * k])
      <4>. DEFINE i == 2 * k
      <4>1. i' = i
        BY <1>1
      <4>. HIDE DEF i
      <4>2. frames'[i] = frames[i]
        BY <1>2, <3>2 DEF i
      <4>3. End(frames[i])' = End(frames[i])
        BY <1>2, <4>1, <4>2 DEF End, FrameText
      <4>. QED
        BY <4>3 DEF i
    <3>. QED
      BY <1>1, <1>5, <2>2, <3>3 DEF ReadPlace
  <2>. QED
    BY <2>1, <2>2
<1>6. dpc # "trailer"
  BY <1>1, PlacesStay DEF TokenInv
<1>. QED
  BY <1>1, <1>4, <1>5, <1>6 DEF TokenInv, SplitOff

\* The encoder's steps.
LEMMA ProduceStep ==
    ASSUME StreamInv, Produce
    PROVE  StreamInv'
<1>1. /\ EncStep /\ dec' = dec /\ outcome' = outcome
  BY DEF Produce, netVars, decVars, bufVars
<1>2. WireInv' /\ NetInv'
  BY <1>1, EncoderGrows, ProduceNet DEF StreamInv
<1>3. VerdictSound'
  <2>1. outcome \notin {"clean", "streamError"}
    BY <1>1, PlacesStay DEF StreamInv, VerdictSound
  <2>. QED
    BY <1>1, <2>1 DEF VerdictSound
<1>4. CASE dec \in ScannerPorts
  <2>1. ScanInv'
    BY <1>4, ProduceScan DEF StreamInv
  <2>2. TokenInv'
    BY <1>1, <1>4 DEF TokenInv
  <2>. QED
    BY <1>2, <1>3, <2>1, <2>2 DEF StreamInv
<1>5. CASE dec \notin ScannerPorts
  <2>1. TokenInv'
    BY <1>5, ProduceToken DEF StreamInv
  <2>2. ScanInv'
    BY <1>1, <1>5 DEF ScanInv
  <2>. QED
    BY <1>2, <1>3, <2>1, <2>2 DEF StreamInv
<1>. QED
  BY <1>4, <1>5

-----------------------------------------------------------------------------
\* The invariant holds before the first symbol is written.
LEMMA InitStream == Init => StreamInv
<1>. SUFFICES ASSUME Init PROVE StreamInv
  OBVIOUS
<1>1. /\ EncInit /\ fault = "none" /\ cut = 0 /\ read = 0 /\ dpc = "header"
      /\ buf = <<>> /\ pos = 0 /\ elemStart = 0
      /\ depth = 0 /\ inString = FALSE /\ escape = FALSE
      /\ yielded = <<>> /\ outcome = "none"
  BY DEF Init, Scan!ScanInit, Tokens!ReadInit
<1>2. dec \in Decoders
  BY DEF Init, Scan!ScanInit, Tokens!ReadInit
<1>3. WireInv
  BY <1>1, InitLaid
<1>4. wire = <<>> /\ frames = <<>> /\ count = 0 /\ Len(wire) = 0
  BY <1>1 DEF EncInit
<1>5. NetInv
  <2>1. Arriving = <<>>
    BY <1>1, <1>4 DEF Arriving
  <2>2. Len(Arriving) = 0
    BY <2>1
  <2>. QED
    BY <1>1, <1>2, <1>4, <2>2 DEF NetInv
<1>6. VerdictSound
  BY <1>1 DEF VerdictSound
<1>7. yielded \in Seq(Element) /\ Len(yielded) = 0
      /\ buf \in Seq(Symbol) /\ Len(buf) = 0
  BY <1>1
<1>z. read = 0 /\ pos = 0 /\ elemStart = 0 /\ Len(buf) = 0
  BY <1>1, <1>7
<1>8. Prefix
  BY <1>4, <1>7 DEF Prefix
<1>9. ScanInv
  <2>1. Base = 0
    BY <1>z DEF Base
  <2>2. Held
    <3>1. pos \in 0..Len(buf) /\ elemStart \in 0..pos
      BY <1>z
    <3>2. \A j \in 1..Len(buf) : buf[j] = wire[Base + j]
      BY <1>z
    <3>3. Base \in Nat /\ inString \in BOOLEAN /\ escape \in BOOLEAN
      BY <1>1, <2>1
    <3>. QED
      BY <1>7, <3>1, <3>2, <3>3 DEF Held
  <2>3. ScanPlace
    <3>1. Len(buf) < Len(Header) + ChunkSize
      <4>1. Len(buf) = 0 /\ Len(Header) = 3 /\ ChunkSize \in Nat \ {0}
        BY <1>7, HeaderSymbols, StreamAssumption
      <4>. QED
        BY <4>1
    <3>2. LexState = Fresh
      BY <1>1 DEF LexState, Fresh
    <3>. QED
      BY <1>1, <2>1, <3>1, <3>2 DEF ScanPlace
  <2>4. IntactSettled
    BY <1>1 DEF IntactSettled, Settled
  <2>. QED
    BY <1>1, <1>8, <2>2, <2>3, <2>4 DEF ScanInv
<1>10. TokenInv
  BY <1>1, <1>7, <1>8 DEF TokenInv
<1>. QED
  BY <1>3, <1>5, <1>6, <1>9, <1>10 DEF StreamInv

\* The connection breaks.
LEMMA DisconnectStep ==
    ASSUME StreamInv, Disconnect
    PROVE  StreamInv'
<1>1. /\ outcome = "none" /\ Break /\ fault' \in {"eof", "reset"}
      /\ cut' \in read..Len(wire)
      /\ dec' = dec /\ dpc' = dpc /\ read' = read
      /\ buf' = buf /\ pos' = pos /\ elemStart' = elemStart
      /\ depth' = depth /\ inString' = inString /\ escape' = escape
      /\ yielded' = yielded /\ outcome' = outcome
  BY StreamAssumption DEF Disconnect, decVars, bufVars
<1>2. /\ broken' = TRUE /\ fault = "none" /\ enc' = enc /\ source' = source
      /\ ending' = ending /\ count' = count /\ epc' = epc
      /\ wire' = wire /\ frames' = frames
  BY <1>1 DEF Break, StreamInv, NetInv
<1>3. WireInv /\ WireInv' /\ NetInv
  BY <1>1, StepLaid DEF EncNext, StreamInv
<1>4. NetInv'
  <2>1. read \in Nat /\ read <= Len(wire) /\ Len(wire) \in Nat
    BY <1>3, NetFacts
  <2>2. cut' \in 0..Len(wire') /\ cut' \in Nat
    BY <1>1, <1>2, <2>1
  <2>3. Len(Arriving)' = cut'
    BY <1>1, <1>3, <2>2, ReachStep
  <2>. DEFINE a == Len(Arriving')
  <2>. HIDE DEF a
  <2>4. a = cut'
    BY <2>3 DEF a
  <2>5. read' \in 0..a
    BY <1>1, <2>1, <2>2, <2>4
  <2>. QED
    BY <1>1, <1>2, <1>3, <2>2, <2>5 DEF NetInv, a
<1>5. VerdictSound'
  BY <1>1 DEF VerdictSound
<1>6. Prefix => Prefix'
  BY <1>1, <1>2 DEF Prefix
<1>7. ScanInv'
  <2>. SUFFICES ASSUME dec \in ScannerPorts PROVE ScanInv'
    BY <1>1 DEF ScanInv
  <2>1. Prefix /\ Held /\ ScanPlace /\ dpc # "done"
    BY <1>1 DEF ScanPlace, StreamInv, ScanInv
  <2>2. Held' /\ Base' = Base /\ LexState' = LexState
    BY <1>1, <1>2, <2>1 DEF Held, Base, LexState
  <2>3. Located => Located'
    BY <1>1, <1>2, <2>2 DEF Located, SlotAt, Here, Passed
  <2>4. Closed => Closed'
    BY <1>1, <1>2, <2>2 DEF Closed, StatusAt, LastText, TextLengths
  <2>5. ScanPlace'
    BY <1>1, <2>1, <2>2, <2>3, <2>4 DEF ScanPlace
  <2>6. IntactSettled'
    BY <1>1 DEF IntactSettled
  <2>. QED
    BY <1>1, <1>6, <2>1, <2>2, <2>5, <2>6 DEF ScanInv
<1>8. TokenInv'
  <2>. SUFFICES ASSUME dec \notin ScannerPorts PROVE TokenInv'
    BY <1>1 DEF TokenInv
  <2>1. ReadPlace => ReadPlace'
    BY <1>1, <1>2 DEF ReadPlace, End, FrameText
  <2>2. ~SplitOff /\ Prefix
    BY <1>2 DEF SplitOff, StreamInv, TokenInv
  <2>3. StatusAt(read - 1) => StatusAt(read - 1)'
    BY <1>1, <1>2 DEF StatusAt
  <2>. QED
    BY <1>1, <1>2, <1>6, <2>1, <2>2, <2>3 DEF StreamInv, TokenInv
<1>. QED
  BY <1>3, <1>4, <1>5, <1>7, <1>8 DEF StreamInv

-----------------------------------------------------------------------------
(***************************************************************************)
(* The scanners: the text they hold.                                       *)
(***************************************************************************)
\* The envelope's texts, as the two decoder modules know them.
LEMMA SameTexts ==
    /\ Scan!Header = Header /\ Tokens!Header = Header
    /\ \A t : Scan!TrailerVerdict(t) = TrailerVerdict(t)
    /\ \A t : Tokens!TrailerVerdict(t) = TrailerVerdict(t)
    /\ \A port, t : Scan!IsValue(port, t) <=> IsValue(port, t)
    /\ \A t : Scan!ValueOf(t) = ValueOf(t)
    /\ Tokens!OkTrailer = OkTrailer /\ Tokens!ErrorTrailer = ErrorTrailer
    /\ Tokens!Numbers = Numbers
<1>1. Scan!Header = Header /\ Tokens!Header = Header
  BY DEF Scan!Header, Tokens!Header, Header
<1>2. /\ Tokens!OkTrailer = OkTrailer /\ Tokens!ErrorTrailer = ErrorTrailer
      /\ Scan!OkTrailer = OkTrailer /\ Scan!ErrorTrailer = ErrorTrailer
  BY DEF Tokens!OkTrailer, OkTrailer, Tokens!ErrorTrailer, ErrorTrailer,
         Scan!OkTrailer, Scan!ErrorTrailer
<1>3. /\ \A t : Scan!TrailerVerdict(t) = TrailerVerdict(t)
      /\ \A t : Tokens!TrailerVerdict(t) = TrailerVerdict(t)
  BY <1>2 DEF Scan!TrailerVerdict, Tokens!TrailerVerdict, TrailerVerdict
<1>4. \A port, t : Scan!IsValue(port, t) <=> IsValue(port, t)
  <2>1. \A t : Scan!Lexed(t) = Lexed(t)
    BY DEF Scan!Lexed, Lexed, Scan!Lex, Lex, Scan!Fresh, Fresh
  <2>2. \A port : Scan!Parsable(port) = Parsable(port)
    BY <2>1 DEF Scan!Parsable, Parsable, Scan!NestsPast, NestsPast, Scan!Past, Past
  <2>. QED
    BY <2>2 DEF Scan!IsValue, IsValue
<1>5. \A t : Scan!ValueOf(t) = ValueOf(t)
  BY DEF Scan!ValueOf, ValueOf
<1>6. Tokens!Numbers = Numbers
  BY DEF Tokens!Numbers, Numbers
<1>. QED
  BY <1>1, <1>2, <1>3, <1>4, <1>5, <1>6

\* A step of a decoder keeps everything but the decoder's own state.
LEMMA ReaderStep ==
    ASSUME WireInv, NetInv, UNCHANGED <<encVars, netVars>>,
           dec' = dec, read' \in read..Len(Arriving)
    PROVE  /\ WireInv' /\ NetInv'
           /\ source' = source /\ count' = count /\ wire' = wire
           /\ fault' = fault /\ cut' = cut /\ epc' = epc /\ frames' = frames
           /\ \A m, s : SlotAt(m, s)' <=> SlotAt(m, s)
<1>1. /\ enc' = enc /\ source' = source /\ ending' = ending /\ count' = count
      /\ epc' = epc /\ wire' = wire /\ frames' = frames /\ broken' = broken
      /\ fault' = fault /\ cut' = cut
  BY DEF encVars, netVars
<1>2. WireInv'
  BY StepLaid
<1>3. Arriving' = Arriving
  BY <1>1 DEF Arriving
<1>4. read' \in 0..Len(Arriving)
  BY NetFacts
<1>5. NetInv'
  BY <1>1, <1>3, <1>4 DEF NetInv
<1>6. \A m, s : SlotAt(m, s)' <=> SlotAt(m, s)
  BY <1>1 DEF SlotAt
<1>. QED
  BY <1>1, <1>2, <1>5, <1>6

-----------------------------------------------------------------------------
(***************************************************************************)
(* The scanners: where the cursor is.                                      *)
(***************************************************************************)
LEMMA HeldFacts ==
    ASSUME WireInv, NetInv, Held
    PROVE  /\ buf \in Seq(Symbol) /\ Len(buf) \in Nat
           /\ pos \in Nat /\ pos <= Len(buf)
           /\ elemStart \in Nat /\ elemStart <= pos
           /\ Base \in Nat /\ read \in Nat /\ Base + Len(buf) = read
           /\ read <= Len(Arriving) /\ Len(Arriving) \in Nat
           /\ Len(Arriving) <= Len(wire) /\ Len(wire) \in Nat
           /\ Passed \in Nat /\ (Base + elemStart) + Passed = Base + pos
           /\ \A j \in 1..Len(buf) : buf[j] = wire[Base + j]
<1>1. buf \in Seq(Symbol) /\ Len(buf) \in Nat
  BY LenProperties DEF Held
<1>2. pos \in 0..Len(buf) /\ elemStart \in 0..pos /\ Base \in Nat
      /\ \A j \in 1..Len(buf) : buf[j] = wire[Base + j]
  BY DEF Held
<1>3. /\ pos \in Nat /\ pos <= Len(buf)
      /\ elemStart \in Nat /\ elemStart <= pos
  BY <1>1, <1>2
<1>4. /\ read \in Nat /\ read <= Len(Arriving) /\ Len(Arriving) \in Nat
      /\ Len(Arriving) <= Len(wire) /\ Len(wire) \in Nat
  BY NetFacts
<1>5. Base + Len(buf) = read
  BY <1>1, <1>4 DEF Base
<1>6. Passed \in Nat /\ (Base + elemStart) + Passed = Base + pos
  BY <1>2, <1>3 DEF Passed
<1>. QED
  BY <1>1, <1>2, <1>3, <1>4, <1>5, <1>6

\* What has been dealt with leaves the text from the front.
LEMMA DropText ==
    ASSUME WireInv, NetInv, Held, wire' = wire, read' = read,
           NEW n \in 0..Len(buf), buf' = SubSeq(buf, n + 1, Len(buf)),
           pos' \in 0..(Len(buf) - n), elemStart' \in 0..pos',
           inString' \in BOOLEAN, escape' \in BOOLEAN
    PROVE  /\ Held' /\ Base' = Base + n
           /\ Len(buf') = Len(buf) - n /\ Len(buf') \in Nat
<1>. DEFINE l == Len(buf)
            c == buf'
            b == Base
<1>1. /\ l \in Nat /\ n \in Nat /\ n <= l /\ b \in Nat /\ b = read - l
      /\ read \in Nat /\ buf \in Seq(Symbol) /\ l \in n..Len(buf)
  BY HeldFacts DEF Base
<1>2. c = SubSeq(buf, n + 1, l)
  OBVIOUS
<1>3. \A j \in 1..l : buf[j] = wire[b + j]
  BY HeldFacts
<1>. HIDE DEF l, c, b
<1>4. c \in Seq(Symbol) /\ Len(c) = l - n
      /\ \A j \in 1..(l - n) : c[j] = buf[n + j]
  BY <1>1, <1>2, Part
<1>5. Base' = b + n
  <2>1. Base' = read - Len(c)
    BY DEF Base, c
  <2>. QED
    BY <1>1, <1>4, <2>1
<1>6. ASSUME NEW j \in 1..(l - n)
      PROVE  c[j] = wire[(b + n) + j]
  <2>1. n + j \in 1..l /\ b + (n + j) = (b + n) + j
    BY <1>1
  <2>2. buf[n + j] = wire[b + (n + j)]
    BY <1>3, <2>1
  <2>. QED
    BY <1>4, <2>1, <2>2
<1>7. \A j \in 1..Len(c) : c[j] = wire'[Base' + j]
  BY <1>4, <1>5, <1>6
<1>8. pos' \in 0..Len(c) /\ Base' \in Nat
  BY <1>1, <1>4, <1>5 DEF l
<1>9. Held'
  BY <1>4, <1>7, <1>8 DEF Held, c
<1>. QED
  BY <1>1, <1>4, <1>5, <1>9, SMTT(30) DEF l, c, b

\* The value under the cursor.
LEMMA HereFacts ==
    ASSUME WireInv, NetInv, Prefix, Held, Located
    PROVE  /\ Here \in Nat /\ Here > 0 /\ Here <= count + 1 /\ count \in Nat
           /\ Len(yielded) \in Nat
           /\ Here <= count =>
                 /\ source[Here] \in Element
                 /\ Passed <= Len(Text[source[Here]])
                 /\ Len(Text[source[Here]]) \in Nat \ {0}
                 /\ LexState = Lexed(Text[source[Here]])[Passed]
           /\ Here > count => Passed = 0 /\ Here = count + 1
           /\ Passed = 0 => LexState = Fresh
           /\ depth \in Nat
<1>1. Len(yielded) \in Nat /\ Len(yielded) <= count /\ count \in Nat
  BY WireFacts, LenProperties DEF Prefix
<1>2. /\ Here \in Nat /\ Here > 0 /\ Here <= count + 1
      /\ Here > count => Here = count + 1
  BY <1>1 DEF Here
<1>3. Passed \in Nat
  BY HeldFacts
<1>4. ASSUME Here <= count
      PROVE  /\ source[Here] \in Element
             /\ Passed <= Len(Text[source[Here]])
             /\ Len(Text[source[Here]]) \in Nat \ {0}
             /\ LexState = Lexed(Text[source[Here]])[Passed]
  <2>1. Here \in 1..count
    BY <1>1, <1>2, <1>4
  <2>2. source[Here] \in Element
    BY <2>1, SlotText DEF Located
  <2>3. Len(Text[source[Here]]) \in Nat \ {0}
        /\ Lexed(Text[source[Here]])[0] = Fresh
    BY <2>2, LexFacts
  <2>4. Passed <= Len(Text[source[Here]])
    <3>1. CASE Passed = 0
      BY <2>3, <3>1
    <3>2. CASE Passed > 0
      BY <3>2 DEF Located
    <3>. QED
      BY <1>3, <3>1, <3>2
  <2>5. LexState = Lexed(Text[source[Here]])[Passed]
    BY <2>3 DEF Located
  <2>. QED
    BY <2>2, <2>3, <2>4, <2>5
<1>5. Here > count => Passed = 0
  <2>1. Passed > 0 => Here <= count
    BY DEF Located
  <2>. QED
    BY <1>1, <1>2, <1>3, <2>1
<1>6. Passed = 0 => LexState = Fresh
  BY DEF Located
<1>7. depth \in Nat
  <2>1. LexState.depth = depth
    BY DEF LexState
  <2>2. CASE Passed = 0
    <3>1. LexState.depth = 0
      BY <1>6, <2>2 DEF Fresh
    <3>. QED
      BY <2>1, <3>1
  <2>3. CASE Passed # 0
    <3>1. Here <= count
      BY <1>3, <2>3 DEF Located
    <3>2. Passed \in 1..Len(Text[source[Here]]) /\ source[Here] \in Element
      BY <1>3, <1>4, <2>3, <3>1
    <3>3. Lexed(Text[source[Here]])[Passed].depth \in Nat
      BY <3>2, LexFacts
    <3>. QED
      BY <1>4, <2>1, <3>1, <3>3
  <2>. QED
    BY <2>2, <2>3
<1>. QED
  BY <1>1, <1>2, <1>4, <1>5, <1>6, <1>7

\* What the scanner can meet: a symbol inside a value, the comma behind it, the
\* "]" behind the last one, or the "]" where a value could have been.
Inside(c) ==
    /\ Here <= count /\ Passed < Len(Text[source[Here]])
    /\ c = Text[source[Here]][Passed + 1]
    /\ ~EndsValue(LexState, c)
Behind(c) ==
    /\ Here <= count /\ Passed = Len(Text[source[Here]])
    /\ LexState = Fresh
    /\ \/ c = "," /\ SlotAt(Here + 1, Base + pos + 1)
       \/ c = "]" /\ StatusAt(Base + pos) /\ Here = count
Vacant(c) ==
    /\ Here = count + 1 /\ Passed = 0
    /\ LexState = Fresh
    /\ c = "]" /\ StatusAt(Base + pos)

\* One of the three holds of the symbol under a scanner's cursor.
LEMMA AtChar ==
    ASSUME WireInv, NetInv, Prefix, Held, Located, pos < Len(buf)
    PROVE  Inside(buf[pos + 1]) \/ Behind(buf[pos + 1]) \/ Vacant(buf[pos + 1])
<1>. DEFINE q == Base + pos
            s == Base + elemStart
            m == Here
            T == Text[source[Here]]
<1>1. /\ m \in Nat /\ m > 0 /\ m <= count + 1 /\ count \in Nat
      /\ s \in Nat /\ q \in Nat /\ Passed \in Nat /\ s + Passed = q
  <2>1. m \in Nat /\ m > 0 /\ m <= count + 1 /\ count \in Nat
    BY HereFacts
  <2>2. /\ Base \in Nat /\ elemStart \in Nat /\ pos \in Nat /\ Passed \in Nat
        /\ (Base + elemStart) + Passed = Base + pos
    BY HeldFacts
  <2>3. s \in Nat /\ q \in Nat /\ s + Passed = q
    BY ONLY <2>2
  <2>. QED
    BY <2>1, <2>2, <2>3
<1>2. q < Len(wire) /\ buf[pos + 1] = wire[q + 1]
  <2>1. pos + 1 \in 1..Len(buf) /\ Base + (pos + 1) = q + 1
    BY HeldFacts
  <2>2. q < Len(wire)
    <3>1. Base + Len(buf) <= Len(wire)
      BY HeldFacts
    <3>. QED
      BY <3>1, HeldFacts
  <2>3. buf[pos + 1] = wire[Base + (pos + 1)]
    BY <2>1, HeldFacts
  <2>. QED
    BY <2>1, <2>2, <2>3
<1>3. SlotAt(m, s)
  BY DEF Located
<1>4. CASE m <= count /\ Passed < Len(T)
  <2>1. /\ T \in Seq(Symbol) /\ Len(T) \in Nat /\ source[m] \in Element
        /\ \A j \in 1..Len(T) : wire[s + j] = T[j]
    <3>1. m \in 1..count
      BY <1>1, <1>4
    <3>. QED
      BY <1>3, <3>1, SlotText
  <2>2. Passed + 1 \in 1..Len(T) /\ s + (Passed + 1) = q + 1
        /\ (Passed + 1) - 1 = Passed
    BY <1>1, <1>4, <2>1
  <2>3. buf[pos + 1] = T[Passed + 1]
    BY <1>2, <2>1, <2>2
  <2>4. LexState = Lexed(T)[Passed]
    BY <1>4, HereFacts
  <2>5. ~EndsValue(Lexed(T)[(Passed + 1) - 1], T[Passed + 1])
    BY <2>1, <2>2, LexFacts
  <2>6. ~EndsValue(LexState, buf[pos + 1])
    BY <2>2, <2>3, <2>4, <2>5
  <2>. QED
    BY <1>4, <2>3, <2>6 DEF Inside
<1>5. CASE m <= count /\ Passed = Len(T)
  <2>1. m \in 1..count /\ source[m] \in Element
    BY <1>1, <1>5, HereFacts
  <2>2. LexState = Fresh
    <3>1. LexState = Lexed(T)[Passed]
      BY <1>5, HereFacts
    <3>2. Lexed(T)[Len(T)] = Fresh
      BY <2>1, LexFacts
    <3>. QED
      BY <1>5, <3>1, <3>2
  <2>3. q = s + Len(T)
    BY <1>1, <1>5
  <2>. HIDE DEF q, s
  <2>4. \/ wire[q + 1] = "," /\ SlotAt(m + 1, q + 1)
        \/ wire[q + 1] = "]" /\ StatusAt(q) /\ m = count
    BY <1>2, <1>3, <2>1, <2>3, AfterText
  <2>. QED
    BY <1>2, <1>5, <2>2, <2>4 DEF Behind, q
<1>6. CASE m = count + 1
  <2>1. Passed = 0 /\ LexState = Fresh
    BY <1>1, <1>6, HereFacts
  <2>2. s = q
    BY <1>1, <2>1
  <2>. HIDE DEF q, s
  <2>3. StatusAt(s) /\ wire[s + 1] = "]"
    BY <1>2, <1>3, <1>6, <2>2, EmptySlot
  <2>. QED
    BY <1>2, <1>6, <2>1, <2>2, <2>3 DEF Vacant, q
<1>7. m <= count => Passed <= Len(T) /\ Len(T) \in Nat
  BY HereFacts
<1>. QED
  BY <1>1, <1>4, <1>5, <1>6, <1>7

\* The slice under the cursor.
LEMMA SegmentText ==
    ASSUME WireInv, NetInv, Prefix, Held, Located
    PROVE  /\ SubSeq(buf, elemStart + 1, pos) \in Seq(Symbol)
           /\ Len(SubSeq(buf, elemStart + 1, pos)) = Passed
           /\ Here <= count /\ Passed = Len(Text[source[Here]]) =>
                 SubSeq(buf, elemStart + 1, pos) = Text[source[Here]]
<1>. DEFINE g == SubSeq(buf, elemStart + 1, pos)
<1>1. /\ g \in Seq(Symbol) /\ Len(g) = Passed
      /\ \A j \in 1..Passed : g[j] = buf[elemStart + j]
  <2>1. pos \in elemStart..Len(buf) /\ pos - elemStart = Passed
    BY HeldFacts DEF Passed
  <2>2. buf \in Seq(Symbol) /\ elemStart \in Nat
    BY HeldFacts
  <2>3. /\ g \in Seq(Symbol) /\ Len(g) = pos - elemStart
        /\ \A j \in 1..(pos - elemStart) : g[j] = buf[elemStart + j]
    BY <2>1, <2>2, Part
  <2>. QED
    BY <2>1, <2>3
<1>. HIDE DEF g
<1>2. ASSUME Here <= count, Passed = Len(Text[source[Here]])
      PROVE  g = Text[source[Here]]
  <2>. DEFINE T == Text[source[Here]]
              s == Base + elemStart
  <2>1. Here \in 1..count /\ SlotAt(Here, s)
    BY <1>2, HereFacts DEF Located
  <2>2. T \in Seq(Symbol) /\ \A j \in 1..Len(T) : wire[s + j] = T[j]
    BY <2>1, SlotText, SMTT(30)
  <2>3. ASSUME NEW j \in 1..Len(g) PROVE g[j] = T[j]
    <3>1. j \in 1..Passed /\ elemStart + j \in 1..Len(buf)
          /\ Base + (elemStart + j) = s + j
      BY <1>1, HeldFacts, SMTT(30) DEF Passed
    <3>2. g[j] = buf[elemStart + j] /\ buf[elemStart + j] = wire[s + j]
      BY <1>1, <3>1, HeldFacts
    <3>3. j \in 1..Len(T)
      BY <1>2, <3>1
    <3>. QED
      BY <2>2, <3>2, <3>3
  <2>. QED
    BY <1>1, <1>2, <2>2, <2>3, SeqEqual
<1>. QED
  BY <1>1, <1>2 DEF g

-----------------------------------------------------------------------------
(***************************************************************************)
(* The scanners: one lemma per kind of step.                               *)
(***************************************************************************)

\* The text held is bounded at every place.
LEMMA BoundFacts ==
    ASSUME WireInv, NetInv, ScanInv, dec \in ScannerPorts
    PROVE  BufferBounded
<1>1. /\ Prefix /\ Held /\ ScanPlace
      /\ dpc = "done" => BufferBounded
  BY DEF ScanInv
<1>2. /\ Len(Header) = 3 /\ Len(ErrorTrailer) = 9
      /\ ChunkSize \in Nat /\ ChunkSize > 0
  <2>1. Len(ErrorTrailer) = 9
    BY StatusSymbols, Zenon
  <2>2. ChunkSize \in Nat /\ ChunkSize > 0
    BY StreamAssumption
  <2>. QED
    BY <2>1, <2>2, HeaderSymbols
<1>3. ASSUME NEW n \in TextLengths, Len(buf) <= 3 + n + ChunkSize + 1, n \in Nat
      PROVE  BufferBounded
  <2>1. Len(buf) \in Nat
    BY <1>1, HeldFacts
  <2>2. Len(buf) <= Len(Header) + n + ChunkSize
                        + (IF dpc = "scan" THEN 1 ELSE 1 + Len(ErrorTrailer))
    BY <1>2, <1>3, <2>1
  <2>. QED
    BY <2>2 DEF BufferBounded
<1>4. CASE dpc = "header"
  <2>1. 0 \in TextLengths
    BY DEF TextLengths
  <2>2. Len(buf) < Len(Header) + ChunkSize /\ Len(buf) \in Nat
    BY <1>1, <1>4, HeldFacts DEF ScanPlace
  <2>3. Len(buf) <= 3 + 0 + ChunkSize + 1
    BY <1>2, <2>2
  <2>. QED
    BY <1>3, <2>1, <2>3
<1>5. CASE dpc = "scan"
  <2>1. Located
    BY <1>1, <1>5 DEF ScanPlace
  <2>2. elemStart <= 3 /\ Len(buf) - pos <= ChunkSize
    BY <1>2, <2>1 DEF Located
  <2>3. Len(buf) \in Nat /\ pos \in Nat /\ elemStart \in Nat /\ Passed \in Nat
        /\ pos = elemStart + Passed
    BY <1>1, HeldFacts DEF Passed
  <2>4. CASE Here <= count
    <3>. DEFINE n == Len(Text[source[Here]])
    <3>1. n \in Nat /\ Passed <= n /\ source[Here] \in Element
      BY <1>1, <2>1, <2>4, HereFacts
    <3>2. n \in TextLengths
      BY <3>1 DEF TextLengths
    <3>. HIDE DEF n
    <3>3. Len(buf) <= 3 + n + ChunkSize + 1
      BY <1>2, <2>2, <2>3, <3>1
    <3>. QED
      BY <1>3, <3>1, <3>2, <3>3
  <2>5. CASE ~(Here <= count)
    <3>1. Passed = 0
      <4>1. Here \in Nat /\ count \in Nat /\ Here > count => Passed = 0
        BY <1>1, <2>1, HereFacts
      <4>2. Here > count
        BY <1>1, <2>1, <2>5, HereFacts
      <4>. QED
        BY <1>1, <2>1, <4>2, HereFacts
    <3>2. 0 \in TextLengths
      BY DEF TextLengths
    <3>3. Len(buf) <= 3 + 0 + ChunkSize + 1
      BY <1>2, <2>2, <2>3, <3>1
    <3>. QED
      BY <1>3, <3>2, <3>3
  <2>. QED
    BY <2>4, <2>5
<1>6. CASE dpc \in {"trailer", "pending"}
  <2>1. Closed
    BY <1>1, <1>6 DEF ScanPlace
  <2>2. PICK n \in TextLengths : pos = elemStart + n + 1
    BY <2>1 DEF Closed
  <2>3. n \in Nat
    <3>1. \A e \in Element : Len(Text[e]) \in Nat
      BY LexFacts
    <3>. QED
      BY <3>1 DEF TextLengths
  <2>4. elemStart <= 3 /\ elemStart \in Nat /\ Len(buf) \in Nat /\ pos \in Nat
    BY <1>1, <1>2, <2>1, HeldFacts DEF Closed
  <2>5. Len(buf) - pos <= 9
    <3>. DEFINE p == Base + pos - 1
                l == Len(Terminal)
    <3>1. StatusAt(p)
      BY <2>1 DEF Closed
    <3>2. Len(wire) = p + l /\ l \in {5, 10}
      BY <3>1, StatusText
    <3>. HIDE DEF l
    <3>3. Base \in Nat /\ Base + Len(buf) <= Len(wire)
      BY <1>1, HeldFacts
    <3>. QED
      BY <2>4, <3>2, <3>3
  <2>6. Len(buf) <= Len(Header) + n + ChunkSize
                        + (IF dpc = "scan" THEN 1 ELSE 1 + Len(ErrorTrailer))
    <3>1. Len(buf) <= 3 + n + ChunkSize + 10
      BY <1>2, <2>2, <2>3, <2>4, <2>5
    <3>. QED
      BY <1>2, <1>6, <2>3, <3>1
  <2>. QED
    BY <2>6 DEF BufferBounded
<1>. QED
  BY <1>1, <1>4, <1>5, <1>6 DEF ScanPlace

\* One symbol of a value.
LEMMA InText ==
    ASSUME WireInv, NetInv, Prefix, Held, Located,
           WireInv', NetInv',
           pos < Len(buf), Inside(buf[pos + 1]),
           source' = source, count' = count, wire' = wire,
           SlotAt(Here, Base + elemStart)',
           read' = read, buf' = buf, elemStart' = elemStart, yielded' = yielded,
           pos' = pos + 1, inString' \in BOOLEAN, escape' \in BOOLEAN,
           LexState' = Lex(LexState, buf[pos + 1])
    PROVE  Held' /\ Located'
<1>. DEFINE T == Text[source[Here]]
<1>1. Here <= count /\ Passed < Len(T) /\ buf[pos + 1] = T[Passed + 1]
  BY DEF Inside
<1>2. source[Here] \in Element /\ Passed \in Nat /\ Len(T) \in Nat
      /\ LexState = Lexed(T)[Passed]
  BY <1>1, HereFacts, HeldFacts
<1>3. /\ Passed + 1 \in 1..Len(T) /\ (Passed + 1) - 1 = Passed
  BY <1>1, <1>2
<1>4. Lexed(T)[Passed + 1] = Lex(Lexed(T)[Passed], T[Passed + 1])
  BY <1>2, <1>3, LexFacts
<1>5. LexState' = Lexed(T)[Passed + 1]
  BY <1>1, <1>2, <1>4
<1>6. /\ pos \in Nat /\ elemStart \in Nat /\ elemStart <= pos
      /\ Len(buf) \in Nat /\ pos < Len(buf) /\ Passed = pos - elemStart
  BY HeldFacts DEF Passed
<1>7. pos' \in 0..Len(buf) /\ elemStart \in 0..pos'
      /\ pos' - elemStart = Passed + 1 /\ Len(buf) - pos' <= Len(buf) - pos
  <2>1. pos' = pos + 1
    OBVIOUS
  <2>. QED
    BY <1>6, <2>1
<1>8. Base' = Base /\ Here' = Here /\ Passed' = Passed + 1
  BY <1>7 DEF Base, Here, Passed
<1>9. Held'
  BY <1>7, <1>8 DEF Held
<1>10. Located'
  <2>1. Text[source[Here]]' = T
    BY <1>8
  <2>2. LexState' = IF Passed' = 0 THEN Fresh ELSE Lexed(T)[Passed']
    BY <1>2, <1>5, <1>8
  <2>3. Len(buf') - pos' <= ChunkSize
    <3>1. Len(buf) - pos <= ChunkSize /\ ChunkSize \in Nat
      BY StreamAssumption DEF Located
    <3>. QED
      BY <1>6, <1>7, <3>1
  <2>4. Passed' > 0 => Here' <= count' /\ Passed' <= Len(T)
    BY <1>1, <1>3, <1>8
  <2>5. elemStart' <= Len(Header)
    BY DEF Located
  <2>. QED
    BY <2>1, <2>2, <2>3, <2>4, <2>5 DEF Located
<1>. QED
  BY <1>9, <1>10

\* One more read.
LEMMA FillStep ==
    ASSUME WireInv, NetInv, Held, Scan!Fill, wire' = wire,
           pos' = pos, elemStart' = elemStart,
           inString' = inString, escape' = escape
    PROVE  /\ Held' /\ Base' = Base /\ read' \in read..Len(Arriving)
           /\ Len(buf') \in Nat /\ Len(buf) < Len(buf')
           /\ Len(buf') <= Len(buf) + ChunkSize
           /\ \A j \in 1..Len(buf) : buf'[j] = buf[j]
<1>1. PICK n \in 1..ChunkSize :
          /\ read + n <= Len(Arriving) /\ read' = read + n
          /\ buf' = buf \o SubSeq(Arriving, read + 1, read + n)
  BY DEF Scan!Fill
<1>2. n \in Nat /\ n >= 1 /\ n <= ChunkSize
  BY StreamAssumption
<1>3. /\ Arriving \in Seq(Symbol)
      /\ \A i \in 1..Len(Arriving) : Arriving[i] = wire[i]
  BY NetFacts
<1>4. buf \in Seq(Symbol) /\ read \in Nat /\ Len(buf) <= read
      /\ Len(buf) \in Nat
      /\ \A j \in 1..Len(buf) : buf[j] = wire[(read - Len(buf)) + j]
  BY HeldFacts DEF Base
<1>. DEFINE a == Arriving
<1>. HIDE DEF a
<1>5. /\ a \in Seq(Symbol) /\ \A i \in 1..Len(a) : a[i] = wire[i]
      /\ read + n <= Len(a) /\ buf' = buf \o SubSeq(a, read + 1, read + n)
  BY <1>1, <1>3 DEF a
<1>6. /\ buf' \in Seq(Symbol) /\ Len(buf') = Len(buf) + n
      /\ \A j \in 1..Len(buf) : buf'[j] = buf[j]
      /\ \A j \in 1..Len(buf') : buf'[j] = wire[(read - Len(buf)) + j]
  <2>1. Refilled(wire, a, buf, read, n, buf')
    BY <1>2, <1>4, <1>5 DEF Refilled
  <2>. QED
    BY ONLY <2>1, FillWindow
<1>7. read' - Len(buf') = read - Len(buf) /\ read' = read + n
  BY <1>1, <1>2, <1>4, <1>6
<1>8. Base' = Base
  BY <1>7 DEF Base
<1>9. Len(buf') \in Nat /\ Len(buf) < Len(buf') /\ Len(buf') <= Len(buf) + ChunkSize
  BY <1>2, <1>4, <1>6, StreamAssumption
<1>10. Held'
  <2>1. pos' \in 0..Len(buf') /\ elemStart' \in 0..pos'
    BY <1>9, HeldFacts
  <2>2. Base' \in Nat /\ \A j \in 1..Len(buf') : buf'[j] = wire'[Base' + j]
    BY <1>6, <1>8, HeldFacts DEF Base
  <2>3. inString' \in BOOLEAN /\ escape' \in BOOLEAN
    BY DEF Held
  <2>. QED
    BY <1>6, <2>1, <2>2, <2>3 DEF Held
<1>11. read' \in read..Len(Arriving)
  BY <1>1, <1>2, <1>4, NetFacts
<1>. QED
  BY <1>6, <1>8, <1>9, <1>10, <1>11

\* Two texts that agree up to a place have the same parts up to there.
LEMMA SamePart ==
    ASSUME NEW S, NEW b \in Seq(S), NEW c \in Seq(S), Len(b) <= Len(c),
           \A j \in 1..Len(b) : c[j] = b[j],
           NEW i \in Nat, NEW n \in Nat, n <= Len(b)
    PROVE  SubSeq(c, i + 1, n) = SubSeq(b, i + 1, n)
<1>1. Len(b) \in Nat /\ Len(c) \in Nat
  BY LenProperties
<1>2. CASE i <= n
  <2>. DEFINE p == SubSeq(b, i + 1, n)
              q == SubSeq(c, i + 1, n)
  <2>1. /\ p \in Seq(S) /\ Len(p) = n - i
        /\ \A j \in 1..(n - i) : p[j] = b[i + j]
    <3>1. n \in i..Len(b)
      BY <1>1, <1>2
    <3>. QED
      BY <3>1, Part
  <2>2. /\ q \in Seq(S) /\ Len(q) = n - i
        /\ \A j \in 1..(n - i) : q[j] = c[i + j]
    <3>1. n \in i..Len(c)
      BY <1>1, <1>2
    <3>. QED
      BY <3>1, Part
  <2>3. \A j \in 1..(n - i) : c[i + j] = b[i + j]
    <3>1. \A j \in 1..(n - i) : i + j \in 1..Len(b)
      BY <1>1
    <3>. QED
      BY <3>1
  <2>. HIDE DEF p, q
  <2>4. \A j \in 1..Len(p) : q[j] = p[j]
    BY <2>1, <2>2, <2>3
  <2>5. q = p
    BY <2>1, <2>2, <2>4, SeqEqual
  <2>. QED
    BY <2>5 DEF p, q
<1>3. CASE ~(i <= n)
  BY <1>3, SubSeqEmpty
<1>. QED
  BY <1>2, <1>3

\* What a step of a scanner that neither starts nor ends the iteration shows.
LEMMA Proceeds ==
    ASSUME dec' = dec, dpc' # "done", outcome' = "none",
           Prefix', Held', ScanPlace'
    PROVE  ScanInv' /\ VerdictSound'
<1>1. IntactSettled'
  BY DEF IntactSettled, Settled
<1>2. VerdictSound'
  BY DEF VerdictSound
<1>. QED
  BY <1>1, <1>2 DEF ScanInv

\* A scanner that hands over nothing keeps the values it has handed over.
LEMMA SamePrefix ==
    ASSUME Prefix, yielded' = yielded, source' = source, count' = count
    PROVE  Prefix'
BY DEF Prefix

\* A read before the header is known.
LEMMA ReadHeaderStep ==
    ASSUME StreamInv, dec \in ScannerPorts, UNCHANGED <<encVars, netVars>>,
           Scan!ReadHeader
    PROVE  ScanInv' /\ VerdictSound' /\ read' \in read..Len(Arriving)
<1>1. /\ dpc = "header" /\ ~Scan!HeaderRead /\ Scan!Fill
      /\ dec' = dec /\ dpc' = dpc /\ pos' = pos /\ elemStart' = elemStart
      /\ depth' = depth /\ inString' = inString /\ escape' = escape
      /\ yielded' = yielded /\ outcome' = outcome
  BY DEF Scan!ReadHeader, Scan!lexVars
<1>2. /\ WireInv /\ NetInv /\ Prefix /\ Held /\ ScanPlace
  BY DEF StreamInv, ScanInv
<1>3. source' = source /\ count' = count /\ wire' = wire
  BY DEF encVars
<1>4. /\ Held' /\ Base' = Base /\ read' \in read..Len(Arriving)
      /\ Len(buf') \in Nat /\ Len(buf') <= Len(buf) + ChunkSize
  BY <1>1, <1>2, <1>3, FillStep
<1>5. Len(buf') < Len(Header) + ChunkSize
  <2>1. Len(buf) \in Nat
    BY <1>2, HeldFacts
  <2>2. Len(Header) = 3 /\ ChunkSize \in Nat
    BY HeaderSymbols, StreamAssumption
  <2>3. ~(Len(buf) >= Len(Header))
    <3>1. Scan!Header = Header
      BY SameTexts
    <3>. QED
      BY <1>1, <3>1 DEF Scan!HeaderRead
  <2>. QED
    BY <1>4, <2>1, <2>2, <2>3
<1>6. LexState' = LexState
  BY <1>1 DEF LexState
<1>7. ScanPlace'
  BY <1>1, <1>2, <1>4, <1>5, <1>6 DEF ScanPlace
<1>8. Prefix'
  BY <1>1, <1>2, <1>3, SamePrefix
<1>9. outcome' = "none" /\ dpc' # "done"
  BY <1>1, <1>2 DEF ScanPlace
<1>. QED
  BY <1>1, <1>4, <1>7, <1>8, <1>9, Proceeds

\* A read among the values.
LEMMA ReadItemsStep ==
    ASSUME StreamInv, dec \in ScannerPorts, UNCHANGED <<encVars, netVars>>,
           Scan!ReadItems
    PROVE  ScanInv' /\ VerdictSound' /\ read' \in read..Len(Arriving)
<1>1. /\ dpc = "scan" /\ pos = Len(buf) /\ Scan!Fill
      /\ dec' = dec /\ dpc' = dpc /\ pos' = pos /\ elemStart' = elemStart
      /\ depth' = depth /\ inString' = inString /\ escape' = escape
      /\ yielded' = yielded /\ outcome' = outcome
  BY DEF Scan!ReadItems, Scan!lexVars
<1>2. /\ WireInv /\ NetInv /\ Prefix /\ Held /\ ScanPlace /\ Located
  BY <1>1 DEF StreamInv, ScanInv, ScanPlace
<1>3. source' = source /\ count' = count /\ wire' = wire /\ frames' = frames
  BY DEF encVars
<1>4. /\ Held' /\ Base' = Base /\ read' \in read..Len(Arriving)
      /\ Len(buf') \in Nat /\ Len(buf') <= Len(buf) + ChunkSize
  BY <1>1, <1>2, <1>3, FillStep
<1>5. Len(buf') - pos' <= ChunkSize
  BY <1>1, <1>2, <1>4, HeldFacts, StreamAssumption
<1>6. LexState' = LexState /\ Here' = Here /\ Passed' = Passed
  BY <1>1 DEF LexState, Here, Passed
<1>7. SlotAt(Here, Base + elemStart)'
  BY <1>1, <1>2, <1>3, <1>4, <1>6 DEF Located, SlotAt
<1>8. Located'
  BY <1>1, <1>2, <1>3, <1>5, <1>6, <1>7 DEF Located
<1>9. ScanPlace'
  BY <1>1, <1>2, <1>8 DEF ScanPlace
<1>10. Prefix'
  BY <1>1, <1>2, <1>3, SamePrefix
<1>11. outcome' = "none" /\ dpc' # "done"
  BY <1>1, <1>2 DEF ScanPlace
<1>. QED
  BY <1>1, <1>4, <1>9, <1>10, <1>11, Proceeds

\* A read behind them.
LEMMA ReadTrailerStep ==
    ASSUME StreamInv, dec \in ScannerPorts, UNCHANGED <<encVars, netVars>>,
           Scan!ReadTrailer
    PROVE  ScanInv' /\ VerdictSound' /\ read' \in read..Len(Arriving)
<1>1. /\ dpc = "trailer" /\ Scan!Fill
      /\ dec' = dec /\ dpc' = dpc /\ pos' = pos /\ elemStart' = elemStart
      /\ depth' = depth /\ inString' = inString /\ escape' = escape
      /\ yielded' = yielded /\ outcome' = outcome
  BY DEF Scan!ReadTrailer, Scan!lexVars
<1>2. /\ WireInv /\ NetInv /\ Prefix /\ Held /\ ScanPlace /\ Closed
  BY <1>1 DEF StreamInv, ScanInv, ScanPlace
<1>3. source' = source /\ count' = count /\ wire' = wire /\ frames' = frames
  BY DEF encVars
<1>4. /\ Held' /\ Base' = Base /\ read' \in read..Len(Arriving)
      /\ Len(buf') \in Nat /\ Len(buf) < Len(buf')
      /\ \A j \in 1..Len(buf) : buf'[j] = buf[j]
  BY <1>1, <1>2, <1>3, FillStep
<1>5. LastText' = LastText
  <2>1. buf \in Seq(Symbol) /\ buf' \in Seq(Symbol) /\ Len(buf) <= Len(buf')
    BY <1>2, <1>4, HeldFacts DEF Held
  <2>2. elemStart \in Nat /\ pos - 1 \in Nat /\ pos - 1 <= Len(buf)
    <3>1. pos > elemStart
      BY <1>2 DEF Closed
    <3>. QED
      BY <1>2, <3>1, HeldFacts
  <2>3. SubSeq(buf', elemStart + 1, pos - 1) = SubSeq(buf, elemStart + 1, pos - 1)
    BY <1>4, <2>1, <2>2, SamePart
  <2>. QED
    BY <1>1, <2>3 DEF LastText
<1>6. StatusAt(Base + pos - 1)'
  BY <1>1, <1>2, <1>3, <1>4 DEF Closed, StatusAt
<1>7. Closed'
  BY <1>1, <1>2, <1>3, <1>5, <1>6 DEF Closed, TextLengths
<1>8. ScanPlace'
  BY <1>1, <1>2, <1>7 DEF ScanPlace
<1>9. Prefix'
  BY <1>1, <1>2, <1>3, SamePrefix
<1>10. outcome' = "none" /\ dpc' # "done"
  BY <1>1, <1>2 DEF ScanPlace
<1>. QED
  BY <1>1, <1>4, <1>8, <1>9, <1>10, Proceeds

\* A symbol that does not end a value is a symbol of the value.
LEMMA LexStep ==
    ASSUME StreamInv, dec \in ScannerPorts, UNCHANGED <<encVars, netVars>>,
           dpc = "scan", pos < Len(buf), ~EndsValue(LexState, buf[pos + 1]),
           UNCHANGED <<dec, dpc, read, buf, elemStart, yielded, outcome>>,
           pos' = pos + 1, inString' \in BOOLEAN, escape' \in BOOLEAN,
           LexState' = Lex(LexState, buf[pos + 1])
    PROVE  ScanInv' /\ VerdictSound'
<1>1. /\ WireInv /\ NetInv /\ Prefix /\ Held /\ ScanPlace /\ Located
  BY DEF StreamInv, ScanInv, ScanPlace
<1>2. ASSUME LexState = Fresh, buf[pos + 1] \in {",", "]"}
      PROVE  FALSE
  BY <1>2 DEF EndsValue, Fresh
<1>3. Inside(buf[pos + 1])
  <2>1. ~Behind(buf[pos + 1]) /\ ~Vacant(buf[pos + 1])
    BY <1>2 DEF Behind, Vacant
  <2>. QED
    BY <1>1, <2>1, AtChar
<1>4. /\ dec' = dec /\ read' = read /\ buf' = buf /\ elemStart' = elemStart
      /\ yielded' = yielded /\ outcome' = outcome /\ dpc' = dpc
      /\ source' = source /\ count' = count /\ wire' = wire /\ frames' = frames
  BY DEF encVars
<1>5. WireInv' /\ NetInv'
  <2>1. read' \in read..Len(Arriving)
    BY <1>1, <1>4, NetFacts
  <2>. QED
    BY <1>1, <1>4, <2>1, ReaderStep
<1>6. SlotAt(Here, Base + elemStart)'
  <2>1. Here' = Here /\ Base' = Base
    BY <1>4 DEF Here, Base
  <2>. QED
    BY <1>1, <1>4, <2>1 DEF Located, SlotAt
<1>7. Held' /\ Located'
  BY <1>1, <1>3, <1>4, <1>5, <1>6, InText
<1>8. ScanPlace'
  BY <1>1, <1>4, <1>7 DEF ScanPlace
<1>9. Prefix'
  BY <1>1, <1>4, SamePrefix
<1>10. outcome' = "none" /\ dpc' # "done"
  BY <1>1, <1>4 DEF ScanPlace
<1>. QED
  BY <1>4, <1>7, <1>8, <1>9, <1>10, Proceeds

\* A symbol of a string.
LEMMA StringCharStep ==
    ASSUME StreamInv, dec \in ScannerPorts, UNCHANGED <<encVars, netVars>>,
           Scan!StringChar \/ Scan!OpenString
    PROVE  ScanInv' /\ VerdictSound' /\ read' = read
<1>1. inString \in BOOLEAN /\ escape \in BOOLEAN
  BY DEF StreamInv, ScanInv, Held
<1>. DEFINE c == buf[pos + 1]
<1>2. /\ dpc = "scan" /\ pos < Len(buf) /\ pos' = pos + 1
      /\ UNCHANGED <<dec, dpc, read, buf, elemStart, yielded, outcome>>
  BY DEF Scan!StringChar, Scan!OpenString, Scan!Scanning, Scan!Advance
<1>3. CASE Scan!StringChar
  <2>1. /\ inString = TRUE /\ depth' = depth
        /\ escape' = (~escape /\ c = "backslash")
        /\ inString' = (escape \/ c # "quote")
    BY <1>1, <1>3 DEF Scan!StringChar, Scan!Char
  <2>. HIDE DEF c
  <2>2. LexState' = Lex(LexState, c)
    BY <2>1 DEF LexState, Lex
  <2>3. ~EndsValue(LexState, c)
    BY <2>1 DEF LexState, EndsValue
  <2>4. inString' \in BOOLEAN /\ escape' \in BOOLEAN
    BY <2>1
  <2>. QED
    BY <1>2, <2>2, <2>3, <2>4, LexStep DEF c
<1>4. CASE Scan!OpenString
  <2>1. /\ inString = FALSE /\ depth' = depth /\ escape' = escape
        /\ c = "quote" /\ inString' = TRUE
    BY <1>1, <1>4 DEF Scan!OpenString, Scan!Char
  <2>. HIDE DEF c
  <2>2. LexState' = Lex(LexState, c)
    BY <2>1 DEF LexState, Lex
  <2>3. ~EndsValue(LexState, c)
    BY <2>1 DEF LexState, EndsValue
  <2>4. inString' \in BOOLEAN /\ escape' \in BOOLEAN
    BY <1>1, <2>1
  <2>. QED
    BY <1>2, <2>2, <2>3, <2>4, LexStep DEF c
<1>. QED
  BY <1>2, <1>3, <1>4

\* A symbol of a value outside its strings.
LEMMA PlainCharStep ==
    ASSUME StreamInv, dec \in ScannerPorts, UNCHANGED <<encVars, netVars>>,
           \/ Scan!OpenNesting /\ ~Scan!TooDeep
           \/ Scan!CloseNesting \/ Scan!OtherChar
    PROVE  ScanInv' /\ VerdictSound' /\ read' = read
<1>1. inString \in BOOLEAN /\ escape \in BOOLEAN
  BY DEF StreamInv, ScanInv, Held
<1>. DEFINE c == buf[pos + 1]
<1>2. /\ dpc = "scan" /\ pos < Len(buf) /\ pos' = pos + 1
      /\ UNCHANGED <<dec, dpc, read, buf, elemStart, yielded, outcome>>
      /\ inString' = inString /\ escape' = escape
  BY DEF Scan!OpenNesting, Scan!CloseNesting, Scan!OtherChar, Scan!Scanning,
         Scan!Advance, Scan!lexVars
<1>3. inString = FALSE
  BY <1>1 DEF Scan!OpenNesting, Scan!CloseNesting, Scan!OtherChar
<1>4. \/ c \in {"{", "["} /\ depth' = depth + 1
      \/ c \in {"}", "]"} /\ ~(c = "]" /\ depth = 0) /\ depth' = depth - 1
      \/ /\ c \notin {"{", "}", "[", "]", "quote"} /\ ~(c = "," /\ depth = 0)
         /\ depth' = depth
  BY DEF Scan!OpenNesting, Scan!CloseNesting, Scan!OtherChar, Scan!Char,
         Scan!lexVars
<1>. HIDE DEF c
<1>5. ~EndsValue(LexState, c)
  BY <1>4 DEF EndsValue, LexState
<1>6. LexState' = Lex(LexState, c)
  <2>1. CASE c \in {"{", "["} /\ depth' = depth + 1
    BY <1>2, <1>3, <2>1 DEF LexState, Lex
  <2>2. CASE c \in {"}", "]"} /\ depth' = depth - 1
    BY <1>2, <1>3, <2>2 DEF LexState, Lex
  <2>3. CASE c \notin {"{", "}", "[", "]", "quote"} /\ depth' = depth
    BY <1>2, <1>3, <2>3 DEF LexState, Lex
  <2>. QED
    BY <1>4, <2>1, <2>2, <2>3
<1>7. inString' \in BOOLEAN /\ escape' \in BOOLEAN
  BY <1>1, <1>2
<1>. QED
  BY <1>2, <1>5, <1>6, <1>7, LexStep DEF c

\* All of a sequence that holds the first values of the source.
LEMMA AllSent ==
    ASSUME WireInv, Prefix, Len(yielded) = count
    PROVE  yielded = Sent /\ (count = Len(source) => yielded = source)
<1>1. /\ source \in Seq(Element) /\ Len(source) \in Nat /\ count \in Nat
      /\ count <= Len(source)
  BY WireFacts
<1>2. yielded \in Seq(Element) /\ \A i \in 1..count : yielded[i] = source[i]
  BY DEF Prefix
<1>3. yielded = Sent
  <2>1. count \in 0..Len(source)
    BY <1>1
  <2>2. Sent = SubSeq(source, 1, count)
    BY DEF Sent
  <2>. HIDE DEF Sent
  <2>3. Sent \in Seq(Element) /\ Len(Sent) = count
        /\ \A j \in 1..count : Sent[j] = source[j]
    BY <1>1, <2>1, <2>2, FirstPart
  <2>. QED
    BY <1>2, <2>3, SeqEqual
<1>4. count = Len(source) => yielded = source
  BY <1>1, <1>2, SeqEqual
<1>. QED
  BY <1>3, <1>4

\* What a step that ends the iteration must show of its verdict.
TrueVerdict ==
    IF HasStatus("ok") THEN "clean"
    ELSE IF HasStatus("error") THEN "streamError" ELSE "truncated"

\* A verdict ends the scan and changes nothing else.
LEMMA StopStep ==
    ASSUME StreamInv, dec \in ScannerPorts, UNCHANGED <<encVars, netVars>>,
           UNCHANGED <<dec, read, yielded>>,
           dpc' = "done", Held', Len(buf') <= Len(buf),
           outcome' # "none",
           outcome' = "clean" => HasStatus("ok") /\ Len(yielded) = count,
           outcome' = "streamError" => HasStatus("error") /\ Len(yielded) = count,
           fault = "none" /\ Readable' => Ended /\ outcome' = TrueVerdict
    PROVE  ScanInv' /\ VerdictSound'
<1>1. /\ WireInv /\ NetInv /\ Prefix /\ Held /\ ScanPlace
  BY DEF StreamInv, ScanInv
<1>2. /\ dec' = dec /\ read' = read /\ yielded' = yielded /\ fault' = fault
      /\ source' = source /\ count' = count /\ wire' = wire /\ frames' = frames
      /\ epc' = epc
  BY DEF encVars, netVars
<1>3. Prefix'
  BY <1>1, <1>2, SamePrefix
<1>5. ScanPlace'
  BY DEF ScanPlace
<1>6. IntactSettled'
  <2>1. Ended' = Ended /\ \A kind : HasStatus(kind)' <=> HasStatus(kind)
    BY <1>2 DEF Ended, HasStatus
  <2>. QED
    BY <1>2, <2>1 DEF IntactSettled, TrueVerdict
<1>7. BufferBounded'
  <2>1. BufferBounded
    BY <1>1, BoundFacts DEF StreamInv
  <2>2. PICK n \in TextLengths :
          Len(buf) <= Len(Header) + n + ChunkSize
                        + (IF dpc = "scan" THEN 1 ELSE 1 + Len(ErrorTrailer))
    BY <2>1 DEF BufferBounded
  <2>3. n \in Nat
    <3>1. \A e \in Element : Len(Text[e]) \in Nat
      BY LexFacts
    <3>. QED
      BY <3>1 DEF TextLengths
  <2>4. Len(Header) = 3 /\ Len(ErrorTrailer) = 9 /\ ChunkSize \in Nat
    <3>1. Len(ErrorTrailer) = 9
      BY StatusSymbols, Zenon
    <3>. QED
      BY <3>1, HeaderSymbols, StreamAssumption
  <2>5. Len(buf) \in Nat
    BY <1>1, HeldFacts
  <2>6. Len(buf') <= Len(Header) + n + ChunkSize + (1 + Len(ErrorTrailer))
    <3>1. Len(buf') \in Nat /\ Len(buf') <= Len(buf)
      BY LenProperties DEF Held
    <3>. QED
      BY <2>2, <2>3, <2>4, <2>5, <3>1
  <2>7. Len(buf') <= Len(Header) + n + ChunkSize
                        + (IF dpc' = "scan" THEN 1 ELSE 1 + Len(ErrorTrailer))
    BY <1>2, <2>6
  <2>. QED
    BY <2>7 DEF BufferBounded, TextLengths
<1>8. VerdictSound'
  <2>1. Len(yielded) = count => yielded = Sent
        /\ (count = Len(source) => yielded = source)
    BY <1>1, AllSent
  <2>2. HasStatus("ok") => count = Len(source)
    BY <1>1 DEF WireInv, EncInv, StatusTruthful
  <2>3. Sent' = Sent /\ \A kind : HasStatus(kind)' <=> HasStatus(kind)
    BY <1>2 DEF Sent, HasStatus
  <2>. QED
    BY <1>2, <2>1, <2>2, <2>3 DEF VerdictSound
<1>. QED
  BY <1>2, <1>3, <1>5, <1>6, <1>7, <1>8 DEF ScanInv

\* The cursor moves on in a buffer that does not change.
LEMMA SameHeld ==
    ASSUME WireInv, NetInv, Held, wire' = wire, read' = read, buf' = buf,
           elemStart' = elemStart, pos' \in pos..Len(buf),
           inString' = inString, escape' = escape
    PROVE  Held' /\ Base' = Base /\ Len(buf') <= Len(buf)
<1>1. /\ buf \in Seq(Symbol) /\ Len(buf) \in Nat /\ pos \in Nat
      /\ elemStart \in Nat /\ elemStart <= pos /\ Base \in Nat
      /\ \A j \in 1..Len(buf) : buf[j] = wire[Base + j]
  BY HeldFacts
<1>2. pos' \in 0..Len(buf) /\ elemStart \in 0..pos' /\ Len(buf) <= Len(buf)
  BY <1>1
<1>3. Base' = Base
  BY DEF Base
<1>4. inString' \in BOOLEAN /\ escape' \in BOOLEAN
  BY DEF Held
<1>. QED
  BY <1>1, <1>2, <1>3, <1>4 DEF Held

\* A value the decoder's guard or its parser refuses excuses the verdict.
LEMMA RefusalExcused ==
    ASSUME WireInv, Prefix, Here <= count,
           \/ source[Here] \notin Parsable(dec)
           \/ dec = "rust" /\ NestsPast(Text[source[Here]], MaxDepth),
           source' = source, dec' = dec
    PROVE  ~Readable'
<1>1. Here \in 1..Len(source)
  <2>1. Len(yielded) \in Nat /\ Here = Len(yielded) + 1
    BY LenProperties DEF Prefix, Here
  <2>2. count \in Nat /\ Len(source) \in Nat /\ count <= Len(source)
    BY WireFacts
  <2>. QED
    BY <2>1, <2>2
<1>. QED
  BY <1>1 DEF Readable

\* Rust: a value nested past the limit is refused.
LEMMA TooDeepStep ==
    ASSUME StreamInv, dec \in ScannerPorts, UNCHANGED <<encVars, netVars>>,
           Scan!OpenNesting, Scan!TooDeep
    PROVE  ScanInv' /\ VerdictSound' /\ read' = read
<1>1. /\ dpc = "scan" /\ dpc' = "done" /\ outcome' = "malformed"
      /\ dec' = dec /\ read' = read /\ buf' = buf /\ pos' = pos
      /\ elemStart' = elemStart /\ yielded' = yielded
      /\ inString' = inString /\ escape' = escape
  BY DEF Scan!OpenNesting, Scan!TooDeep, Scan!Stop, Scan!Scanning
<1>6. /\ dec = "rust" /\ Past(MaxDepth, depth + 1) /\ ~inString /\ pos < Len(buf)
      /\ buf[pos + 1] \in {"{", "["}
  BY DEF Scan!OpenNesting, Scan!TooDeep, Scan!Past, Past, Scan!Scanning, Scan!Char
<1>2. ~Readable'
  <2>1. WireInv /\ NetInv /\ Prefix /\ Held /\ Located
    BY <1>1 DEF StreamInv, ScanInv, ScanPlace
  <2>2. Inside(buf[pos + 1])
    <3>1. ~Behind(buf[pos + 1]) /\ ~Vacant(buf[pos + 1])
      BY <1>6 DEF Behind, Vacant
    <3>. QED
      BY <1>6, <2>1, <3>1, AtChar
  <2>. DEFINE e == source[Here]
              c == Text[e][Passed + 1]
  <2>3. /\ Here <= count /\ Passed < Len(Text[e]) /\ Passed \in Nat
        /\ c = buf[pos + 1] /\ e \in Element
    BY <2>1, <2>2, HeldFacts, HereFacts DEF Inside
  <2>4. LexState = Lexed(Text[e])[Passed]
    <3>1. Lexed(Text[e])[0] = Fresh
      BY <2>3, LexFacts
    <3>. QED
      BY <2>1, <3>1 DEF Located
  <2>. HIDE DEF e
  <2>5. Len(Text[e]) \in Nat /\ Passed + 1 \in 1..Len(Text[e]) /\ (Passed + 1) - 1 = Passed
    BY <2>3, LexFacts
  <2>6. Lexed(Text[e])[Passed + 1] = Lex(LexState, c)
    BY <2>3, <2>4, <2>5, LexFacts
  <2>7. Lex(LexState, c).depth = depth + 1
    BY <1>6, <2>3 DEF Lex, LexState
  <2>8. NestsPast(Text[e], MaxDepth)
    <3>1. Passed + 1 \in 0..Len(Text[e])
      BY <2>5
    <3>. QED
      BY <1>6, <2>6, <2>7, <3>1 DEF NestsPast
  <2>. QED
    BY <1>1, <1>6, <2>1, <2>3, <2>8, RefusalExcused DEF e, encVars
<1>3. WireInv /\ NetInv /\ Held /\ wire' = wire
  BY DEF StreamInv, ScanInv, encVars
<1>4. pos' \in pos..Len(buf)
  BY <1>1, <1>3, HeldFacts
<1>5. Held' /\ Len(buf') <= Len(buf)
  BY <1>1, <1>3, <1>4, SameHeld
<1>. QED
  BY <1>1, <1>2, <1>5, StopStep

\* How a text ends.
LEMMA EndsWith ==
    ASSUME NEW s, NEW n \in Nat \ {0}, Len(s) = n, s[n] # "lead"
    PROVE  Len(s) > 0 /\ s[Len(s)] # "lead"
<1>1. Len(s) > 0
  OBVIOUS
<1>2. s[Len(s)] # "lead"
  BY Zenon
<1>. QED
  BY <1>1, <1>2

\* No trailer ends within a character.
LEMMA StatusEnds ==
    /\ Len(Status(TRUE)) > 0 /\ Status(TRUE)[Len(Status(TRUE))] # "lead"
    /\ Len(Status(FALSE)) > 0 /\ Status(FALSE)[Len(Status(FALSE))] # "lead"
<1>1. OkTrailer[4] = "}" /\ ErrorTrailer[9] = "}"
  BY DEF OkTrailer, ErrorTrailer
<1>. DEFINE ok == Status(TRUE)
            er == Status(FALSE)
<1>2. Len(ok) = 5 /\ \A j \in 1..4 : ok[1 + j] = OkTrailer[j]
  BY StatusSymbols, Zenon
<1>3. Len(er) = 10 /\ \A j \in 1..9 : er[1 + j] = ErrorTrailer[j]
  BY StatusSymbols, Zenon
<1>. HIDE DEF ok, er
<1>4. /\ 4 \in 1..4 /\ 9 \in 1..9 /\ 1 + 4 = 5 /\ 1 + 9 = 10
      /\ 5 \in Nat \ {0} /\ 10 \in Nat \ {0} /\ "}" # "lead"
  OBVIOUS
<1>5. ok[1 + 4] = "}" /\ er[1 + 9] = "}"
  BY <1>1, <1>2, <1>3, <1>4, Zenon
<1>6. ok[5] # "lead" /\ er[10] # "lead"
  BY <1>4, <1>5, Zenon
<1>7. /\ Len(ok) > 0 /\ ok[Len(ok)] # "lead"
      /\ Len(er) > 0 /\ er[Len(er)] # "lead"
  BY <1>2, <1>3, <1>4, <1>6, EndsWith, Zenon
<1>. QED
  BY <1>7 DEF ok, er

\* The last symbol of the wire ends a text.
LEMMA WholeSymbols ==
    ASSUME WireInv, Len(wire) > 0
    PROVE  wire[Len(wire)] # "lead"
<1>. DEFINE n == Len(frames)
            f == frames[n]
            X == FrameText(f)
<1>1. frames # <<>> /\ n \in 1..Len(frames)
  <2>1. frames # <<>>
    BY HeaderText
  <2>. QED
    BY <2>1, WireFacts, EmptySeq
<1>2. /\ X \in Seq(Symbol) /\ f.start \in Nat /\ End(f) = Len(wire)
      /\ \A j \in 1..Len(X) : wire[f.start + j] = X[j]
      /\ f.kind \in FrameKind
  BY <1>1, WireFacts DEF LaidOut
<1>3. Len(X) \in Nat /\ Len(wire) = f.start + Len(X)
  BY <1>2, LenProperties DEF End
<1>4. Len(X) > 0 /\ X[Len(X)] # "lead"
  <2>1. CASE f.kind = "header"
    <3>1. X = Header
      BY <2>1 DEF FrameText
    <3>2. Len(Header) > 0 /\ Header[Len(Header)] # "lead"
      <4>1. 3 \in Nat \ {0} /\ "[" # "lead"
        OBVIOUS
      <4>. QED
        BY <4>1, HeaderSymbols, EndsWith, Zenon
    <3>. QED
      BY <3>1, <3>2, Zenon
  <2>2. CASE f.kind = "comma"
    <3>1. X = <<",">>
      BY <2>2 DEF FrameText
    <3>2. Len(<<",">>) > 0 /\ <<",">>[Len(<<",">>)] # "lead"
      <4>1. 1 \in Nat \ {0} /\ Len(<<",">>) = 1 /\ <<",">>[1] # "lead"
        OBVIOUS
      <4>. QED
        BY <4>1, EndsWith, Zenon
    <3>. QED
      BY <3>1, <3>2, Zenon
  <2>3. CASE f.kind = "element"
    <3>1. X = Text[source[f.item]]
      BY <2>3 DEF FrameText
    <3>2. source[f.item] \in Element
      <4>1. f.item \in 1..count
        BY <1>1, <2>3, WireFacts DEF Placed
      <4>2. f.item \in 1..Len(source)
        BY <4>1, WireFacts
      <4>. QED
        BY <4>2, WireFacts, ElementOfSeq
    <3>3. Len(Text[source[f.item]]) \in Nat \ {0}
          /\ Text[source[f.item]][Len(Text[source[f.item]])] # "lead"
      BY <3>2, LexFacts
    <3>. QED
      BY <3>1, <3>3
  <2>4. CASE f.kind = "ok"
    <3>1. X = Status(TRUE)
      BY <2>4 DEF FrameText
    <3>. QED
      BY <3>1, StatusEnds, Zenon
  <2>5. CASE f.kind = "error"
    <3>1. X = Status(FALSE)
      BY <2>5 DEF FrameText
    <3>. QED
      BY <3>1, StatusEnds, Zenon
  <2>. QED
    BY <1>2, <2>1, <2>2, <2>3, <2>4, <2>5 DEF FrameKind
<1>. HIDE DEF X, f, n
<1>5. Len(X) \in 1..Len(X) /\ f.start + Len(X) = Len(wire)
  BY <1>3, <1>4
<1>. QED
  BY <1>2, <1>4, <1>5

\* What the end of the stream becomes.
LEMMA EndOutcomes ==
    ASSUME NEW v PROVE Scan!EndOutcome(v) \in {v, "ioError", "malformed"}
BY DEF Scan!EndOutcome

\* A stream that arrived whole does not end within a character either.
LEMMA IntactEnd ==
    ASSUME WireInv, NetInv, fault = "none", read = Len(wire), Ended, NEW v
    PROVE  Scan!EndOutcome(v) = v
<1>1. Conn = "closed"
  BY DEF Conn
<1>2. Arriving = wire
  BY DEF Arriving
<1>3. ~Scan!SplitChar
  <2>1. read \in Nat
    BY NetFacts
  <2>. QED
    BY <1>2, <2>1, WholeSymbols DEF Scan!SplitChar
<1>. QED
  BY <1>1, <1>3 DEF Scan!EndOutcome

\* At the end of an intact connection everything has been read.
LEMMA IntactAtEnd ==
    ASSUME WireInv, NetInv, fault = "none", Scan!AtEnd
    PROVE  Ended /\ read = Len(wire)
BY NetFacts DEF Scan!AtEnd, Conn

\* The stream ends before the header is whole.
LEMMA HeaderCutStep ==
    ASSUME StreamInv, dec \in ScannerPorts, UNCHANGED <<encVars, netVars>>,
           Scan!HeaderCut
    PROVE  ScanInv' /\ VerdictSound' /\ read' = read
<1>1. /\ dpc = "header" /\ ~Scan!HeaderRead /\ Scan!AtEnd
      /\ dpc' = "done" /\ outcome' = Scan!EndOutcome("truncated")
      /\ dec' = dec /\ read' = read /\ buf' = buf /\ pos' = pos
      /\ elemStart' = elemStart /\ yielded' = yielded
      /\ inString' = inString /\ escape' = escape
  BY DEF Scan!HeaderCut, Scan!Stop, Scan!lexVars
<1>2. WireInv /\ NetInv /\ Held /\ ScanPlace /\ wire' = wire
  BY DEF StreamInv, ScanInv, encVars
<1>3. outcome' \in {"truncated", "ioError", "malformed"}
  BY <1>1, EndOutcomes
<1>4. ASSUME fault = "none"
      PROVE  Ended /\ outcome' = TrueVerdict
  <2>1. Ended /\ read = Len(wire)
    BY <1>1, <1>2, <1>4, IntactAtEnd
  <2>2. outcome' = "truncated"
    BY <1>1, <1>2, <1>4, <2>1, IntactEnd
  <2>3. Len(wire) < 3
    <3>1. Base = 0
      BY <1>1, <1>2 DEF ScanPlace
    <3>2. ~(Len(buf) >= Len(Header))
      <4>1. Scan!Header = Header
        BY SameTexts
      <4>. QED
        BY <1>1, <4>1 DEF Scan!HeaderRead
    <3>3. Len(buf) \in Nat /\ Base + Len(buf) = read /\ Len(wire) \in Nat
      BY <1>2, HeldFacts
    <3>4. Len(Header) = 3
      BY HeaderSymbols
    <3>. QED
      BY <2>1, <3>1, <3>2, <3>3, <3>4
  <2>4. ~HasStatus("ok") /\ ~HasStatus("error")
    <3>. SUFFICES ASSUME NEW kind \in {"ok", "error"}, HasStatus(kind)
                  PROVE  FALSE
      OBVIOUS
    <3>1. DOMAIN frames # {}
      BY DEF HasStatus
    <3>2. frames # <<>>
      BY <3>1
    <3>3. 1 \in 1..Len(frames)
      BY <1>2, <3>2, WireFacts, EmptySeq
    <3>4. frames[1].kind = "header" /\ frames[1].start = 0
          /\ End(frames[1]) <= Len(wire)
      BY <1>2, <3>2, <3>3, WireFacts DEF EncInv, ElementsInOrder, LaidOut
    <3>5. FrameText(frames[1]) = Header
      BY <3>4 DEF FrameText
    <3>6. Len(FrameText(frames[1])) = 3
      BY <3>5, HeaderSymbols, Zenon
    <3>7. End(frames[1]) = 3
      BY <3>4, <3>6 DEF End
    <3>. QED
      BY <1>2, <2>3, <3>4, <3>7, WireFacts
  <2>. QED
    BY <2>1, <2>2, <2>4 DEF TrueVerdict
<1>5. Held' /\ Len(buf') <= Len(buf)
  <2>1. pos' \in pos..Len(buf)
    BY <1>1, <1>2, HeldFacts
  <2>. QED
    BY <1>1, <1>2, <2>1, SameHeld
<1>. QED
  BY <1>1, <1>3, <1>4, <1>5, StopStep

\* A scanner that stands at the end of a whole wire, inside the array, has no
\* status behind it.
LEMMA CutShort ==
    ASSUME WireInv, NetInv, Prefix, Held, Located,
           pos = Len(buf), read = Len(wire)
    PROVE  ~HasStatus("ok") /\ ~HasStatus("error")
<1>. SUFFICES ASSUME NEW kind \in {"ok", "error"}, HasStatus(kind)
              PROVE  FALSE
  OBVIOUS
<1>. DEFINE n == Len(frames)
            s == Base + elemStart
            m == Here
            p == frames[n].start
<1>1. PICK i \in 1..n : frames[i].kind \in {"ok", "error"}
  BY WireFacts DEF HasStatus
<1>2. n \in 1..n /\ frames # <<>> /\ frames[n].kind \in {"ok", "error"}
  <2>1. i = n
    BY <1>1, WireFacts DEF EncInv, StatusLast
  <2>2. frames # <<>>
    BY <1>1, EmptySeq
  <2>. QED
    BY <1>1, <2>1, <2>2
<1>3. StatusAt(p)
  BY <1>2 DEF StatusAt
<1>4. p \in Nat /\ p < Len(wire)
  <2>. DEFINE l == Len(Terminal)
  <2>. HIDE DEF p, l
  <2>1. p \in Nat /\ Len(wire) = p + l /\ l \in {5, 10}
    BY <1>3, StatusText, Zenon DEF l
  <2>2. p < p + l
    BY <2>1
  <2>. QED
    BY <2>1, <2>2
<1>5. \A j \in 1..n : j # n => End(frames[j]) <= p
  <2>. SUFFICES ASSUME NEW j \in 1..n, j # n
                PROVE  End(frames[j]) <= p
    OBVIOUS
  <2>3. n \in Nat
    BY WireFacts
  <2>. HIDE DEF n
  <2>1. j < n /\ n \in 1..n
    BY <1>2, <2>3
  <2>2. LaidOut(wire, frames)
    BY WireFacts
  <2>. QED
    BY <2>1, <2>2 DEF LaidOut, n, p
<1>6. s + Passed = Len(wire) /\ s \in Nat /\ Passed \in Nat /\ SlotAt(m, s)
  BY HeldFacts DEF Located
<1>. HIDE DEF s, p, n
<1>7. CASE m <= count
  <2>1. m \in 1..count /\ Passed <= Len(Text[source[m]])
    BY <1>7, HereFacts
  <2>2. /\ 2 * m \in 1..n /\ End(frames[2 * m]) = s + Len(Text[source[m]])
        /\ Len(Text[source[m]]) \in Nat
    BY <1>6, <2>1, SlotText DEF n
  <2>3. 2 * m # n
    <3>1. frames[2 * m].kind = "element"
      BY <2>1, WireFacts DEF EncInv, ElementsInOrder
    <3>. QED
      BY <1>2, <3>1
  <2>4. End(frames[2 * m]) <= p
    BY <1>5, <2>2, <2>3
  <2>. DEFINE l == Len(Text[source[m]])
              e == End(frames[2 * m])
  <2>5. e = s + l /\ l \in Nat /\ Passed <= l /\ e <= p
    BY <2>1, <2>2, <2>4
  <2>. HIDE DEF l, e
  <2>. QED
    BY <1>4, <1>6, <2>5
<1>8. CASE m = count + 1
  <2>1. Passed = 0
    <3>1. m \in Nat /\ count \in Nat /\ m > count
      BY <1>8, HereFacts
    <3>. QED
      BY <3>1, HereFacts
  <2>2. s = Len(wire)
    BY <1>6, <2>1
  <2>3. CASE m = 1
    <3>1. s = 3
      BY <1>6, <2>3, HeaderSymbols DEF SlotAt
    <3>2. Len(wire) > 0
      BY <2>2, <3>1
    <3>3. frames[1].kind = "header" /\ End(frames[1]) = 3
      BY <3>2, HeaderText
    <3>4. 1 \in 1..n /\ 1 # n
      BY <1>2, <3>3, WireFacts DEF n
    <3>5. End(frames[1]) <= p
      BY <1>5, <3>4
    <3>. QED
      BY <1>4, <2>2, <3>1, <3>3, <3>5
  <2>4. CASE m # 1
    <3>. DEFINE j == 2 * m - 1
    <3>1. j \in 1..n /\ frames[j].kind = "comma" /\ s = frames[j].start + 1
      BY <1>6, <2>4, WireFacts DEF SlotAt, n
    <3>. HIDE DEF j
    <3>2. FrameText(frames[j]) = <<",">> /\ Len(<<",">>) = 1
      BY <3>1 DEF FrameText
    <3>3. End(frames[j]) = s
      BY <3>1, <3>2 DEF End
    <3>4. j # n
      BY <1>2, <3>1
    <3>5. End(frames[j]) <= p
      BY <1>5, <3>1, <3>4
    <3>. QED
      BY <1>4, <2>2, <3>3, <3>5
  <2>. QED
    BY <2>3, <2>4
<1>. QED
  <2>1. m <= count \/ m = count + 1
    BY HereFacts
  <2>. QED
    BY <1>7, <1>8, <2>1

\* The stream ends among the values.
LEMMA ItemsCutStep ==
    ASSUME StreamInv, dec \in ScannerPorts, UNCHANGED <<encVars, netVars>>,
           Scan!ItemsCut
    PROVE  ScanInv' /\ VerdictSound' /\ read' = read
<1>1. /\ dpc = "scan" /\ pos = Len(buf) /\ Scan!AtEnd
      /\ dpc' = "done" /\ outcome' = Scan!EndOutcome("truncated")
      /\ dec' = dec /\ read' = read /\ buf' = buf /\ pos' = pos
      /\ elemStart' = elemStart /\ yielded' = yielded
      /\ inString' = inString /\ escape' = escape
  BY DEF Scan!ItemsCut, Scan!Stop, Scan!lexVars
<1>2. WireInv /\ NetInv /\ Prefix /\ Held /\ Located /\ wire' = wire
  BY <1>1 DEF StreamInv, ScanInv, ScanPlace, encVars
<1>3. outcome' \in {"truncated", "ioError", "malformed"}
  BY <1>1, EndOutcomes
<1>4. ASSUME fault = "none"
      PROVE  Ended /\ outcome' = TrueVerdict
  <2>1. Ended /\ read = Len(wire)
    BY <1>1, <1>2, <1>4, IntactAtEnd
  <2>2. outcome' = "truncated"
    BY <1>1, <1>2, <1>4, <2>1, IntactEnd
  <2>3. ~HasStatus("ok") /\ ~HasStatus("error")
    BY <1>1, <1>2, <2>1, CutShort
  <2>. QED
    BY <2>1, <2>2, <2>3 DEF TrueVerdict
<1>5. Held' /\ Len(buf') <= Len(buf)
  <2>1. pos' \in pos..Len(buf)
    BY <1>1, <1>2, HeldFacts
  <2>. QED
    BY <1>1, <1>2, <2>1, SameHeld
<1>. QED
  BY <1>1, <1>3, <1>4, <1>5, StopStep

\* The header is compared with the one expected.
LEMMA CheckHeaderStep ==
    ASSUME StreamInv, dec \in ScannerPorts, UNCHANGED <<encVars, netVars>>,
           Scan!CheckHeader
    PROVE  ScanInv' /\ VerdictSound' /\ read' = read
<1>1. /\ WireInv /\ NetInv /\ Prefix /\ Held /\ ScanPlace /\ Scan!Header = Header
      /\ wire' = wire /\ frames' = frames /\ source' = source /\ count' = count
  BY SameTexts DEF StreamInv, ScanInv, encVars
<1>2. dpc = "header" /\ Len(buf) >= Len(Header)
      /\ dec' = dec /\ read' = read /\ yielded' = yielded
      /\ depth' = depth /\ inString' = inString /\ escape' = escape
  BY <1>1 DEF Scan!CheckHeader, Scan!HeaderRead, Scan!lexVars
<1>3. /\ Base = 0 /\ LexState = Fresh /\ yielded = <<>>
      /\ Len(buf) < Len(Header) + ChunkSize
  BY <1>1, <1>2 DEF ScanPlace
<1>4. /\ Len(buf) \in Nat /\ Len(Header) = 3 /\ Len(buf) >= 3
      /\ buf \in Seq(Symbol) /\ read \in Nat /\ Len(buf) <= read
      /\ Len(buf) <= Len(wire) /\ Len(wire) \in Nat
      /\ \A j \in 1..Len(buf) : buf[j] = wire[(read - Len(buf)) + j]
  <2>1. /\ Len(buf) \in Nat /\ buf \in Seq(Symbol) /\ read \in Nat
        /\ Base + Len(buf) = read /\ read <= Len(Arriving)
        /\ Len(Arriving) <= Len(wire) /\ Len(wire) \in Nat
        /\ Len(Arriving) \in Nat
        /\ \A j \in 1..Len(buf) : buf[j] = wire[Base + j]
    BY <1>1, HeldFacts
  <2>2. Len(Header) = 3
    BY HeaderSymbols
  <2>3. Len(buf) <= read /\ Len(buf) <= Len(wire)
    BY <1>3, <2>1
  <2>. QED
    BY <1>2, <2>1, <2>2, <2>3 DEF Base
<1>5. SubSeq(buf, 1, Len(Header)) = Header
  <2>. DEFINE p == SubSeq(buf, 1, Len(Header))
  <2>1. p \in Seq(Symbol) /\ Len(p) = 3 /\ \A j \in 1..3 : p[j] = buf[j]
    <3>1. 3 \in 0..Len(buf)
      BY <1>4
    <3>2. p = SubSeq(buf, 1, 3)
      BY <1>4
    <3>. HIDE DEF p
    <3>. QED
      BY <1>4, <3>1, <3>2, FirstPart
  <2>2. \A j \in 1..3 : wire[j] = Header[j]
    <3>1. Len(wire) > 0
      BY <1>4
    <3>. QED
      BY <1>1, <3>1, HeaderText
  <2>3. \A j \in 1..3 : buf[j] = wire[j]
    <3>1. \A j \in 1..3 : j \in 1..Len(buf) /\ (read - Len(buf)) + j = j
      BY <1>3, <1>4 DEF Base
    <3>. QED
      BY <1>4, <3>1
  <2>. HIDE DEF p
  <2>4. \A j \in 1..Len(p) : p[j] = Header[j]
    BY <2>1, <2>2, <2>3
  <2>5. Header \in Seq(Symbol)
    BY TextsAreWires
  <2>6. p = Header
    BY <1>4, <2>1, <2>4, <2>5, SeqEqual
  <2>. QED
    BY <2>6 DEF p
<1>6. PICK kept \in {0, 3} :
          /\ pos' = kept /\ elemStart' = kept
          /\ buf' = SubSeq(buf, Len(Header) - kept + 1, Len(buf))
          /\ dpc' = "scan" /\ outcome' = "none"
  <2>. DEFINE kept == IF Scan!Scanner[dec].keepsHeader THEN Len(Header) ELSE 0
  <2>1. kept \in {0, 3}
    BY <1>4
  <2>2. /\ pos' = kept /\ elemStart' = kept
        /\ buf' = SubSeq(buf, Len(Header) - kept + 1, Len(buf))
        /\ dpc' = "scan" /\ outcome' = "none"
    BY <1>1, <1>5 DEF Scan!CheckHeader
  <2>. HIDE DEF kept
  <2>. QED
    BY <2>1, <2>2
<1>7. PICK d \in {0, 3} : d = 3 - kept /\ buf' = SubSeq(buf, d + 1, Len(buf))
  <2>1. 3 - kept \in {0, 3}
    BY <1>6
  <2>2. buf' = SubSeq(buf, (3 - kept) + 1, Len(buf))
    BY <1>4, <1>6
  <2>. QED
    BY <2>1, <2>2
<1>8. Held' /\ Base' = d /\ Len(buf') = Len(buf) - d /\ Len(buf') \in Nat
  <2>1. d \in 0..Len(buf)
    BY <1>4
  <2>2. pos' \in 0..(Len(buf) - d) /\ elemStart' \in 0..pos'
    BY <1>4, <1>6, <1>7, SMTT(30)
  <2>3. inString' \in BOOLEAN /\ escape' \in BOOLEAN
    BY <1>1, <1>2 DEF Held
  <2>4. Held' /\ Base' = Base + d /\ Len(buf') = Len(buf) - d /\ Len(buf') \in Nat
    BY <1>1, <1>2, <1>7, <2>1, <2>2, <2>3, DropText
  <2>. QED
    BY <1>3, <2>1, <2>4
<1>11. Located'
  <2>1. Base' + elemStart' = 3 /\ elemStart' <= 3
    BY <1>6, <1>7, <1>8
  <2>2. Here' = 1 /\ Passed' = 0 /\ LexState' = Fresh
    <3>1. Len(yielded') = 0
      BY <1>2, <1>3
    <3>2. pos' - elemStart' = 0
      BY <1>6
    <3>. QED
      BY <1>2, <1>3, <3>1, <3>2 DEF Here, Passed, LexState
  <2>3. frames # <<>>
    <3>1. Len(wire) > 0
      BY <1>4
    <3>. QED
      BY <1>1, <3>1, HeaderText
  <2>4. SlotAt(Here, Base + elemStart)'
    BY <1>1, <1>4, <2>1, <2>2, <2>3 DEF SlotAt
  <2>5. Len(buf') - pos' <= ChunkSize
    <3>. DEFINE l == Len(buf)
                m == Len(buf')
    <3>1. /\ ChunkSize \in Nat /\ l \in Nat /\ l < 3 + ChunkSize
          /\ m = l - d /\ d = 3 - kept /\ pos' = kept /\ kept \in {0, 3}
      BY <1>3, <1>4, <1>6, <1>7, <1>8, StreamAssumption
    <3>. HIDE DEF l, m
    <3>2. m - pos' = l - 3
      BY <3>1
    <3>3. m - pos' <= ChunkSize
      BY <3>1, <3>2
    <3>. QED
      BY <3>3 DEF m
  <2>6. elemStart' <= Len(Header)
    BY <1>4, <2>1
  <2>7. ~(Passed' > 0)
    BY <2>2
  <2>. QED
    BY <2>2, <2>4, <2>5, <2>6, <2>7 DEF Located
<1>12. Prefix'
  BY <1>1, <1>2, SamePrefix
<1>13. ScanPlace'
  BY <1>6, <1>11 DEF ScanPlace
<1>. QED
  BY <1>2, <1>6, <1>8, <1>12, <1>13, Proceeds

\* One more value handed over, the next of the source.
LEMMA PrefixGrows ==
    ASSUME WireInv, Prefix, Here <= count, source[Here] \in Element,
           yielded' = Append(yielded, source[Here]),
           source' = source, count' = count
    PROVE  Prefix' /\ Len(yielded') = Len(yielded) + 1
<1>. DEFINE e == source[Here]
            l == Len(yielded)
<1>1. yielded \in Seq(Element) /\ l \in Nat /\ l + 1 <= count
      /\ \A i \in 1..l : yielded[i] = source[i]
  BY LenProperties DEF Prefix, Here
<1>2. e = source[l + 1] /\ yielded' = Append(yielded, e) /\ e \in Element
  BY DEF Here
<1>. HIDE DEF e, l
<1>3. /\ yielded' \in Seq(Element) /\ Len(yielded') = l + 1
      /\ \A i \in 1..l : yielded'[i] = yielded[i]
      /\ yielded'[l + 1] = e
  BY <1>1, <1>2, AppendProperties DEF l
<1>4. \A i \in 1..(l + 1) : yielded'[i] = source'[i]
  <2>1. ASSUME NEW i \in 1..(l + 1) PROVE yielded'[i] = source[i]
    <3>1. i \in 1..l \/ i = l + 1
      BY <1>1
    <3>. QED
      BY <1>1, <1>2, <1>3, <3>1
  <2>. QED
    BY <2>1
<1>5. Len(yielded') <= count'
  BY <1>1, <1>3
<1>. QED
  BY <1>3, <1>4, <1>5 DEF Prefix, l

\* A comma ends a value.
LEMMA SeparatorStep ==
    ASSUME StreamInv, dec \in ScannerPorts, UNCHANGED <<encVars, netVars>>,
           Scan!Separator
    PROVE  ScanInv' /\ VerdictSound' /\ read' = read
<1>1. /\ dpc = "scan" /\ pos < Len(buf)
      /\ pos' = 0 /\ elemStart' = 0
      /\ dec' = dec /\ read' = read
  BY DEF Scan!Separator, Scan!Scanning
<1>0. buf[pos + 1] = "," /\ ~inString /\ depth = 0
  BY DEF Scan!Separator, Scan!Char
<1>12. buf' = SubSeq(buf, pos + 2, Len(buf))
  BY DEF Scan!Separator
<1>11. depth' = depth /\ inString' = inString /\ escape' = escape
  BY DEF Scan!Separator, Scan!lexVars
<1>2. /\ WireInv /\ NetInv /\ Prefix /\ Held /\ Located
      /\ source' = source /\ count' = count /\ wire' = wire
      /\ frames' = frames /\ fault' = fault
  BY <1>1 DEF StreamInv, ScanInv, ScanPlace, encVars, netVars
<1>3. EndsValue(LexState, buf[pos + 1])
  BY <1>0 DEF EndsValue, LexState
<1>4. /\ Here <= count /\ Passed = Len(Text[source[Here]])
      /\ LexState = Fresh /\ SlotAt(Here + 1, Base + pos + 1)
  <2>1. Inside(buf[pos + 1]) \/ Behind(buf[pos + 1]) \/ Vacant(buf[pos + 1])
    BY <1>1, <1>2, AtChar
  <2>2. ~Inside(buf[pos + 1])
    BY <1>3 DEF Inside
  <2>3. ~Vacant(buf[pos + 1])
    BY <1>0 DEF Vacant
  <2>. QED
    BY <1>0, <2>1, <2>2, <2>3 DEF Behind
<1>. DEFINE e == source[Here]
            segment == SubSeq(buf, elemStart + 1, pos)
<1>5. segment = Text[e] /\ e \in Element /\ Text[e] # <<>>
  <2>1. segment = Text[e]
    BY <1>2, <1>4, SegmentText
  <2>2. e \in Element
    BY <1>2, <1>4, HereFacts
  <2>3. Text[e] # <<>>
    BY <2>2, LexFacts, EmptySeq
  <2>. QED
    BY <2>1, <2>2, <2>3
<1>6. /\ pos \in Nat /\ Len(buf) \in Nat /\ pos + 1 \in 0..Len(buf)
      /\ (pos + 1) + 1 = pos + 2
  BY <1>1, <1>2, HeldFacts, SMTT(30)
<1>7. /\ Held' /\ Base' = Base + (pos + 1)
      /\ Len(buf') = Len(buf) - (pos + 1) /\ Len(buf') \in Nat
  <2>1. buf' = SubSeq(buf, (pos + 1) + 1, Len(buf))
    BY <1>6, <1>12
  <2>2. inString' \in BOOLEAN /\ escape' \in BOOLEAN
    BY <1>2, <1>11 DEF Held
  <2>3. pos' \in 0..(Len(buf) - (pos + 1)) /\ elemStart' \in 0..pos'
    BY <1>1, <1>6
  <2>. QED
    BY <1>1, <1>2, <1>6, <1>11, <2>1, <2>2, <2>3, DropText
<1>8. IF IsValue(dec, segment)
        THEN yielded' = Append(yielded, ValueOf(segment))
             /\ dpc' = dpc /\ outcome' = outcome
        ELSE yielded' = yielded /\ (segment # <<>> =>
                dpc' = "done" /\ outcome' = "malformed")
  BY SameTexts DEF Scan!Separator, Scan!Segment, Scan!Stop
<1>. HIDE DEF e, segment
<1>9. CASE e \in Parsable(dec)
  <2>1. /\ yielded' = Append(yielded, e)
        /\ dpc' = dpc /\ outcome' = outcome
    BY <1>5, <1>8, <1>9, Parses
  <2>2. Prefix' /\ Len(yielded') = Len(yielded) + 1
    BY <1>2, <1>4, <1>5, <2>1, PrefixGrows DEF e
  <2>3. Located'
    <3>1. Here' = Here + 1 /\ Passed' = 0 /\ LexState' = Fresh
      <4>1. Here' = Here + 1
        BY <1>2, <2>2, HereFacts DEF Here
      <4>2. Passed' = 0
        BY <1>1 DEF Passed
      <4>3. LexState' = LexState
        BY <1>11 DEF LexState
      <4>. QED
        BY <1>4, <4>1, <4>2, <4>3
    <3>2. Base' + elemStart' = Base + pos + 1
      BY <1>1, <1>2, <1>6, <1>7, HeldFacts
    <3>3. SlotAt(Here, Base + elemStart)'
      BY <1>2, <1>4, <3>1, <3>2 DEF SlotAt
    <3>4. elemStart' <= Len(Header)
      <4>1. Len(Header) = 3
        BY HeaderSymbols
      <4>. QED
        BY <1>1, <4>1
    <3>5. Len(buf') - pos' <= ChunkSize
      <4>1. Len(buf) - pos <= ChunkSize /\ ChunkSize \in Nat
        BY <1>2, StreamAssumption DEF Located
      <4>2. Len(buf') = Len(buf) - (pos + 1) /\ pos' = 0
        BY <1>1, <1>7
      <4>. QED
        BY <1>6, <4>1, <4>2
    <3>. QED
      BY <3>1, <3>3, <3>4, <3>5 DEF Located
  <2>4. dpc' = "scan" /\ outcome' = "none"
    BY <1>1, <2>1 DEF StreamInv, ScanInv, ScanPlace
  <2>5. ScanPlace'
    BY <2>3, <2>4 DEF ScanPlace
  <2>. QED
    BY <1>1, <1>7, <2>2, <2>4, <2>5, Proceeds
<1>10. CASE e \notin Parsable(dec)
  <2>1. /\ yielded' = yielded /\ dpc' = "done" /\ outcome' = "malformed"
    BY <1>5, <1>8, <1>10, Parses
  <2>2. ~Readable'
    BY <1>1, <1>2, <1>4, <1>10, RefusalExcused DEF e
  <2>3. Len(buf') <= Len(buf)
    BY <1>6, <1>7
  <2>. QED
    BY <1>1, <1>7, <2>1, <2>2, <2>3, StopStep
<1>. QED
  BY <1>9, <1>10

\* Only the Rust iterator holds the last value back.
LEMMA WhoDrains ==
    ASSUME dec \in ScannerPorts
    PROVE  Scan!Scanner[dec].drains <=> dec = "rust"
BY DEF ScannerPorts, Scan!Scanner, Scan!PythonScanner, Scan!NodeScanner,
       Scan!DotnetScanner, Scan!RustScanner

\* The bracket ends the array, and the last value before it.
LEMMA CloseArrayStep ==
    ASSUME StreamInv, dec \in ScannerPorts, UNCHANGED <<encVars, netVars>>,
           Scan!CloseArray
    PROVE  ScanInv' /\ VerdictSound' /\ read' = read
<1>0. buf[pos + 1] = "]" /\ ~inString /\ depth = 0
  BY DEF Scan!CloseArray, Scan!Char
<1>1. /\ dpc = "scan" /\ pos < Len(buf) /\ pos' = pos + 1
      /\ dec' = dec /\ read' = read /\ buf' = buf /\ elemStart' = elemStart
  BY DEF Scan!CloseArray, Scan!Scanning, Scan!Advance
<1>2. depth' = depth /\ inString' = inString /\ escape' = escape
  BY DEF Scan!CloseArray, Scan!lexVars
<1>3. /\ WireInv /\ NetInv /\ Prefix /\ Held /\ Located
      /\ source' = source /\ count' = count /\ wire' = wire
      /\ frames' = frames /\ fault' = fault /\ outcome = "none"
  BY <1>1 DEF StreamInv, ScanInv, ScanPlace, encVars, netVars
<1>. DEFINE segment == SubSeq(buf, elemStart + 1, pos)
            e == source[Here]
<1>4. IF segment = <<>> \/ (IsValue(dec, segment) /\ dec = "rust")
        THEN dpc' = "trailer" /\ yielded' = yielded /\ outcome' = outcome
        ELSE IF IsValue(dec, segment)
               THEN /\ dpc' = "trailer" /\ outcome' = outcome
                    /\ yielded' = Append(yielded, ValueOf(segment))
               ELSE dpc' = "done" /\ outcome' = "malformed" /\ yielded' = yielded
  BY SameTexts, WhoDrains DEF Scan!CloseArray, Scan!Segment, Scan!Stop
<1>5. /\ pos \in Nat /\ Len(buf) \in Nat /\ pos + 1 \in pos..Len(buf)
      /\ elemStart \in Nat /\ elemStart <= pos /\ Base \in Nat
      /\ Passed = pos - elemStart /\ Passed \in Nat
  BY <1>1, <1>3, HeldFacts, SMTT(30) DEF Passed
<1>6. Held' /\ Base' = Base /\ Len(buf') <= Len(buf)
  BY <1>1, <1>2, <1>3, <1>5, SameHeld
<1>7. /\ LexState = Fresh /\ StatusAt(Base + pos)
      /\ \/ Here = count /\ Passed = Len(Text[e])
         \/ Here = count + 1 /\ Passed = 0
  <2>1. Inside(buf[pos + 1]) \/ Behind(buf[pos + 1]) \/ Vacant(buf[pos + 1])
    BY <1>1, <1>3, AtChar
  <2>2. ~Inside(buf[pos + 1])
    BY <1>0 DEF Inside, EndsValue, LexState
  <2>. QED
    BY <1>0, <2>1, <2>2 DEF Behind, Vacant
<1>8. LastText' = segment
  <2>1. pos' - 1 = pos
    BY <1>1, <1>5
  <2>. QED
    BY <1>1, <2>1 DEF LastText
<1>9. count \in Nat /\ Len(yielded) \in Nat /\ Here = Len(yielded) + 1
  BY <1>3, HereFacts DEF Here
<1>10. segment \in Seq(Symbol) /\ Len(segment) = Passed
       /\ (Here = count /\ Passed = Len(Text[e]) =>
              segment = Text[e] /\ e \in Element /\ Text[e] # <<>>)
  <2>1. /\ segment \in Seq(Symbol) /\ Len(segment) = Passed
        /\ Here <= count /\ Passed = Len(Text[source[Here]]) =>
              segment = Text[source[Here]]
    BY <1>3, SegmentText
  <2>2. Here = count => Here <= count
    BY <1>9
  <2>3. Here <= count => e \in Element
    BY <1>3, HereFacts
  <2>4. e \in Element => Text[e] # <<>>
    BY LexFacts, EmptySeq
  <2>. QED
    BY <2>1, <2>2, <2>3, <2>4
<1>. HIDE DEF segment
<1>11. /\ pos' > elemStart' /\ StatusAt(Base + pos - 1)'
       /\ elemStart' <= Len(Header)
       /\ \E n \in TextLengths' : pos' = elemStart' + n + 1
  <2>1. pos' > elemStart' /\ Base' + pos' - 1 = Base + pos
    BY <1>1, <1>5, <1>6
  <2>2. StatusAt(Base + pos - 1)'
    BY <1>3, <1>7, <2>1 DEF StatusAt
  <2>3. Passed \in TextLengths /\ TextLengths' = TextLengths
    <3>1. Here = count => e \in Element
      BY <1>3, <1>9, HereFacts
    <3>. HIDE DEF e
    <3>. QED
      BY <1>7, <3>1, <1>9 DEF TextLengths
  <2>4. pos' = elemStart' + Passed + 1
    BY <1>1, <1>5
  <2>5. elemStart' <= Len(Header)
    BY <1>1, <1>3 DEF Located
  <2>. QED
    BY <2>1, <2>2, <2>3, <2>4, <2>5
<1>12. ASSUME dpc' = "trailer", outcome' = outcome, Prefix',
              IF dec = "rust" /\ segment # <<>>
                THEN /\ Len(yielded') + 1 = count
                     /\ source[count] \in Parsable(dec)
                     /\ segment = Text[source[count]]
                ELSE Len(yielded') = count
       PROVE  ScanInv' /\ VerdictSound'
  <2>1. Closed'
    BY <1>1, <1>3, <1>8, <1>11, <1>12 DEF Closed
  <2>2. ScanPlace'
    BY <1>3, <1>12, <2>1 DEF ScanPlace
  <2>. QED
    BY <1>1, <1>3, <1>6, <1>12, <2>2, Proceeds
<1>13. CASE Here = count + 1 /\ Passed = 0
  <2>1. segment = <<>>
    BY <1>10, <1>13, EmptySeq
  <2>2. dpc' = "trailer" /\ yielded' = yielded /\ outcome' = outcome
    BY <1>4, <2>1
  <2>3. Prefix' /\ Len(yielded') = count
    BY <1>3, <1>9, <1>13, <2>2, SamePrefix
  <2>. QED
    BY <1>1, <1>12, <2>1, <2>2, <2>3
<1>14. CASE Here = count /\ Passed = Len(Text[e])
  <2>1. segment = Text[e] /\ e \in Element /\ segment # <<>> /\ Here <= count
    BY <1>9, <1>10, <1>14
  <2>2. source[count] = e
    BY <1>14
  <2>. HIDE DEF e
  <2>3. CASE e \notin Parsable(dec)
    <3>1. yielded' = yielded /\ dpc' = "done" /\ outcome' = "malformed"
      BY <1>4, <2>1, <2>3, Parses
    <3>2. ~Readable'
      BY <1>1, <1>3, <2>1, <2>3, RefusalExcused DEF e
    <3>. QED
      BY <1>1, <1>6, <3>1, <3>2, StopStep
  <2>4. CASE e \in Parsable(dec) /\ dec = "rust"
    <3>1. dpc' = "trailer" /\ yielded' = yielded /\ outcome' = outcome
      BY <1>4, <2>1, <2>4, Parses
    <3>2. Prefix' /\ Len(yielded') + 1 = count
      BY <1>3, <1>9, <1>14, <3>1, SamePrefix
    <3>. QED
      BY <1>1, <1>12, <2>1, <2>2, <2>4, <3>1, <3>2
  <2>5. CASE e \in Parsable(dec) /\ dec # "rust"
    <3>1. /\ dpc' = "trailer" /\ outcome' = outcome
          /\ yielded' = Append(yielded, e)
      BY <1>4, <2>1, <2>5, Parses
    <3>2. Prefix' /\ Len(yielded') = Len(yielded) + 1
      BY <1>3, <2>1, <3>1, PrefixGrows DEF e
    <3>. QED
      BY <1>1, <1>9, <1>12, <1>14, <2>5, <3>1, <3>2
  <2>. QED
    BY <2>3, <2>4, <2>5
<1>. QED
  BY <1>7, <1>13, <1>14

\* What a scanner makes of as much of a trailer as it has.
LEMMA VerdictOnPart ==
    ASSUME NEW T \in Seq(Symbol), NEW t \in Seq(Symbol), Len(t) <= Len(T),
           \A j \in 1..Len(t) : t[j] = T[j]
    PROVE  /\ TrailerVerdict(t) # "none"
           /\ T = OkTrailer => TrailerVerdict(t) # "streamError"
           /\ T = ErrorTrailer => TrailerVerdict(t) # "clean"
           /\ Len(t) = Len(T) /\ T = OkTrailer => TrailerVerdict(t) = "clean"
           /\ Len(t) = Len(T) /\ T = ErrorTrailer =>
                 TrailerVerdict(t) = "streamError"
<1>1. Len(OkTrailer) = 4 /\ Len(ErrorTrailer) = 9
  BY StatusSymbols, Zenon
<1>2. OkTrailer[3] = "true" /\ ErrorTrailer[3] = "false"
  BY DEF OkTrailer, ErrorTrailer
<1>3. /\ t = <<>> => Len(t) = 0
      /\ Len(t) \in Nat /\ Len(T) \in Nat
  BY LenProperties, EmptySeq
<1>4. Len(t) = Len(T) => t = T
  BY <1>3, SeqEqual
<1>5. TrailerVerdict(t) = IF t = <<>> THEN "truncated"
                          ELSE IF t = OkTrailer THEN "clean"
                          ELSE IF t = ErrorTrailer THEN "streamError"
                          ELSE "malformed"
  <2>. DEFINE o == OkTrailer
              r == ErrorTrailer
  <2>0. Len(o) = 4 /\ Len(r) = 9
    BY <1>1, Zenon
  <2>. HIDE DEF o, r
  <2>8. Len(o) # 0 /\ Len(r) # 0 /\ Len(o) # Len(r)
    BY <2>0
  <2>1. t = <<>> => t # o /\ t # r
    BY <1>3, <2>8, Zenon
  <2>2. o # r
    BY <2>8, Zenon
  <2>3. TrailerVerdict(t) = CASE t = <<>> -> "truncated" [] t = o -> "clean"
                              [] t = r -> "streamError" [] OTHER -> "malformed"
    BY Zenon DEF TrailerVerdict, o, r
  <2>4. CASE t = <<>>
    BY <2>1, <2>3, <2>4 DEF o, r
  <2>5. CASE t = o
    BY <2>1, <2>2, <2>3, <2>5 DEF o, r
  <2>6. CASE t = r
    BY <2>1, <2>2, <2>3, <2>6 DEF o, r
  <2>7. CASE t # <<>> /\ t # o /\ t # r
    BY <2>3, <2>7 DEF o, r
  <2>. QED
    BY <2>4, <2>5, <2>6, <2>7
<1>6. TrailerVerdict(t) # "none"
  BY <1>5
<1>7. ASSUME T = OkTrailer PROVE TrailerVerdict(t) # "streamError"
  <2>1. Len(t) <= 4
    BY <1>1, <1>3, <1>7
  <2>2. t # ErrorTrailer
    <3>. DEFINE r == ErrorTrailer
    <3>1. Len(r) = 9
      BY <1>1, Zenon
    <3>. HIDE DEF r
    <3>. DEFINE a == Len(t)
    <3>4. a \in Nat /\ a <= 4
      BY <1>3, <2>1
    <3>. HIDE DEF a
    <3>5. a # 9
      BY <3>4
    <3>2. Len(t) # Len(r)
      BY <3>1, <3>5, Zenon DEF a
    <3>3. t # r
      BY <3>2, Zenon
    <3>. QED
      BY <3>3 DEF r
  <2>. QED
    BY <1>5, <2>2, Zenon
<1>8. ASSUME T = ErrorTrailer PROVE TrailerVerdict(t) # "clean"
  <2>1. t # OkTrailer
    <3>. SUFFICES ASSUME t = OkTrailer PROVE FALSE
      OBVIOUS
    <3>0. Len(t) = 4
      BY <1>1, Zenon
    <3>1. 3 \in 1..Len(t)
      BY <3>0
    <3>2. t[3] = T[3]
      BY <3>1
    <3>3. t[3] = "true" /\ T[3] = "false"
      BY <1>2, <1>8, Zenon
    <3>. QED
      BY <3>2, <3>3
  <2>. QED
    BY <1>5, <2>1
<1>9. ASSUME Len(t) = Len(T), T = OkTrailer PROVE TrailerVerdict(t) = "clean"
  <2>1. t = OkTrailer /\ t # <<>>
    BY <1>1, <1>3, <1>4, <1>9
  <2>. QED
    BY <1>5, <2>1, Zenon
<1>10. ASSUME Len(t) = Len(T), T = ErrorTrailer
       PROVE  TrailerVerdict(t) = "streamError"
  <2>1. t = ErrorTrailer
    BY <1>4, <1>10, Zenon
  <2>2. TrailerVerdict(t) # "clean" /\ Len(t) = 9
    BY <1>1, <1>8, <1>10, <2>1, Zenon
  <2>3. t # <<>>
    BY <1>3, <2>2
  <2>. QED
    BY <1>5, <2>1, <2>2, <2>3, Zenon
<1>. QED
  BY <1>6, <1>7, <1>8, <1>9, <1>10

\* The text behind the "]" of the terminal status is the start of its trailer,
\* and all of it once the whole wire has been read.
LEMMA TrailerText ==
    ASSUME WireInv, NEW p, StatusAt(p)
    PROVE  \E T \in {OkTrailer, ErrorTrailer} :
              /\ p \in Nat /\ T \in Seq(Symbol) /\ Len(T) \in Nat
              /\ Len(wire) = p + 1 + Len(T)
              /\ \A j \in 1..Len(T) : wire[p + 1 + j] = T[j]
              /\ T = OkTrailer => HasStatus("ok")
              /\ T = ErrorTrailer => HasStatus("error") /\ ~HasStatus("ok")
<1>. DEFINE n == Len(frames)
            k == frames[n].kind
            X == Terminal
<1>1. k \in {"ok", "error"} /\ HasStatus(k)
  BY StatusText DEF StatusAt
<1>2. /\ p \in Nat /\ Len(wire) = p + Len(X)
      /\ \A j \in 1..Len(X) : wire[p + j] = X[j]
  BY StatusText, Zenon
<1>3. k = "ok" => X = Status(TRUE)
  BY Zenon DEF Terminal
<1>4. k = "error" => X = Status(FALSE)
  BY DEF Terminal
<1>5. k = "error" => ~HasStatus("ok")
  <2>1. ASSUME NEW i \in DOMAIN frames, frames[i].kind \in {"ok", "error"}
        PROVE  i = n
    BY <2>1, WireFacts DEF EncInv, StatusLast
  <2>. QED
    BY <2>1 DEF HasStatus
<1>. HIDE DEF X, k
<1>6. ASSUME NEW T \in Seq(Symbol), NEW l \in Nat, Len(T) = l, Len(X) = l + 1,
             \A j \in 1..l : X[1 + j] = T[j]
      PROVE  /\ Len(wire) = p + 1 + Len(T)
             /\ \A j \in 1..Len(T) : wire[p + 1 + j] = T[j]
  <2>1. Len(wire) = p + 1 + l
    BY <1>2, <1>6
  <2>2. ASSUME NEW j \in 1..l PROVE wire[p + 1 + j] = T[j]
    <3>1. 1 + j \in 1..Len(X) /\ p + (1 + j) = p + 1 + j
      BY <1>2, <1>6
    <3>2. wire[p + (1 + j)] = X[1 + j]
      BY <1>2, <3>1
    <3>. QED
      BY <1>6, <3>1, <3>2
  <2>. QED
    BY <1>6, <2>1, <2>2
<1>7. CASE k = "ok"
  <2>. DEFINE T == OkTrailer
  <2>1. /\ Len(T) = 4 /\ Len(X) = 5
        /\ \A j \in 1..4 : X[1 + j] = T[j]
    BY <1>3, <1>7, StatusSymbols, Zenon
  <2>2. T \in Seq(Symbol)
    BY TextsAreWires, Zenon
  <2>3. T # ErrorTrailer
    <3>. DEFINE r == ErrorTrailer
    <3>1. Len(r) = 9
      BY StatusSymbols, Zenon
    <3>. HIDE DEF r, T
    <3>2. Len(r) # Len(T)
      BY <2>1, <3>1
    <3>3. T # r
      BY <3>2, Zenon
    <3>. QED
      BY <3>3 DEF r
  <2>4. T \in {OkTrailer, ErrorTrailer}
    BY Zenon
  <2>. HIDE DEF T
  <2>7. 4 \in Nat /\ Len(X) = 4 + 1
    BY <2>1
  <2>5. Len(wire) = p + 1 + Len(T)
        /\ \A j \in 1..Len(T) : wire[p + 1 + j] = T[j]
    BY <1>6, <2>1, <2>2, <2>7, Zenon
  <2>6. HasStatus("ok") /\ Len(T) \in Nat
    BY <1>1, <1>7, <2>1
  <2>. QED
    BY <1>2, <2>2, <2>3, <2>4, <2>5, <2>6, Zenon
<1>8. CASE k = "error"
  <2>. DEFINE T == ErrorTrailer
  <2>1. /\ Len(T) = 9 /\ Len(X) = 10
        /\ \A j \in 1..9 : X[1 + j] = T[j]
    BY <1>4, <1>8, StatusSymbols, Zenon
  <2>2. T \in Seq(Symbol)
    BY TextsAreWires, Zenon
  <2>3. T # OkTrailer
    <3>. DEFINE r == OkTrailer
    <3>1. Len(r) = 4
      BY StatusSymbols, Zenon
    <3>. HIDE DEF r, T
    <3>2. Len(r) # Len(T)
      BY <2>1, <3>1
    <3>3. T # r
      BY <3>2, Zenon
    <3>. QED
      BY <3>3 DEF r
  <2>4. T \in {OkTrailer, ErrorTrailer}
    BY Zenon
  <2>. HIDE DEF T
  <2>7. 9 \in Nat /\ Len(X) = 9 + 1
    BY <2>1
  <2>5. Len(wire) = p + 1 + Len(T)
        /\ \A j \in 1..Len(T) : wire[p + 1 + j] = T[j]
    BY <1>6, <2>1, <2>2, <2>7, Zenon
  <2>6. HasStatus("error") /\ ~HasStatus("ok") /\ Len(T) \in Nat
    BY <1>1, <1>5, <1>8, <2>1
  <2>. QED
    BY <1>2, <2>2, <2>3, <2>4, <2>5, <2>6, Zenon
<1>. QED
  BY <1>1, <1>7, <1>8

\* The verdict of a scanner that has passed the "]".
LEMMA VerdictFacts ==
    ASSUME WireInv, NetInv, Held, pos > elemStart, StatusAt(Base + pos - 1),
           NEW t, t = SubSeq(buf, pos + 1, Len(buf))
    PROVE  /\ TrailerVerdict(t) # "none"
           /\ TrailerVerdict(t) = "clean" => HasStatus("ok")
           /\ TrailerVerdict(t) = "streamError" => HasStatus("error")
           /\ read = Len(wire) => TrailerVerdict(t) = TrueVerdict
<1>. DEFINE p == Base + pos - 1
            l == Len(buf)
<1>1. /\ l \in Nat /\ pos \in Nat /\ pos > 0 /\ pos <= l /\ Base \in Nat
      /\ Base + l = read /\ read <= Len(wire) /\ Len(wire) \in Nat
      /\ buf \in Seq(Symbol) /\ read \in Nat
  BY HeldFacts, SMTT(30)
<1>2. /\ p \in Nat /\ p + 1 = Base + pos
      /\ \A j \in 1..l : buf[j] = wire[Base + j]
  BY <1>1, HeldFacts
<1>. HIDE DEF p, l
<1>3. PICK T \in {OkTrailer, ErrorTrailer} :
          /\ T \in Seq(Symbol) /\ Len(T) \in Nat
          /\ Len(wire) = p + 1 + Len(T)
          /\ \A j \in 1..Len(T) : wire[p + 1 + j] = T[j]
          /\ T = OkTrailer => HasStatus("ok")
          /\ T = ErrorTrailer => HasStatus("error") /\ ~HasStatus("ok")
  <2>1. StatusAt(p)
    BY DEF p
  <2>. QED
    BY <2>1, TrailerText, Zenon
<1>4. /\ t \in Seq(Symbol) /\ Len(t) = l - pos
      /\ \A j \in 1..(l - pos) : t[j] = buf[pos + j]
  <2>1. l \in pos..Len(buf) /\ t = SubSeq(buf, pos + 1, l)
    BY <1>1 DEF l
  <2>. QED
    BY <1>1, <2>1, Part, SMTT(30)
<1>5. Len(t) <= Len(T) /\ (read = Len(wire) => Len(t) = Len(T))
  <2>. DEFINE a == Len(t)
              b == Len(T)
              w == Len(wire)
  <2>1. a = l - pos /\ b \in Nat /\ w = p + 1 + b /\ w \in Nat
        /\ Base + l = read /\ read <= w
    BY <1>1, <1>3, <1>4
  <2>. HIDE DEF a, b, w
  <2>2. a <= b /\ (read = w => a = b)
    BY <1>1, <1>2, <2>1
  <2>. QED
    BY <2>2 DEF a, b, w
<1>6. ASSUME NEW j \in 1..Len(t) PROVE t[j] = T[j]
  <2>1. j \in 1..(l - pos) /\ j \in 1..Len(T)
    BY <1>1, <1>3, <1>4, <1>5
  <2>2. pos + j \in 1..l /\ Base + (pos + j) = p + 1 + j
    BY <1>1, <1>2, <2>1
  <2>3. t[j] = buf[pos + j]
    BY <1>4, <2>1
  <2>4. buf[pos + j] = wire[Base + (pos + j)]
    BY <1>2, <2>2
  <2>5. wire[p + 1 + j] = T[j]
    BY <1>3, <2>1
  <2>. QED
    BY <2>2, <2>3, <2>4, <2>5
<1>7. /\ TrailerVerdict(t) # "none"
      /\ T = OkTrailer => TrailerVerdict(t) # "streamError"
      /\ T = ErrorTrailer => TrailerVerdict(t) # "clean"
      /\ Len(t) = Len(T) /\ T = OkTrailer => TrailerVerdict(t) = "clean"
      /\ Len(t) = Len(T) /\ T = ErrorTrailer => TrailerVerdict(t) = "streamError"
  <2>1. T \in Seq(Symbol) /\ \A j \in 1..Len(t) : t[j] = T[j]
    BY <1>3, <1>6
  <2>. QED
    BY <1>4, <1>5, <2>1, VerdictOnPart
<1>8. T = OkTrailer \/ T = ErrorTrailer
  BY <1>3, Zenon
<1>. DEFINE o == OkTrailer
            r == ErrorTrailer
            v == TrailerVerdict(t)
<1>. HIDE DEF o, r, v
<1>9. CASE T = o
  <2>1. HasStatus("ok")
    BY <1>3, <1>9, Zenon DEF o
  <2>2. v # "none" /\ v # "streamError" /\ (Len(t) = Len(T) => v = "clean")
    BY <1>7, <1>9, Zenon DEF o, v
  <2>3. v # "none" /\ HasStatus("ok") /\ v # "streamError"
        /\ (read = Len(wire) => v = TrueVerdict)
    BY <1>5, <2>1, <2>2 DEF TrueVerdict
  <2>. QED
    BY <2>3, Zenon DEF v
<1>10. CASE T = r
  <2>1. HasStatus("error") /\ ~HasStatus("ok")
    BY <1>3, <1>10, Zenon DEF r
  <2>2. v # "none" /\ v # "clean" /\ (Len(t) = Len(T) => v = "streamError")
    BY <1>7, <1>10, Zenon DEF r, v
  <2>3. v # "none" /\ HasStatus("error") /\ v # "clean"
        /\ (read = Len(wire) => v = TrueVerdict)
    BY <1>5, <2>1, <2>2 DEF TrueVerdict
  <2>. QED
    BY <2>3, Zenon DEF v
<1>. QED
  BY <1>8, <1>9, <1>10, Zenon DEF o, r

\* Closed, after a step that leaves the text and the cursor where they are.
LEMMA StaysClosed ==
    ASSUME Closed, UNCHANGED <<encVars, netVars>>,
           dec' = dec, read' = read, buf' = buf, pos' = pos,
           elemStart' = elemStart, dpc' = "pending",
           Len(yielded') = count, fault = "none" => read = Len(wire)
    PROVE  Closed'
<1>1. wire' = wire /\ frames' = frames /\ count' = count /\ fault' = fault
  BY DEF encVars, netVars
<1>2. Base' = Base
  BY DEF Base
<1>3. StatusAt(Base + pos - 1)'
  BY <1>1, <1>2 DEF Closed, StatusAt
<1>4. \E n \in TextLengths' : pos' = elemStart' + n + 1
  BY DEF Closed, TextLengths
<1>5. pos' > elemStart' /\ elemStart' <= Len(Header)
  BY DEF Closed
<1>6. dpc' # "trailer"
  OBVIOUS
<1>. QED
  BY <1>1, <1>3, <1>4, <1>5, <1>6 DEF Closed

\* The verdict that ends the iteration, once the array has closed.
LEMMA VerdictStep ==
    ASSUME StreamInv, dec \in ScannerPorts, UNCHANGED <<encVars, netVars>>,
           UNCHANGED <<dec, read, buf, pos, elemStart, yielded>>,
           inString' = inString, escape' = escape,
           Closed, Len(yielded) = count,
           Scan!Stop(Scan!Verdict),
           fault = "none" => read = Len(wire)
    PROVE  ScanInv' /\ VerdictSound'
<1>. DEFINE t == SubSeq(buf, pos + 1, Len(buf))
            v == TrailerVerdict(t)
<1>1. /\ WireInv /\ NetInv /\ Prefix /\ Held /\ wire' = wire
      /\ pos > elemStart /\ StatusAt(Base + pos - 1)
  BY DEF StreamInv, ScanInv, encVars, Closed
<1>2. dpc' = "done" /\ outcome' = Scan!EndOutcome(v)
  <2>1. Scan!TrailerVerdict(t) = TrailerVerdict(t)
    BY SameTexts
  <2>. HIDE DEF v
  <2>. QED
    BY <2>1 DEF Scan!Stop, Scan!Verdict, v
<1>3. /\ v # "none"
      /\ v = "clean" => HasStatus("ok")
      /\ v = "streamError" => HasStatus("error")
      /\ read = Len(wire) => v = TrueVerdict
  BY <1>1, VerdictFacts
<1>. HIDE DEF v
<1>4. outcome' \in {v, "ioError", "malformed"}
  BY <1>2, EndOutcomes
<1>5. ASSUME fault = "none" PROVE Ended /\ outcome' = TrueVerdict
  <2>1. Ended
    <3>1. HasStatus(frames[Len(frames)].kind)
          /\ frames[Len(frames)].kind \in {"ok", "error"}
      BY <1>1, StatusText DEF StatusAt
    <3>2. EncInv
      BY <1>1, WireFacts
    <3>. QED
      BY <3>1, <3>2 DEF EncInv, StatusLast, HasStatus, Ended
  <2>2. Scan!EndOutcome(v) = v
    BY <1>1, <1>5, <2>1, IntactEnd
  <2>. QED
    BY <1>2, <1>3, <1>5, <2>1, <2>2
<1>6. Held' /\ Len(buf') <= Len(buf)
  <2>1. pos' \in pos..Len(buf)
    BY <1>1, HeldFacts
  <2>. QED
    BY <1>1, <2>1, SameHeld
<1>. QED
  BY <1>2, <1>3, <1>4, <1>5, <1>6, StopStep

\* Rust: the verdict that waited behind the last value.
LEMMA TakePendingStep ==
    ASSUME StreamInv, dec \in ScannerPorts, UNCHANGED <<encVars, netVars>>,
           Scan!TakePending
    PROVE  ScanInv' /\ VerdictSound' /\ read' = read
<1>1. /\ dpc = "pending" /\ Scan!Stop(Scan!Verdict)
      /\ UNCHANGED <<dec, read, buf, pos, elemStart, yielded>>
  BY DEF Scan!TakePending
<1>2. inString' = inString /\ escape' = escape
  BY DEF Scan!TakePending, Scan!lexVars
<1>3. Closed
  BY <1>1 DEF StreamInv, ScanInv, ScanPlace
<1>4. Len(yielded) = count /\ (fault = "none" => read = Len(wire))
  BY <1>1, <1>3 DEF Closed
<1>. QED
  BY <1>1, <1>2, <1>3, <1>4, VerdictStep

\* The trailer is whole or the stream has ended: the verdict.
LEMMA FinishTrailerStep ==
    ASSUME StreamInv, dec \in ScannerPorts, UNCHANGED <<encVars, netVars>>,
           Scan!FinishTrailer
    PROVE  ScanInv' /\ VerdictSound' /\ read' = read
<1>1. /\ dpc = "trailer" /\ Scan!AtEnd
      /\ UNCHANGED <<dec, read, buf, pos, elemStart>>
  BY DEF Scan!FinishTrailer
<1>2. inString' = inString /\ escape' = escape
  BY DEF Scan!FinishTrailer, Scan!lexVars
<1>3. /\ WireInv /\ NetInv /\ Prefix /\ Held /\ Closed /\ outcome = "none"
      /\ source' = source /\ count' = count /\ wire' = wire
  BY <1>1 DEF StreamInv, ScanInv, ScanPlace, encVars
<1>4. fault = "none" => read = Len(wire)
  BY <1>1, <1>3, IntactAtEnd
<1>5. IF dec = "rust" /\ LastText # <<>>
        THEN /\ yielded' = Append(yielded, ValueOf(LastText))
             /\ dpc' = "pending" /\ outcome' = outcome
        ELSE Scan!Stop(Scan!Verdict) /\ yielded' = yielded
  BY SameTexts, WhoDrains DEF Scan!FinishTrailer, Scan!Held, Scan!LastSlice, LastText
<1>6. CASE dec = "rust" /\ LastText # <<>>
  <2>1. /\ Len(yielded) + 1 = count
        /\ source[count] \in Parsable(dec) /\ LastText = Text[source[count]]
    BY <1>1, <1>3, <1>6 DEF Closed
  <2>2. Here = count /\ Here <= count /\ source[count] \in Element
    <3>1. /\ Len(yielded) \in Nat /\ count \in Nat /\ Len(source) \in Nat
          /\ count <= Len(source) /\ source \in Seq(Element)
      BY <1>3, WireFacts, LenProperties DEF Prefix
    <3>2. count \in 1..Len(source)
      BY <2>1, <3>1
    <3>. QED
      BY <2>1, <3>1, <3>2, ElementOfSeq DEF Here
  <2>3. ValueOf(LastText) = source[Here]
    BY <2>1, <2>2, Parses
  <2>4. dpc' = "pending" /\ outcome' = "none"
        /\ yielded' = Append(yielded, source[Here])
    BY <1>3, <1>5, <1>6, <2>3
  <2>5. Prefix' /\ Len(yielded') = count
    BY <1>3, <2>1, <2>2, <2>4, PrefixGrows
  <2>6. Closed'
    BY <1>1, <1>3, <1>4, <2>4, <2>5, StaysClosed
  <2>7. Held'
    <3>1. pos' \in pos..Len(buf)
      BY <1>1, <1>3, HeldFacts
    <3>. QED
      BY <1>1, <1>2, <1>3, <3>1, SameHeld
  <2>8. ScanPlace'
    BY <2>4, <2>6 DEF ScanPlace
  <2>. QED
    BY <1>1, <2>4, <2>5, <2>7, <2>8, Proceeds
<1>7. CASE ~(dec = "rust" /\ LastText # <<>>)
  <2>1. Len(yielded) = count
    BY <1>1, <1>3, <1>7 DEF Closed
  <2>. QED
    BY <1>1, <1>2, <1>3, <1>4, <1>5, <1>7, <2>1, VerdictStep
<1>. QED
  BY <1>6, <1>7

\* Every step of a scanner.
LEMMA ScanItemsStep ==
    ASSUME StreamInv, ScanItems
    PROVE  StreamInv'
<1>1. dec \in ScannerPorts /\ Scan!ScanStep /\ UNCHANGED <<encVars, netVars>>
  BY DEF ScanItems
<1>2. WireInv /\ NetInv
  BY DEF StreamInv
<1>3. read \in Nat /\ read <= Len(Arriving) /\ Len(Arriving) \in Nat
  BY <1>2, NetFacts
<1>4. ScanInv' /\ VerdictSound' /\ read' \in read..Len(Arriving)
  <2>0. read \in read..Len(Arriving)
    BY <1>3
  <2>1. CASE Scan!ReadHeader
    BY <1>1, <2>1, ReadHeaderStep
  <2>2. CASE Scan!HeaderCut
    BY <1>1, <2>0, <2>2, HeaderCutStep
  <2>3. CASE Scan!CheckHeader
    BY <1>1, <2>0, <2>3, CheckHeaderStep
  <2>4. CASE Scan!StringChar \/ Scan!OpenString
    BY <1>1, <2>0, <2>4, StringCharStep
  <2>5. CASE Scan!OpenNesting \/ Scan!CloseNesting \/ Scan!OtherChar
    BY <1>1, <2>0, <2>5, PlainCharStep, TooDeepStep
  <2>6. CASE Scan!Separator
    BY <1>1, <2>0, <2>6, SeparatorStep
  <2>7. CASE Scan!CloseArray
    BY <1>1, <2>0, <2>7, CloseArrayStep
  <2>8. CASE Scan!ReadItems
    BY <1>1, <2>8, ReadItemsStep
  <2>9. CASE Scan!ItemsCut
    BY <1>1, <2>0, <2>9, ItemsCutStep
  <2>10. CASE Scan!ReadTrailer
    BY <1>1, <2>10, ReadTrailerStep
  <2>11. CASE Scan!FinishTrailer
    BY <1>1, <2>0, <2>11, FinishTrailerStep
  <2>12. CASE Scan!TakePending
    BY <1>1, <2>0, <2>12, TakePendingStep
  <2>. QED
    BY <1>1, <2>1, <2>2, <2>3, <2>4, <2>5, <2>6, <2>7, <2>8, <2>9, <2>10,
       <2>11, <2>12 DEF Scan!ScanStep
<1>5. dec' = dec
  BY <1>1 DEF Scan!ScanStep, Scan!ReadHeader, Scan!HeaderCut, Scan!CheckHeader,
       Scan!StringChar, Scan!OpenString, Scan!OpenNesting, Scan!CloseNesting,
       Scan!OtherChar, Scan!Separator, Scan!CloseArray, Scan!ReadItems,
       Scan!ItemsCut, Scan!ReadTrailer, Scan!FinishTrailer, Scan!TakePending
<1>6. WireInv' /\ NetInv'
  BY <1>1, <1>2, <1>4, <1>5, ReaderStep
<1>7. TokenInv'
  BY <1>1, <1>5 DEF TokenInv
<1>. QED
  BY <1>4, <1>6, <1>7 DEF StreamInv

-----------------------------------------------------------------------------
(***************************************************************************)
(* The token readers.                                                      *)
(***************************************************************************)

\* The text the parser has not consumed.
LEMMA RestFacts ==
    ASSUME WireInv, NetInv
    PROVE  /\ Tokens!Rest \in Seq(Symbol) /\ Len(Tokens!Rest) \in Nat
           /\ read + Len(Tokens!Rest) = Len(Arriving)
           /\ Len(Arriving) \in Nat /\ Len(Arriving) <= Len(wire)
           /\ read \in Nat /\ Len(wire) \in Nat
           /\ \A j \in 1..Len(Tokens!Rest) : Tokens!Rest[j] = wire[read + j]
<1>. DEFINE a == Arriving
            r == Tokens!Rest
            n == Len(a)
<1>1. /\ a \in Seq(Symbol) /\ n \in Nat /\ n <= Len(wire)
      /\ \A i \in 1..n : a[i] = wire[i]
      /\ read \in Nat /\ read <= n /\ Len(wire) \in Nat
  BY NetFacts
<1>2. r = SubSeq(a, read + 1, n)
  BY DEF Tokens!Rest
<1>. HIDE DEF r, a
<1>3. n \in read..Len(a)
  BY <1>1
<1>4. /\ r \in Seq(Symbol) /\ Len(r) = n - read /\ n - read \in Nat
      /\ \A j \in 1..(n - read) : r[j] = a[read + j]
  <2>. HIDE DEF n
  <2>. QED
    BY <1>1, <1>2, <1>3, Part
<1>5. ASSUME NEW j \in 1..Len(r) PROVE r[j] = wire[read + j]
  <2>1. j \in 1..(n - read) /\ read + j \in 1..n
    BY <1>1, <1>4
  <2>. QED
    BY <1>1, <1>4, <2>1
<1>6. read + Len(r) = n
  BY <1>1, <1>4
<1>. QED
  BY <1>1, <1>4, <1>5, <1>6 DEF r, a

\* The text behind the comma that must follow a value.
LEMMA ValueFacts ==
    ASSUME WireInv, NetInv,
           NEW s, s = read + Tokens!Skipped,
           NEW v, v = Tokens!Value
    PROVE  /\ s \in Nat /\ v \in Seq(Symbol) /\ Len(v) \in Nat
           /\ s + Len(v) = Len(Arriving)
           /\ \A j \in 1..Len(v) : v[j] = wire[s + j]
           /\ Tokens!AfterComma => s = read + 1
           /\ ~Tokens!AfterComma => s = read
<1>. DEFINE r == Tokens!Rest
            l == Len(r)
<1>1. /\ r \in Seq(Symbol) /\ l \in Nat /\ read \in Nat
      /\ read + l = Len(Arriving)
      /\ \A j \in 1..l : r[j] = wire[read + j]
  BY RestFacts
<1>2. s = read + (l - Len(v))
  BY DEF Tokens!Skipped
<1>3. CASE Tokens!AfterComma
  <2>1. r # <<>> /\ v = Tail(r)
    BY <1>3 DEF Tokens!AfterComma, Tokens!Value
  <2>. HIDE DEF r
  <2>2. /\ v \in Seq(Symbol) /\ Len(v) = l - 1
        /\ \A j \in 1..Len(v) : v[j] = r[j + 1]
    BY <1>1, <2>1, HeadTailProperties
  <2>3. l # 0
    BY <1>1, <2>1, EmptySeq
  <2>4. s = read + 1 /\ s \in Nat /\ Len(v) \in Nat /\ s + Len(v) = read + l
    BY <1>1, <1>2, <2>2, <2>3
  <2>5. ASSUME NEW j \in 1..Len(v) PROVE v[j] = wire[s + j]
    <3>. DEFINE n == Len(v)
    <3>1. /\ n \in Nat /\ n = l - 1 /\ l \in Nat /\ s = read + 1
          /\ j \in 1..n /\ read \in Nat
      BY <1>1, <2>2, <2>4
    <3>. HIDE DEF n, l
    <3>2. j + 1 \in 1..l /\ read + (j + 1) = s + j
      BY <3>1
    <3>3. v[j] = r[j + 1]
      BY <2>2
    <3>4. r[j + 1] = wire[read + (j + 1)]
      BY <1>1, <3>2
    <3>. QED
      BY <3>2, <3>3, <3>4
  <2>. QED
    BY <1>1, <1>3, <2>2, <2>4, <2>5
<1>4. CASE ~Tokens!AfterComma
  <2>1. v = r
    BY <1>4 DEF Tokens!Value
  <2>2. s = read
    BY <1>1, <1>2, <2>1
  <2>. QED
    BY <1>1, <1>4, <2>1, <2>2
<1>. QED
  BY <1>3, <1>4

\* The slot of a value that has been written.
LEMMA SlotOf ==
    ASSUME WireInv, NEW m \in 1..count
    PROVE  \E s : SlotAt(m, s)
<1>1. 2 * m \in DOMAIN frames /\ m \in Nat /\ count \in Nat /\ m > 0 /\ m <= count
  BY WireFacts DEF EncInv, ElementsInOrder
<1>2. CASE m = 1
  <2>1. frames # <<>>
    BY <1>1, EmptySeq, WireFacts
  <2>2. SlotAt(m, Len(Header))
    BY <1>2, <2>1 DEF SlotAt
  <2>. QED
    BY <2>2
<1>3. CASE m # 1
  <2>. DEFINE i == 2 * m - 1
  <2>1. m - 1 \in 1..(count - 1) /\ 2 * (m - 1) + 1 = i
    BY <1>1, <1>3
  <2>2. frames[i].kind = "comma"
    BY <2>1, WireFacts DEF EncInv, ElementsInOrder
  <2>3. i \in DOMAIN frames
    BY <1>1, <1>3, WireFacts
  <2>4. SlotAt(m, frames[i].start + 1)
    BY <1>3, <2>2, <2>3 DEF SlotAt
  <2>. QED
    BY <2>4
<1>. QED
  BY <1>2, <1>3

\* What stands behind the values handed over.
LEMMA BehindRead ==
    ASSUME WireInv, NetInv, Prefix, ReadPlace
    PROVE  /\ yielded = <<>> => SlotAt(1, read)
           /\ yielded # <<>> /\ read < Len(wire) =>
                 \/ wire[read + 1] = "," /\ SlotAt(Len(yielded) + 1, read + 1)
                 \/ /\ wire[read + 1] = "]" /\ StatusAt(read)
                    /\ Len(yielded) = count
<1>1. ASSUME yielded = <<>> PROVE SlotAt(1, read)
  BY <1>1 DEF ReadPlace, SlotAt
<1>2. ASSUME yielded # <<>>, read < Len(wire)
      PROVE  \/ wire[read + 1] = "," /\ SlotAt(Len(yielded) + 1, read + 1)
             \/ /\ wire[read + 1] = "]" /\ StatusAt(read)
                /\ Len(yielded) = count
  <2>. DEFINE m == Len(yielded)
  <2>1. m \in 1..count
    <3>1. m \in Nat /\ m <= count /\ count \in Nat
      BY WireFacts, LenProperties DEF Prefix
    <3>2. m # 0
      BY <1>2, EmptySeq DEF Prefix
    <3>. QED
      BY <3>1, <3>2
  <2>2. PICK s : SlotAt(m, s)
    BY <2>1, SlotOf
  <2>3. read = End(frames[2 * m])
    BY <1>2 DEF ReadPlace
  <2>. HIDE DEF m
  <2>4. End(frames[2 * m]) = s + Len(Text[source[m]])
    BY <2>1, <2>2, SlotText
  <2>5. read = s + Len(Text[source[m]])
    BY <2>3, <2>4
  <2>6. \/ wire[read + 1] = "," /\ SlotAt(m + 1, read + 1)
        \/ wire[read + 1] = "]" /\ StatusAt(read) /\ m = count
    BY <1>2, <2>1, <2>2, <2>5, AfterText
  <2>. QED
    BY <2>6 DEF m
<1>. QED
  BY <1>1, <1>2

\* Nothing a value begins with looks like its end.
LEMMA FirstSymbol ==
    ASSUME NEW e \in Element
    PROVE  /\ Text[e] \in Seq(Symbol) /\ Len(Text[e]) \in Nat \ {0}
           /\ Text[e][1] \notin {",", "]"}
<1>1. /\ Text[e] \in Seq(Symbol) /\ Len(Text[e]) \in Nat \ {0}
      /\ Lexed(Text[e])[0] = Fresh
      /\ \A i \in 1..Len(Text[e]) :
            ~EndsValue(Lexed(Text[e])[i - 1], Text[e][i])
  BY LexFacts
<1>2. 1 \in 1..Len(Text[e])
  BY <1>1
<1>3. ~EndsValue(Lexed(Text[e])[1 - 1], Text[e][1])
  BY <1>1, <1>2
<1>4. 1 - 1 = 0
  OBVIOUS
<1>5. ~EndsValue(Fresh, Text[e][1])
  BY <1>1, <1>3, <1>4
<1>. QED
  BY <1>1, <1>5 DEF EndsValue, Fresh

\* What a parser takes for the next value is the next value, or the start of a
\* number that the end of the stream cut short.
LEMMA MatchFacts ==
    ASSUME WireInv, NetInv, Prefix, ReadPlace,
           Len(yielded) > 0 => Tokens!AfterComma,
           NEW e \in Element, Tokens!NextElement(e),
           NEW s, s = read + Tokens!Skipped
    PROVE  /\ SlotAt(Here, s) /\ Here <= count /\ s \in Nat
           /\ s + Len(Text[e]) <= Len(Arriving)
           /\ \/ e = source[Here]
              \/ fault = "eof" /\ s + Len(Text[e]) = cut
<1>. DEFINE v == Tokens!Value
            t == Text[e]
            l == Len(t)
            k == Len(yielded)
            m == Here
<1>1. /\ s \in Nat /\ v \in Seq(Symbol) /\ Len(v) \in Nat
      /\ s + Len(v) = Len(Arriving)
      /\ \A j \in 1..Len(v) : v[j] = wire[s + j]
      /\ Tokens!AfterComma => s = read + 1
      /\ ~Tokens!AfterComma => s = read
  BY ValueFacts
<1>2. /\ Len(Arriving) \in Nat /\ Len(Arriving) <= Len(wire)
      /\ Len(wire) \in Nat /\ read \in Nat /\ count \in Nat
      /\ Len(Arriving) = IF fault = "none" THEN Len(wire) ELSE cut
      /\ k \in Nat /\ k <= count /\ m = k + 1 /\ yielded \in Seq(Element)
  BY NetFacts, WireFacts, LenProperties DEF Prefix, Here
<1>3. t \in Seq(Symbol) /\ l \in Nat \ {0}
  BY FirstSymbol
<1>10. t[1] \notin {",", "]"}
  BY FirstSymbol
<1>4. l <= Len(v) /\ \A j \in 1..l : t[j] = wire[s + j]
  <2>1. l <= Len(v) /\ t = SubSeq(v, 1, l)
    BY DEF Tokens!NextElement, Tokens!Begins
  <2>. HIDE DEF v, t, l
  <2>2. l \in 0..Len(v)
    BY <1>1, <1>3, <2>1
  <2>3. \A j \in 1..l : t[j] = v[j]
    BY <1>1, <2>1, <2>2, FirstPart
  <2>4. ASSUME NEW j \in 1..l PROVE t[j] = wire[s + j]
    <3>1. j \in 1..Len(v)
      BY <2>2, <1>1
    <3>. QED
      BY <1>1, <2>3, <3>1
  <2>. QED
    BY <2>1, <2>4
<1>5. s + l <= Len(Arriving) /\ s < Len(wire) /\ s + l <= Len(wire)
  <2>. DEFINE a == Len(Arriving)
              w == Len(wire)
              n == Len(v)
  <2>1. /\ a \in Nat /\ w \in Nat /\ a <= w /\ n \in Nat /\ s + n = a
        /\ l <= n /\ l \in Nat \ {0} /\ s \in Nat
    BY <1>1, <1>2, <1>3, <1>4
  <2>. HIDE DEF a, w, n, l
  <2>2. s + l <= a /\ s < w /\ s + l <= w
    BY <2>1
  <2>. QED
    BY <2>2 DEF a, w
<1>6. SlotAt(m, s)
  <2>1. CASE yielded = <<>>
    <3>1. k = 0 /\ m = 1
      BY <1>2, <2>1
    <3>2. ~Tokens!AfterComma
      BY <3>1 DEF Tokens!AfterComma
    <3>. QED
      BY <1>1, <2>1, <3>1, <3>2, BehindRead
  <2>2. CASE yielded # <<>>
    <3>1. k > 0
      BY <1>2, <2>2, EmptySeq
    <3>2. Tokens!AfterComma
      BY <3>1
    <3>3. s = read + 1
      BY <1>1, <3>2
    <3>4. wire[read + 1] = ","
      <4>1. Tokens!Rest # <<>> /\ Tokens!Rest[1] = ","
        BY <3>2 DEF Tokens!AfterComma
      <4>2. Len(Tokens!Rest) # 0
        BY <4>1, RestFacts, EmptySeq
      <4>3. 1 \in 1..Len(Tokens!Rest)
        BY <4>2, RestFacts
      <4>. QED
        BY <4>1, <4>3, RestFacts
    <3>5. read < Len(wire)
      BY <1>2, <1>5, <3>3
    <3>6. SlotAt(k + 1, read + 1)
      BY <2>2, <3>4, <3>5, BehindRead
    <3>. QED
      BY <1>2, <3>3, <3>6
  <2>. QED
    BY <2>1, <2>2
<1>. HIDE DEF m, k, l, t, v
<1>7. t[1] = wire[s + 1]
  <2>1. 1 \in 1..l
    BY <1>3
  <2>. QED
    BY <1>4, <2>1
<1>8. m \in 1..count
  <2>1. m # count + 1
    <3>. SUFFICES ASSUME m = count + 1 PROVE FALSE
      OBVIOUS
    <3>1. wire[s + 1] = "]"
      BY <1>5, <1>6, EmptySlot
    <3>. QED
      BY <1>7, <1>10, <3>1
  <2>. QED
    BY <1>2, <2>1
<1>. DEFINE f == source[m]
            T == Text[f]
            n == Len(T)
<1>9. /\ f \in Element /\ n \in Nat \ {0}
      /\ s + n <= Len(wire)
      /\ \A j \in 1..n : wire[s + j] = T[j]
  BY <1>6, <1>8, SlotText
<1>11. CASE l <= n
  <2>1. \A j \in 1..l : t[j] = T[j]
    <3>. HIDE DEF f, T, n
    <3>1. ASSUME NEW j \in 1..l PROVE t[j] = T[j]
      <4>1. j \in 1..n
        BY <1>3, <1>9, <1>11
      <4>. QED
        BY <1>4, <1>9, <4>1
    <3>. QED
      BY <3>1
  <2>2. \/ e = f
        \/ l < n /\ e \in Numbers /\ f \in Numbers
    <3>. HIDE DEF f
    <3>. QED
      BY <1>9, <1>11, <2>1, TextsAgree DEF t, l
  <2>3. CASE l < n /\ e \in Numbers /\ f \in Numbers
    <3>1. IF Len(v) > l THEN v[l + 1] \notin Digit ELSE Conn = "closed"
      <4>1. Tokens!Numbers = Numbers
        BY SameTexts
      <4>. QED
        BY <2>3, <4>1, SMTT(30) DEF Tokens!NextElement, Tokens!Delimited, v, t, l
    <3>2. ~(Len(v) > l)
      <4>. SUFFICES ASSUME Len(v) > l PROVE FALSE
        OBVIOUS
      <4>1. l + 1 \in 1..Len(v) /\ l + 1 \in 1..n /\ s + (l + 1) = s + l + 1
        BY <1>1, <1>3, <1>9, <2>3
      <4>2. v[l + 1] = wire[s + (l + 1)] /\ wire[s + (l + 1)] = T[l + 1]
        BY <1>1, <1>9, <4>1
      <4>3. T[l + 1] \in Digit
        <5>1. T \in Seq(Symbol) /\ DOMAIN T = 1..n
          BY <1>9, LexFacts, LenProperties
        <5>. QED
          BY <2>3, <4>1, <5>1 DEF Numbers
      <4>. QED
        BY <3>1, <4>2, <4>3
    <3>3. Len(v) = l /\ Conn = "closed"
      BY <1>1, <1>3, <1>4, <3>1, <3>2
    <3>4. s + l = Len(Arriving)
      BY <1>1, <3>3
    <3>5. Len(Arriving) # Len(wire)
      <4>. DEFINE w == Len(wire)
                  a == Len(Arriving)
      <4>1. w \in Nat /\ s + n <= w /\ s + l = a /\ l < n
            /\ s \in Nat /\ n \in Nat /\ l \in Nat
        BY <1>1, <1>2, <1>3, <1>9, <2>3, <3>4
      <4>. HIDE DEF w, a, n
      <4>2. a # w
        BY <4>1
      <4>. QED
        BY <4>2 DEF w, a
    <3>6. fault # "none" /\ cut = Len(Arriving)
      BY <1>2, <3>5
    <3>7. fault # "reset"
      BY <3>3 DEF Conn
    <3>. QED
      BY <1>1, <1>5, <1>6, <1>8, <3>4, <3>6, <3>7 DEF NetInv, m, l, t
  <2>. QED
    BY <1>1, <1>5, <1>6, <1>8, <2>2, <2>3 DEF m, l, t, f
<1>12. CASE ~(l <= n)
  <2>1. n < l
    BY <1>3, <1>9, <1>12
  <2>2. \A j \in 1..n : T[j] = t[j]
    <3>. HIDE DEF f, T, n
    <3>1. ASSUME NEW j \in 1..n PROVE T[j] = t[j]
      <4>1. j \in 1..l
        BY <1>3, <1>9, <2>1
      <4>. QED
        BY <1>4, <1>9, <4>1
    <3>. QED
      BY <3>1
  <2>3. e \in Numbers
    <3>1. e # f
      BY <2>1 DEF l, t
    <3>. HIDE DEF f
    <3>. QED
      BY <1>9, <2>1, <2>2, <3>1, TextsAgree DEF t, l
  <2>4. t[n + 1] \in Digit
    <3>1. DOMAIN t = 1..l /\ n + 1 \in 1..l
      BY <1>3, <1>9, <2>1, LenProperties DEF l
    <3>. QED
      BY <2>3, <3>1 DEF Numbers, t
  <2>5. wire[s + n + 1] = t[n + 1]
    <3>1. n + 1 \in 1..l /\ s + (n + 1) = s + n + 1
      BY <1>1, <1>3, <1>9, <2>1, SMTT(30)
    <3>. QED
      BY <1>4, <3>1
  <2>6. wire[s + n + 1] \in {",", "]"}
    <3>1. s + n < Len(wire)
      BY <1>1, <1>2, <1>3, <1>5, <1>9, <2>1, SMTT(30)
    <3>. QED
      BY <1>6, <1>8, <3>1, AfterText
  <2>7. wire[s + n + 1] \in Plain \cap Punctuation
    BY <2>4, <2>5, <2>6, TextAssumption DEF Punctuation
  <2>. QED
    BY <2>7, NumberAssumption
<1>. QED
  BY <1>11, <1>12

\* A step of a token reader that ends the iteration without a verdict.
LEMMA ReaderStops ==
    ASSUME StreamInv, dec \notin ScannerPorts,
           UNCHANGED <<encVars, netVars, bufVars>>,
           dec' = dec, yielded' = yielded, dpc' = "done",
           outcome' \notin {"none", "clean", "streamError"}
    PROVE  TokenInv' /\ VerdictSound'
<1>1. /\ source' = source /\ count' = count /\ fault' = fault /\ buf' = buf
      /\ TokenInv
  BY DEF encVars, netVars, bufVars, StreamInv
<1>2. fault' # "eof" => Prefix'
  BY <1>1, SamePrefix DEF TokenInv
<1>3. yielded' \in Seq(Element) /\ buf' = <<>>
  BY <1>1 DEF TokenInv
<1>. QED
  BY <1>2, <1>3 DEF TokenInv, VerdictSound

\* Two verdicts stand for a stream that ends too early.
LEMMA CutVerdicts ==
    Tokens!CutOutcome \in {"ioError", "truncated"}
BY DEF Tokens!CutOutcome

\* A token reader meets the end, or text that is not JSON.
LEMMA ReaderCutStep ==
    ASSUME StreamInv, dec \notin ScannerPorts,
           UNCHANGED <<encVars, netVars, bufVars>>,
           \/ Tokens!EnvelopeCut \/ Tokens!SyntaxError
           \/ Tokens!ItemsCut \/ Tokens!TrailerCut
    PROVE  TokenInv' /\ VerdictSound' /\ read' = read
<1>1. /\ dec' = dec /\ yielded' = yielded /\ read' = read /\ dpc' = "done"
      /\ outcome' \in {"malformed", "ioError", "truncated"}
  <2>1. CASE Tokens!EnvelopeCut
    BY <2>1, CutVerdicts DEF Tokens!EnvelopeCut, Tokens!Stop
  <2>2. CASE Tokens!SyntaxError
    BY <2>2 DEF Tokens!SyntaxError, Tokens!Stop
  <2>3. CASE Tokens!ItemsCut
    BY <2>3, CutVerdicts DEF Tokens!ItemsCut, Tokens!Stop
  <2>4. CASE Tokens!TrailerCut
    BY <2>4, CutVerdicts DEF Tokens!TrailerCut, Tokens!Stop
  <2>. QED
    BY <2>1, <2>2, <2>3, <2>4
<1>. QED
  BY <1>1, ReaderStops

\* A token reader at the header.
LEMMA EnvelopeStep ==
    ASSUME StreamInv, dec \notin ScannerPorts,
           UNCHANGED <<encVars, netVars, bufVars>>,
           Tokens!ReadEnvelope
    PROVE  TokenInv' /\ VerdictSound' /\ read' \in read..Len(Arriving)
<1>1. /\ dpc = "header" /\ Len(Tokens!Rest) >= Len(Header)
      /\ read' = read + Len(Header) /\ dec' = dec /\ yielded' = yielded
  <2>1. Tokens!Header = Header
    BY SameTexts
  <2>. QED
    BY <2>1 DEF Tokens!ReadEnvelope
<1>2. \/ dpc' = "items" /\ outcome' = outcome
      \/ dpc' = "done" /\ outcome' = "malformed"
  BY DEF Tokens!ReadEnvelope, Tokens!Stop
<1>3. /\ WireInv /\ NetInv /\ TokenInv
      /\ count' = count /\ source' = source /\ buf' = buf
      /\ frames' = frames /\ wire' = wire
  BY DEF StreamInv, encVars, bufVars
<1>4. read = 0 /\ yielded = <<>> /\ outcome = "none"
  BY <1>1, <1>3 DEF TokenInv
<1>5. Len(Header) = 3
  BY HeaderSymbols
<1>6. read' \in read..Len(Arriving) /\ read' = 3 /\ Len(wire) > 0
  <2>. DEFINE a == Len(Arriving)
              r == Len(Tokens!Rest)
              w == Len(wire)
  <2>1. /\ a \in Nat /\ r \in Nat /\ w \in Nat /\ a <= w /\ read + r = a
        /\ r >= 3 /\ read = 0 /\ read' = read + 3
    BY <1>1, <1>3, <1>4, <1>5, RestFacts
  <2>. HIDE DEF a, r, w
  <2>2. read' \in read..a /\ read' = 3 /\ w > 0
    BY <2>1
  <2>. QED
    BY <2>2 DEF a, w
<1>7. CASE dpc' = "items" /\ outcome' = outcome
  <2>1. frames # <<>>
    BY <1>3, <1>6, HeaderText
  <2>2. ReadPlace'
    BY <1>1, <1>3, <1>4, <1>5, <1>6, <2>1 DEF ReadPlace
  <2>3. Prefix'
    <3>1. yielded \in Seq(Element) /\ Len(yielded) = 0 /\ count \in Nat
      BY <1>3, <1>4, WireFacts DEF TokenInv
    <3>2. Prefix
      BY <3>1 DEF Prefix
    <3>. QED
      BY <1>1, <1>3, <3>2, SamePrefix
  <2>4. yielded' \in Seq(Element) /\ buf' = <<>> /\ outcome' = "none"
    BY <1>1, <1>3, <1>4, <1>7 DEF TokenInv
  <2>5. TokenInv'
    BY <1>7, <2>2, <2>3, <2>4 DEF TokenInv
  <2>6. VerdictSound'
    BY <2>4 DEF VerdictSound
  <2>. QED
    BY <1>6, <2>5, <2>6
<1>8. CASE dpc' = "done" /\ outcome' = "malformed"
  BY <1>1, <1>6, <1>8, ReaderStops
<1>. QED
  BY <1>2, <1>7, <1>8

\* A reader that took the end of the stream for the end of a number has
\* nothing left.
LEMMA NothingLeft ==
    ASSUME WireInv, NetInv, SplitOff
    PROVE  /\ Tokens!Rest = <<>>
           /\ \A e \in Element : ~Tokens!NextElement(e)
<1>1. Tokens!Rest = <<>>
  <2>1. Len(Tokens!Rest) = 0
    BY RestFacts, NetFacts DEF SplitOff
  <2>. QED
    BY <2>1, RestFacts, EmptySeq
<1>2. Tokens!Value = <<>>
  BY <1>1 DEF Tokens!Value, Tokens!AfterComma
<1>3. \A e \in Element : ~Tokens!NextElement(e)
  <2>1. ASSUME NEW e \in Element, Tokens!NextElement(e) PROVE FALSE
    <3>1. Len(Text[e]) \in Nat \ {0}
      BY FirstSymbol
    <3>2. Len(Text[e]) <= Len(Tokens!Value)
      BY <2>1 DEF Tokens!NextElement, Tokens!Begins
    <3>3. Len(Tokens!Value) = 0
      BY <1>2
    <3>. QED
      BY <3>1, <3>2, <3>3
  <2>. QED
    BY <2>1
<1>. QED
  BY <1>1, <1>3

\* A token reader takes a value.
LEMMA ElementReadStep ==
    ASSUME StreamInv, dec \notin ScannerPorts,
           UNCHANGED <<encVars, netVars, bufVars>>,
           Tokens!ReadElement
    PROVE  TokenInv' /\ VerdictSound' /\ read' \in read..Len(Arriving)
<1>1. /\ dpc = "items" /\ dec' = dec
      /\ Len(yielded) > 0 => Tokens!AfterComma
  BY DEF Tokens!ReadElement
<1>2. PICK e \in Element :
          /\ Tokens!NextElement(e)
          /\ yielded' = Append(yielded, e)
          /\ read' = read + Tokens!Skipped + Len(Text[e])
  BY DEF Tokens!ReadElement
<1>3. \/ dpc' = dpc /\ outcome' = outcome
      \/ dpc' = "done" /\ outcome' = "stopped"
  BY DEF Tokens!ReadElement, Tokens!Stop
<1>4. /\ WireInv /\ NetInv /\ TokenInv /\ outcome = "none"
      /\ source' = source /\ count' = count /\ buf' = buf /\ buf = <<>>
      /\ frames' = frames /\ fault' = fault /\ cut' = cut
      /\ yielded \in Seq(Element)
  BY <1>1 DEF StreamInv, TokenInv, encVars, netVars, bufVars
<1>5. Prefix /\ ReadPlace
  <2>1. ~SplitOff
    BY <1>2, <1>4, NothingLeft
  <2>. QED
    BY <1>1, <1>4, <2>1 DEF TokenInv
<1>. DEFINE s == read + Tokens!Skipped
<1>6. /\ SlotAt(Here, s) /\ Here <= count /\ s \in Nat
      /\ s + Len(Text[e]) <= Len(Arriving)
      /\ \/ e = source[Here]
         \/ fault = "eof" /\ s + Len(Text[e]) = cut
  BY <1>1, <1>2, <1>4, <1>5, MatchFacts
<1>7. read <= s /\ read' = s + Len(Text[e])
  <2>1. s = read \/ s = read + 1
    BY <1>4, ValueFacts
  <2>. QED
    BY <1>2, <1>4, <2>1, NetFacts
<1>. HIDE DEF s
<1>8. read' \in read..Len(Arriving)
  <2>1. Len(Text[e]) \in Nat
    BY FirstSymbol
  <2>2. read \in Nat /\ Len(Arriving) \in Nat
    BY <1>4, NetFacts
  <2>. QED
    BY <1>6, <1>7, <2>1, <2>2
<1>9. yielded' \in Seq(Element)
  BY <1>2, <1>4, AppendProperties
<1>10. e = source[Here] => Prefix' /\ ReadPlace'
  <2>. SUFFICES ASSUME e = source[Here] PROVE Prefix' /\ ReadPlace'
    OBVIOUS
  <2>1. Prefix' /\ Len(yielded') = Len(yielded) + 1
    BY <1>2, <1>4, <1>5, <1>6, PrefixGrows
  <2>2. Here \in 1..count /\ Len(yielded') = Here /\ yielded' # <<>>
    <3>1. Len(yielded) \in Nat /\ count \in Nat
      BY <1>4, WireFacts, LenProperties
    <3>2. Len(yielded') # 0 /\ Here \in 1..count /\ Len(yielded') = Here
      BY <1>6, <2>1, <3>1 DEF Here
    <3>. QED
      BY <3>2, <1>9, EmptySeq
  <2>3. End(frames[2 * Here]) = s + Len(Text[source[Here]])
    BY <1>4, <1>6, <2>2, SlotText
  <2>4. read' = End(frames[2 * Here])
    BY <1>7, <2>3
  <2>5. End(frames[2 * Len(yielded)])' = End(frames[2 * Here])
    BY <1>4, <2>2 DEF End, FrameText
  <2>6. ReadPlace'
    BY <2>2, <2>4, <2>5 DEF ReadPlace
  <2>. QED
    BY <2>1, <2>6
<1>11. fault' # "eof" => Prefix'
  BY <1>4, <1>6, <1>10
<1>12. (Prefix' /\ ReadPlace') \/ SplitOff'
  BY <1>4, <1>6, <1>7, <1>10 DEF SplitOff
<1>13. CASE dpc' = dpc /\ outcome' = outcome
  <2>1. TokenInv'
    BY <1>1, <1>4, <1>9, <1>11, <1>12, <1>13 DEF TokenInv
  <2>2. VerdictSound'
    BY <1>4, <1>13 DEF VerdictSound
  <2>. QED
    BY <1>8, <2>1, <2>2
<1>14. CASE dpc' = "done" /\ outcome' = "stopped"
  <2>1. TokenInv'
    BY <1>1, <1>4, <1>9, <1>11, <1>14 DEF TokenInv
  <2>2. VerdictSound'
    BY <1>14 DEF VerdictSound
  <2>. QED
    BY <1>8, <2>1, <2>2
<1>. QED
  BY <1>3, <1>13, <1>14

\* A token reader at the closing bracket.
LEMMA ArrayEndStep ==
    ASSUME StreamInv, dec \notin ScannerPorts,
           UNCHANGED <<encVars, netVars, bufVars>>,
           Tokens!ReadArrayEnd
    PROVE  TokenInv' /\ VerdictSound' /\ read' \in read..Len(Arriving)
<1>1. /\ dpc = "items" /\ Tokens!Rest # <<>>
      /\ read' = read + 1 /\ dpc' = "trailer" /\ dec' = dec
      /\ yielded' = yielded /\ outcome' = outcome
  BY DEF Tokens!ReadArrayEnd
<1>2. Tokens!Rest[1] = "]"
  BY DEF Tokens!ReadArrayEnd
<1>3. /\ WireInv /\ NetInv /\ TokenInv /\ outcome = "none"
      /\ source' = source /\ count' = count /\ buf' = buf
      /\ frames' = frames /\ fault' = fault /\ cut' = cut
  BY <1>1 DEF StreamInv, TokenInv, encVars, netVars, bufVars
<1>4. Prefix /\ ReadPlace
  <2>1. ~SplitOff
    BY <1>1, <1>3, NothingLeft
  <2>. QED
    BY <1>1, <1>3, <2>1 DEF TokenInv
<1>5. /\ read \in Nat /\ Len(Arriving) \in Nat /\ read < Len(Arriving)
      /\ Len(Arriving) <= Len(wire) /\ Len(wire) \in Nat
      /\ 1 \in 1..Len(Tokens!Rest)
  <2>1. Len(Tokens!Rest) # 0
    BY <1>1, <1>3, RestFacts, EmptySeq
  <2>. QED
    BY <1>3, <2>1, RestFacts
<1>6. wire[read + 1] = "]"
  BY <1>2, <1>3, <1>5, RestFacts
<1>7. read < Len(wire)
  BY <1>5
<1>8. StatusAt(read) /\ Len(yielded) = count
  <2>1. CASE yielded # <<>>
    BY <1>3, <1>4, <1>6, <1>7, <2>1, BehindRead
  <2>2. CASE yielded = <<>>
    <3>1. SlotAt(1, read) /\ Len(yielded) = 0
      BY <1>3, <1>4, <2>2, BehindRead
    <3>2. count = 0
      <4>. SUFFICES ASSUME count # 0 PROVE FALSE
        OBVIOUS
      <4>1. 1 \in 1..count
        BY <1>3, WireFacts
      <4>2. /\ source[1] \in Element
            /\ \A j \in 1..Len(Text[source[1]]) :
                  wire[read + j] = Text[source[1]][j]
        BY <1>3, <3>1, <4>1, SlotText
      <4>7. Len(Text[source[1]]) \in Nat \ {0}
        BY <4>2, LexFacts
      <4>3. 1 \in 1..Len(Text[source[1]])
        BY <4>7
      <4>4. wire[read + 1] = Text[source[1]][1]
        BY <4>2, <4>3
      <4>5. Text[source[1]][1] \notin {",", "]"}
        BY <4>2, FirstSymbol, Zenon
      <4>6. Text[source[1]][1] # "]"
        BY <4>5
      <4>. QED
        BY <1>6, <4>4, <4>6, Zenon
    <3>3. SlotAt(count + 1, read)
      BY <3>1, <3>2
    <3>. QED
      BY <1>3, <1>7, <3>1, <3>2, <3>3, EmptySlot
  <2>. QED
    BY <2>1, <2>2
<1>9. Prefix' /\ Len(yielded') = count'
  BY <1>1, <1>3, <1>4, <1>8, SamePrefix
<1>10. read' > 0 /\ read' \in read..Len(Arriving) /\ read' - 1 = read
  BY <1>1, <1>5
<1>11. StatusAt(read - 1)'
  BY <1>3, <1>8, <1>10 DEF StatusAt
<1>12. TokenInv'
  <2>1. yielded' \in Seq(Element) /\ buf' = <<>> /\ outcome' = "none"
    BY <1>1, <1>3 DEF TokenInv
  <2>. QED
    BY <1>1, <1>9, <1>10, <1>11, <2>1 DEF TokenInv
<1>13. VerdictSound'
  BY <1>1, <1>3 DEF VerdictSound
<1>. QED
  BY <1>10, <1>12, <1>13

\* A token reader at the trailer: the verdict.
LEMMA TrailerReadStep ==
    ASSUME StreamInv, dec \notin ScannerPorts,
           UNCHANGED <<encVars, netVars, bufVars>>,
           Tokens!ReadTrailer
    PROVE  TokenInv' /\ VerdictSound' /\ read' \in read..Len(Arriving)
<1>1. dpc = "trailer" /\ dec' = dec /\ yielded' = yielded
  BY DEF Tokens!ReadTrailer
<1>. DEFINE r == Tokens!Rest
<1>2. PICK t \in {OkTrailer, ErrorTrailer} :
          /\ Len(r) >= Len(t) /\ SubSeq(r, 1, Len(t)) = t
          /\ read' = read + Len(t)
          /\ outcome' = TrailerVerdict(t) /\ dpc' = "done"
  <2>1. /\ Tokens!OkTrailer = OkTrailer /\ Tokens!ErrorTrailer = ErrorTrailer
        /\ \A t : Tokens!TrailerVerdict(t) = TrailerVerdict(t)
    BY SameTexts
  <2>. QED
    BY <2>1, Zenon DEF Tokens!ReadTrailer, Tokens!Stop
<1>3. /\ WireInv /\ NetInv /\ TokenInv
      /\ source' = source /\ count' = count /\ buf' = buf
      /\ frames' = frames /\ fault' = fault
  BY DEF StreamInv, encVars, netVars, bufVars
<1>4. Prefix /\ Len(yielded) = count /\ read > 0 /\ StatusAt(read - 1)
  BY <1>1, <1>3 DEF TokenInv
<1>5. PICK T \in {OkTrailer, ErrorTrailer} :
          /\ T \in Seq(Symbol) /\ Len(T) \in Nat
          /\ Len(wire) = (read - 1) + 1 + Len(T)
          /\ \A j \in 1..Len(T) : wire[(read - 1) + 1 + j] = T[j]
          /\ T = OkTrailer => HasStatus("ok")
          /\ T = ErrorTrailer => HasStatus("error") /\ ~HasStatus("ok")
  BY <1>3, <1>4, TrailerText, Zenon
<1>6. t \in Seq(Symbol) /\ Len(t) \in Nat
  BY <1>2, TextsAreWires, LenProperties, Zenon
<1>7. /\ r \in Seq(Symbol) /\ Len(r) \in Nat /\ read \in Nat
      /\ read + Len(r) = Len(Arriving) /\ Len(Arriving) \in Nat
      /\ Len(Arriving) <= Len(wire) /\ Len(wire) \in Nat
      /\ \A j \in 1..Len(r) : r[j] = wire[read + j]
  BY <1>3, RestFacts
<1>. HIDE DEF r
<1>8. /\ Len(t) <= Len(T) /\ Len(t) <= Len(r)
      /\ read' \in read..Len(Arriving)
  <2>. DEFINE a == Len(Arriving)
              w == Len(wire)
              n == Len(t)
              m == Len(T)
              l == Len(r)
  <2>1. /\ a \in Nat /\ w \in Nat /\ n \in Nat /\ m \in Nat /\ l \in Nat
        /\ read \in Nat /\ read + l = a /\ a <= w /\ l >= n
        /\ w = (read - 1) + 1 + m /\ read' = read + n
    BY <1>2, <1>5, <1>6, <1>7
  <2>. HIDE DEF a, w, n, m, l
  <2>2. n <= m /\ n <= l /\ read' \in read..a
    BY <2>1
  <2>. QED
    BY <2>2 DEF a, n, m, l
<1>9. ASSUME NEW j \in 1..Len(t) PROVE t[j] = T[j]
  <2>1. j \in 1..Len(r) /\ j \in 1..Len(T) /\ (read - 1) + 1 + j = read + j
    BY <1>5, <1>6, <1>7, <1>8
  <2>2. t[j] = r[j]
    <3>1. Len(t) \in 0..Len(r)
      BY <1>6, <1>7, <1>8
    <3>2. t = SubSeq(r, 1, Len(t))
      BY <1>2
    <3>3. \A i \in 1..Len(t) : t[i] = r[i]
      BY <1>7, <3>1, <3>2, FirstPart
    <3>. QED
      BY <3>3
  <2>3. r[j] = wire[read + j]
    BY <1>7, <2>1
  <2>4. wire[(read - 1) + 1 + j] = T[j]
    BY <1>5, <2>1
  <2>. QED
    BY <2>1, <2>2, <2>3, <2>4
<1>10. /\ TrailerVerdict(t) # "none"
       /\ T = OkTrailer => TrailerVerdict(t) # "streamError"
       /\ T = ErrorTrailer => TrailerVerdict(t) # "clean"
  BY <1>5, <1>6, <1>8, <1>9, VerdictOnPart
<1>11. outcome' # "none"
  BY <1>2, <1>10, Zenon
<1>12. /\ outcome' = "clean" => HasStatus("ok")
       /\ outcome' = "streamError" => HasStatus("error")
  BY <1>2, <1>5, <1>10, Zenon
<1>13. TokenInv'
  <2>1. yielded' \in Seq(Element) /\ buf' = <<>>
    BY <1>1, <1>3 DEF TokenInv
  <2>2. Prefix' /\ dpc' = "done"
    BY <1>1, <1>2, <1>3, <1>4, SamePrefix
  <2>. QED
    BY <1>11, <2>1, <2>2 DEF TokenInv
<1>14. VerdictSound'
  <2>1. yielded = Sent /\ (count = Len(source) => yielded = source)
    BY <1>3, <1>4, AllSent
  <2>2. HasStatus("ok") => count = Len(source)
    BY <1>3 DEF WireInv, EncInv, StatusTruthful
  <2>3. Sent' = Sent /\ \A kind : HasStatus(kind)' <=> HasStatus(kind)
    BY <1>3 DEF Sent, HasStatus
  <2>. QED
    BY <1>1, <1>3, <1>12, <2>1, <2>2, <2>3 DEF VerdictSound
<1>. QED
  BY <1>8, <1>13, <1>14

\* Every step of a token reader.
LEMMA ReadTokensStep ==
    ASSUME StreamInv, ReadTokens
    PROVE  StreamInv'
<1>1. /\ dec \notin ScannerPorts /\ Tokens!ReadStep
      /\ UNCHANGED <<encVars, netVars, bufVars>>
  BY DEF ReadTokens
<1>2. WireInv /\ NetInv
  BY DEF StreamInv
<1>3. read \in read..Len(Arriving)
  BY <1>2, NetFacts
<1>4. TokenInv' /\ VerdictSound' /\ read' \in read..Len(Arriving)
  <2>1. CASE Tokens!ReadEnvelope
    BY <1>1, <2>1, EnvelopeStep
  <2>2. CASE \/ Tokens!EnvelopeCut \/ Tokens!SyntaxError
             \/ Tokens!ItemsCut \/ Tokens!TrailerCut
    BY <1>1, <1>3, <2>2, ReaderCutStep
  <2>3. CASE Tokens!ReadElement
    BY <1>1, <2>3, ElementReadStep
  <2>4. CASE Tokens!ReadArrayEnd
    BY <1>1, <2>4, ArrayEndStep
  <2>5. CASE Tokens!ReadTrailer
    BY <1>1, <2>5, TrailerReadStep
  <2>. QED
    BY <1>1, <2>1, <2>2, <2>3, <2>4, <2>5 DEF Tokens!ReadStep
<1>5. dec' = dec
  BY <1>1 DEF Tokens!ReadStep, Tokens!ReadEnvelope, Tokens!EnvelopeCut,
       Tokens!ReadElement, Tokens!ReadArrayEnd, Tokens!SyntaxError,
       Tokens!ItemsCut, Tokens!ReadTrailer, Tokens!TrailerCut
<1>6. WireInv' /\ NetInv'
  BY <1>1, <1>2, <1>4, <1>5, ReaderStep
<1>7. ScanInv'
  BY <1>1, <1>5 DEF ScanInv
<1>. QED
  BY <1>4, <1>6, <1>7 DEF StreamInv

-----------------------------------------------------------------------------
(***************************************************************************)
(* What follows.                                                           *)
(***************************************************************************)
LEMMA StreamStep == StreamInv /\ [Next]_vars => StreamInv'
<1>. SUFFICES ASSUME StreamInv, [Next]_vars PROVE StreamInv'
  OBVIOUS
<1>1. CASE Produce
  BY <1>1, ProduceStep
<1>2. CASE Disconnect
  BY <1>2, DisconnectStep
<1>3. CASE ScanItems
  BY <1>3, ScanItemsStep
<1>4. CASE ReadTokens
  BY <1>4, ReadTokensStep
<1>5. CASE UNCHANGED vars
  <2>1. /\ UNCHANGED encVars /\ fault' = fault /\ cut' = cut /\ dec' = dec
        /\ dpc' = dpc /\ read' = read /\ buf' = buf /\ pos' = pos
        /\ elemStart' = elemStart /\ yielded' = yielded /\ outcome' = outcome
    BY <1>5 DEF vars, netVars, decVars, bufVars
  <2>2. depth' = depth /\ inString' = inString /\ escape' = escape
    BY <1>5 DEF vars, decVars, bufVars
  <2>3. /\ wire' = wire /\ frames' = frames /\ count' = count /\ epc' = epc
        /\ source' = source /\ enc' = enc /\ ending' = ending
    BY <2>1 DEF encVars
  <2>4. WireInv /\ NetInv /\ VerdictSound /\ ScanInv /\ TokenInv
    BY DEF StreamInv
  <2>5. WireInv' /\ NetInv'
    <3>1. read' \in read..Len(Arriving)
      BY <2>1, <2>4, NetFacts
    <3>2. UNCHANGED <<encVars, netVars>>
      BY <2>1 DEF netVars
    <3>. QED
      BY <2>1, <2>4, <3>1, <3>2, ReaderStep
  <2>6. VerdictSound'
    BY <2>1, <2>3, <2>4 DEF VerdictSound, HasStatus, Sent
  <2>7. Prefix' = Prefix
    BY <2>1, <2>3 DEF Prefix
  <2>8. ScanInv'
    <3>1. Base' = Base /\ Here' = Here /\ Passed' = Passed
      BY <2>1 DEF Base, Here, Passed
    <3>2. LexState' = LexState
      BY <2>2 DEF LexState
    <3>3. Held' = Held
      BY <2>1, <2>2, <2>3, <3>1 DEF Held
    <3>4. Located' = Located
      BY <2>1, <2>3, <3>1, <3>2 DEF Located, SlotAt
    <3>5. Closed' = Closed
      BY <2>1, <2>3, <3>1 DEF Closed, StatusAt, TextLengths, LastText
    <3>6. ScanPlace' = ScanPlace
      BY <2>1, <3>1, <3>2, <3>4, <3>5 DEF ScanPlace
    <3>7. Readable' = Readable
      BY <2>1, <2>2, <2>3 DEF Readable
    <3>8. IntactSettled' = IntactSettled
      BY <2>1, <2>3, <3>7 DEF IntactSettled, Settled, Ended, HasStatus
    <3>9. BufferBounded' = BufferBounded
      BY <2>1 DEF BufferBounded, TextLengths
    <3>. QED
      BY <2>1, <2>4, <2>7, <3>3, <3>6, <3>8, <3>9 DEF ScanInv
  <2>9. TokenInv'
    <3>1. ReadPlace' = ReadPlace
      BY <2>1, <2>3 DEF ReadPlace, End, FrameText
    <3>2. StatusAt(read - 1)' = StatusAt(read - 1)
      BY <2>1, <2>3 DEF StatusAt
    <3>. QED
      BY <2>1, <2>3, <2>4, <2>7, <3>1, <3>2 DEF TokenInv, SplitOff
  <2>. QED
    BY <2>5, <2>6, <2>8, <2>9 DEF StreamInv
<1>. QED
  BY <1>1, <1>2, <1>3, <1>4, <1>5 DEF Next

\* The decoder is always where the invariant says, whatever the source, the
\* chunks, the speed of the producer and the faults of the connection.
THEOREM StreamSafe == Spec => []StreamInv
<1>. QED
  BY InitStream, StreamStep, PTL DEF Spec

\* No decoder of the six ports ever reaches a terminal verdict that is not the
\* producer's: "clean" (StopIteration, done, a normal return) only after a
\* completed stream of which every value was handed over, "streamError" only
\* after a failed one of which all that was sent was.
THEOREM VerdictIsSound == Spec => []VerdictSound
<1>1. StreamInv => VerdictSound
  BY DEF StreamInv
<1>. QED
  BY <1>1, StreamSafe, PTL

\* The scanners hold one value, one chunk and the trailer at most, for a value
\* of any length and a chunk of any size; the token readers hold no text here.
THEOREM BufferIsBounded == Spec => []BufferBounded
<1>1. StreamInv => BufferBounded
  <2>. SUFFICES ASSUME StreamInv PROVE BufferBounded
    OBVIOUS
  <2>1. CASE dec \in ScannerPorts
    BY <2>1, BoundFacts DEF StreamInv
  <2>2. CASE dec \notin ScannerPorts
    <3>1. Len(buf) = 0
      BY <2>2 DEF StreamInv, TokenInv
    <3>2. 0 \in TextLengths
      BY DEF TextLengths
    <3>3. Len(Header) = 3 /\ ChunkSize \in Nat
      BY HeaderSymbols, StreamAssumption
    <3>4. Len(ErrorTrailer) = 9
      BY StatusSymbols, Zenon
    <3>5. Len(buf) <= Len(Header) + 0 + ChunkSize
                        + (IF dpc = "scan" THEN 1 ELSE 1 + Len(ErrorTrailer))
      BY <3>1, <3>3, <3>4
    <3>. QED
      BY <3>2, <3>5 DEF BufferBounded
  <2>. QED
    BY <2>1, <2>2
<1>. QED
  BY <1>1, StreamSafe, PTL

\* A scanner on a connection that did not break reports what the producer did,
\* if every value can be parsed and none is nested past the limit.
THEOREM IntactIsReported ==
    ASSUME Decoders \subseteq ScannerPorts
    PROVE  Spec => []IntactVerdict
<1>1. StreamInv => IntactVerdict
  <2>. SUFFICES ASSUME StreamInv PROVE IntactVerdict
    OBVIOUS
  <2>1. dec \in ScannerPorts
    BY DEF StreamInv, NetInv
  <2>2. IntactSettled
    BY <2>1 DEF StreamInv, ScanInv
  <2>. QED
    BY <2>2 DEF IntactSettled, IntactVerdict
<1>. QED
  BY <1>1, StreamSafe, PTL

\* A scanner, and a token reader whose connection does not just end, hand over
\* the values sent, each at its place: no value is lost, repeated or altered.
THEOREM OnlySent ==
    Spec => [](dec \in ScannerPorts \/ fault # "eof" => OnlySentElements)
<1>1. StreamInv => (dec \in ScannerPorts \/ fault # "eof" => OnlySentElements)
  BY DEF StreamInv, ScanInv, TokenInv, Prefix, OnlySentElements
<1>. QED
  BY <1>1, StreamSafe, PTL

-----------------------------------------------------------------------------
(***************************************************************************)
(* The two ends implement CheckedDelivery.                                 *)
(***************************************************************************)

\* The abstract variables that Delivery does not share with the stream.
Sending == CASE HasStatus("ok") -> "completed"
             [] HasStatus("error") -> "failed"
             [] OTHER -> "sending"
Judged  == IF outcome \in {"none", "clean", "streamError"}
             THEN outcome ELSE "aborted"

\* A stutter and the four actions of the abstract producer and consumer.
LEMMA Stutters ==
    ASSUME Sent' = Sent, Sending' = Sending, yielded' = yielded, Judged' = Judged
    PROVE  [Delivery!Next]_Delivery!vars
BY Zenon DEF Delivery!vars, Sending, Judged

\* The encoder writes a value: CheckedDelivery sends it.
LEMMA Sends ==
    ASSUME Sending = "sending", NEW e \in Element, Sent' = Append(Sent, e),
           Sending' = Sending, yielded' = yielded, Judged' = Judged
    PROVE  Delivery!Next
BY Zenon DEF Delivery!Next, Delivery!Send, Sending, Judged

\* The encoder writes the trailer: CheckedDelivery knows how the source ended.
LEMMA Concludes ==
    ASSUME Sending = "sending", Sending' \in {"completed", "failed"},
           Sent' = Sent, yielded' = yielded, Judged' = Judged
    PROVE  Delivery!Next
BY Zenon DEF Delivery!Next, Delivery!Conclude, Sending, Judged

\* A decoder hands over a value: CheckedDelivery delivers it.
LEMMA Delivers ==
    ASSUME Judged = "none", Judged' \in {"none", "aborted"},
           Len(yielded) < Len(Sent),
           yielded' = SubSeq(Sent, 1, Len(yielded) + 1),
           Sent' = Sent, Sending' = Sending
    PROVE  Delivery!Next
BY Zenon DEF Delivery!Next, Delivery!Deliver, Sending, Judged

\* A decoder gives its verdict: so does CheckedDelivery.
LEMMA Judges ==
    ASSUME Judged = "none", Sent' = Sent, Sending' = Sending, yielded' = yielded,
           \/ Sending = "completed" /\ yielded = Sent /\ Judged' = "clean"
           \/ Sending = "failed" /\ yielded = Sent /\ Judged' = "streamError"
           \/ Judged' = "aborted"
    PROVE  Delivery!Next
BY Zenon DEF Delivery!Next, Delivery!Judge, Sending, Judged

\* A stream has one status at most, and a completed one was sent whole.
LEMMA OneStatus ==
    ASSUME WireInv
    PROVE  /\ ~(HasStatus("ok") /\ HasStatus("error"))
           /\ HasStatus("ok") => Sending = "completed" /\ Sent = source
           /\ HasStatus("error") => Sending = "failed"
           /\ ~HasStatus("ok") /\ ~HasStatus("error") => Sending = "sending"
           /\ Sent \in Seq(Element) /\ Len(Sent) = count /\ count \in Nat
           /\ \A i \in 1..count : Sent[i] = source[i]
<1>1. /\ source \in Seq(Element) /\ Len(source) \in Nat /\ count \in 0..Len(source)
      /\ count \in Nat /\ count <= Len(source)
  <2>1. source \in Seq(Encodable(enc)) /\ count \in 0..Len(source)
    BY DEF WireInv, EncInv, EncTypeOK
  <2>2. source \in Seq(Element)
    BY <2>1, TextAssumption DEF Encodable
  <2>. QED
    BY <2>1, <2>2, LenProperties
<1>2. ~(HasStatus("ok") /\ HasStatus("error"))
  BY DEF HasStatus, WireInv, EncInv, StatusLast
<1>3. /\ Sent \in Seq(Element) /\ Len(Sent) = count
      /\ \A i \in 1..count : Sent[i] = source[i]
  BY <1>1, SubSeqProperties DEF Sent
<1>4. HasStatus("ok") => Sent = source
  <2>. SUFFICES ASSUME HasStatus("ok") PROVE Sent = source
    OBVIOUS
  <2>1. count = Len(source)
    BY DEF WireInv, EncInv, StatusTruthful
  <2>. QED
    BY <1>1, <1>3, <2>1, SeqEqual
<1>5. /\ HasStatus("ok") => Sending = "completed"
      /\ HasStatus("error") => Sending = "failed"
      /\ ~HasStatus("ok") /\ ~HasStatus("error") => Sending = "sending"
  BY <1>2 DEF Sending
<1>. QED
  BY <1>1, <1>2, <1>3, <1>4, <1>5

\* The producer sends a value, concludes, or does what no consumer can see.
LEMMA ProducerDelivers ==
    ASSUME StreamInv, Produce, StreamInv'
    PROVE  [Delivery!Next]_Delivery!vars
<1>1. EncStep /\ yielded' = yielded /\ outcome' = outcome
  BY DEF Produce, decVars
<1>2. Judged' = Judged
  BY <1>1 DEF Judged
<1>3. WireInv /\ WireInv' /\ source' = source
  BY <1>1, EncoderGrows DEF StreamInv
<1>4. Sending = "sending"
  BY <1>1, <1>3, PlacesStay, OneStatus
<1>5. /\ Sending' \in {"sending", "completed", "failed"}
      /\ ~HasStatus("ok")' /\ ~HasStatus("error")' => Sending' = "sending"
  BY DEF Sending
<1>6. CASE count' = count
  <2>1. Sent' = Sent
    BY <1>3, <1>6 DEF Sent
  <2>2. CASE Sending' = "sending"
    BY <1>1, <1>2, <1>4, <2>1, <2>2, Stutters
  <2>3. CASE Sending' \in {"completed", "failed"}
    BY <1>1, <1>2, <1>4, <2>1, <2>3, Concludes
  <2>. QED
    BY <1>5, <2>2, <2>3
<1>7. CASE count' # count
  <2>1. WriteElement \/ WriteCommaAndElement
    BY <1>1, <1>7 DEF EncStep, WriteHeader, NextItem, WriteComma, EncodeFails,
         SourceFails, SourceEnds, WriteOkTrailer, WriteErrorTrailer, WriteFails,
         WriteHangs
  <2>2. count' = count + 1 /\ epc' = "next" /\ count < Len(source)
    BY <2>1 DEF WriteElement, WriteCommaAndElement
  <2>3. Sending' = "sending"
    <3>1. StatusLast'
      BY <1>3 DEF WireInv, EncInv
    <3>2. ~HasStatus("ok")' /\ ~HasStatus("error")'
      BY <2>2, <3>1 DEF StatusLast, HasStatus
    <3>. QED
      BY <1>5, <3>2
  <2>. DEFINE e == source[count + 1]
  <2>4. source \in Seq(Element) /\ Len(source) \in Nat /\ count \in Nat
    <3>1. source \in Seq(Encodable(enc)) /\ count \in 0..Len(source)
      BY <1>3 DEF WireInv, EncInv, EncTypeOK
    <3>2. source \in Seq(Element)
      BY <3>1, TextAssumption DEF Encodable
    <3>. QED
      BY <3>1, <3>2, LenProperties
  <2>5. e \in Element
    <3>1. count + 1 \in 1..Len(source)
      BY <2>2, <2>4
    <3>. QED
      BY <2>4, <3>1, ElementOfSeq
  <2>6. Sent' = Append(Sent, e)
    <3>1. Sent' = SubSeq(source, 1, count + 1) /\ Sent = SubSeq(source, 1, count)
      BY <1>3, <2>2 DEF Sent
    <3>4. /\ Sent \in Seq(Element) /\ Len(Sent) = count
          /\ \A i \in 1..count : Sent[i] = source[i]
      BY <1>3, OneStatus
    <3>5. /\ Sent' \in Seq(Element) /\ Len(Sent') = count + 1
          /\ \A i \in 1..count + 1 : Sent'[i] = source[i]
      <4>1. 1 \in 1..Len(source) + 1 /\ count + 1 \in 0..Len(source)
        BY <2>2, <2>4
      <4>2. /\ Sent' \in Seq(Element) /\ Len(Sent') = (count + 1) - 1 + 1
            /\ \A i \in 1..(count + 1) - 1 + 1 : Sent'[i] = source[1 + i - 1]
        BY <2>2, <2>4, <3>1, <4>1, SubSeqProperties
      <4>. QED
        BY <2>4, <4>2
    <3>6. /\ Append(Sent, e) \in Seq(Element) /\ Len(Append(Sent, e)) = count + 1
          /\ \A i \in 1..count : Append(Sent, e)[i] = Sent[i]
          /\ Append(Sent, e)[count + 1] = e
      BY <2>4, <2>5, <3>4, AppendProperties
    <3>7. \A i \in 1..count + 1 : Sent'[i] = Append(Sent, e)[i]
      BY <2>4, <3>4, <3>5, <3>6
    <3>. QED
      BY <3>5, <3>6, <3>7, SeqEqual
  <2>. HIDE DEF e
  <2>. QED
    BY <1>1, <1>2, <1>4, <2>3, <2>5, <2>6, Sends
<1>. QED
  BY <1>6, <1>7

\* What a step of a decoder may do to what its caller sees.
LEMMA DecoderShape ==
    ASSUME StreamInv, ScanItems \/ ReadTokens
    PROVE  /\ UNCHANGED encVars /\ outcome = "none"
           /\ \/ yielded' = yielded
              \/ /\ \E e \in Element : yielded' = Append(yielded, e)
                 /\ outcome' \in {"none", "stopped"}
<1>1. CASE ScanItems
  <2>1. dec \in ScannerPorts /\ Scan!ScanStep /\ UNCHANGED encVars
    BY <1>1 DEF ScanItems
  <2>2. outcome = "none" <=> dpc # "done"
    BY <2>1 DEF StreamInv, ScanInv, ScanPlace
  <2>3. ASSUME NEW text, Scan!IsValue(dec, text)
        PROVE  Scan!ValueOf(text) \in Element
    BY <2>3 DEF Scan!IsValue, Scan!ValueOf
  <2>4. CASE Scan!Separator
    <3>1. dpc = "scan"
      BY <2>4 DEF Scan!Separator, Scan!Scanning
    <3>2. CASE Scan!IsValue(dec, Scan!Segment)
      <4>1. yielded' = Append(yielded, Scan!ValueOf(Scan!Segment)) /\ outcome' = outcome
        BY <2>4, <3>2 DEF Scan!Separator
      <4>. QED
        BY <2>1, <2>2, <2>3, <3>1, <3>2, <4>1
    <3>3. CASE ~Scan!IsValue(dec, Scan!Segment)
      BY <2>1, <2>2, <2>4, <3>1, <3>3 DEF Scan!Separator
    <3>. QED
      BY <3>2, <3>3
  <2>5. CASE Scan!CloseArray
    <3>1. dpc = "scan"
      BY <2>5 DEF Scan!CloseArray, Scan!Scanning
    <3>2. \/ yielded' = yielded
          \/ /\ Scan!IsValue(dec, Scan!Segment)
             /\ yielded' = Append(yielded, Scan!ValueOf(Scan!Segment))
             /\ outcome' = outcome
      BY <2>5 DEF Scan!CloseArray
    <3>. QED
      BY <2>1, <2>2, <2>3, <3>1, <3>2
  <2>6. CASE Scan!FinishTrailer
    <3>1. dpc = "trailer"
      BY <2>6 DEF Scan!FinishTrailer
    <3>2. CASE Scan!Held
      <4>1. yielded' = Append(yielded, Scan!ValueOf(Scan!LastSlice)) /\ outcome' = outcome
        BY <2>6, <3>2 DEF Scan!FinishTrailer
      <4>2. Scan!ValueOf(Scan!LastSlice) \in Element
        <5>1. dec = "rust" /\ Scan!LastSlice # <<>>
          BY <2>1, <3>2, WhoDrains DEF Scan!Held
        <5>2. Scan!LastSlice = LastText
          BY DEF Scan!LastSlice, LastText
        <5>3. Closed
          BY <2>1, <3>1 DEF StreamInv, ScanInv, ScanPlace
        <5>4. /\ Len(yielded) + 1 = count
              /\ source[count] \in Parsable(dec) /\ LastText = Text[source[count]]
          BY <3>1, <5>1, <5>2, <5>3 DEF Closed
        <5>5. source[count] \in Element
          <6>1. WireInv /\ Len(yielded) \in Nat
            BY <2>1, LenProperties DEF StreamInv, ScanInv, Prefix
          <6>2. source \in Seq(Element) /\ count \in 1..Len(source)
            <7>1. source \in Seq(Encodable(enc)) /\ count \in 0..Len(source)
              BY <6>1 DEF WireInv, EncInv, EncTypeOK
            <7>2. source \in Seq(Element)
              BY <7>1, TextAssumption DEF Encodable
            <7>. QED
              BY <5>4, <6>1, <7>1, <7>2, LenProperties
          <6>. QED
            BY <6>2, ElementOfSeq
        <5>. QED
          BY <2>3, <5>2, <5>4, <5>5, SameTexts DEF IsValue
      <4>. QED
        BY <2>1, <2>2, <3>1, <4>1, <4>2
    <3>3. CASE ~Scan!Held
      BY <2>1, <2>2, <2>6, <3>1, <3>3 DEF Scan!FinishTrailer
    <3>. QED
      BY <3>2, <3>3
  <2>7. CASE \/ Scan!ReadHeader \/ Scan!HeaderCut \/ Scan!CheckHeader
             \/ Scan!StringChar \/ Scan!OpenString \/ Scan!OpenNesting
             \/ Scan!CloseNesting \/ Scan!OtherChar \/ Scan!ReadItems
             \/ Scan!ItemsCut \/ Scan!ReadTrailer \/ Scan!TakePending
    BY <2>1, <2>2, <2>7 DEF Scan!ReadHeader, Scan!HeaderCut, Scan!CheckHeader,
       Scan!StringChar, Scan!OpenString, Scan!OpenNesting, Scan!CloseNesting,
       Scan!OtherChar, Scan!ReadItems, Scan!ItemsCut, Scan!ReadTrailer,
       Scan!TakePending, Scan!Scanning
  <2>. QED
    BY <2>1, <2>4, <2>5, <2>6, <2>7 DEF Scan!ScanStep
<1>2. CASE ReadTokens
  <2>1. dec \notin ScannerPorts /\ Tokens!ReadStep /\ UNCHANGED encVars
    BY <1>2 DEF ReadTokens
  <2>2. outcome = "none" <=> dpc # "done"
    BY <2>1 DEF StreamInv, TokenInv
  <2>3. CASE Tokens!ReadElement
    <3>1. dpc = "items" /\ (outcome' = outcome \/ outcome' = "stopped")
          /\ \E e \in Element : yielded' = Append(yielded, e)
      BY <2>3, Zenon DEF Tokens!ReadElement, Tokens!Stop
    <3>. QED
      BY <2>1, <2>2, <3>1
  <2>4. CASE \/ Tokens!ReadEnvelope \/ Tokens!EnvelopeCut \/ Tokens!ReadArrayEnd
             \/ Tokens!SyntaxError \/ Tokens!ItemsCut \/ Tokens!ReadTrailer
             \/ Tokens!TrailerCut
    BY <2>1, <2>2, <2>4 DEF Tokens!ReadEnvelope, Tokens!EnvelopeCut,
       Tokens!ReadArrayEnd, Tokens!SyntaxError, Tokens!ItemsCut,
       Tokens!ReadTrailer, Tokens!TrailerCut
  <2>. QED
    BY <2>1, <2>3, <2>4 DEF Tokens!ReadStep
<1>. QED
  BY <1>1, <1>2

\* A decoder hands over the next value, ends, or does what nobody can see.
LEMMA ConsumerDelivers ==
    ASSUME StreamInv, ScanItems \/ ReadTokens, StreamInv', Prefix'
    PROVE  [Delivery!Next]_Delivery!vars
<1>1. /\ UNCHANGED encVars /\ outcome = "none"
      /\ \/ yielded' = yielded
         \/ /\ \E e \in Element : yielded' = Append(yielded, e)
            /\ outcome' \in {"none", "stopped"}
  BY DecoderShape
<1>2. count' = count /\ source' = source /\ frames' = frames
  BY <1>1 DEF encVars
<1>3. Sent' = Sent /\ Sending' = Sending
  BY <1>2 DEF Sent, Sending, HasStatus
<1>4. Judged = "none"
  BY <1>1 DEF Judged
<1>5. WireInv
  BY DEF StreamInv
<1>6. /\ Sent \in Seq(Element) /\ Len(Sent) = count /\ count \in Nat
      /\ \A i \in 1..count : Sent[i] = source[i]
  BY <1>5, OneStatus
<1>7. CASE yielded' = yielded
  <2>1. CASE outcome' = "none"
    <3>1. Judged' = Judged
      BY <1>4, <2>1 DEF Judged
    <3>. QED
      BY <1>3, <1>7, <3>1, Stutters
  <2>2. CASE outcome' = "clean"
    <3>1. HasStatus("ok")' /\ yielded' = source'
      BY <2>2 DEF StreamInv, VerdictSound
    <3>2. HasStatus("ok") /\ yielded = source
      BY <1>2, <1>7, <3>1 DEF HasStatus
    <3>3. Sending = "completed" /\ yielded = Sent
      BY <1>5, <3>2, OneStatus
    <3>4. Judged' = "clean"
      BY <2>2 DEF Judged
    <3>. QED
      BY <1>3, <1>4, <1>7, <3>3, <3>4, Judges
  <2>3. CASE outcome' = "streamError"
    <3>1. HasStatus("error")' /\ yielded' = Sent'
      BY <2>3 DEF StreamInv, VerdictSound
    <3>2. HasStatus("error") /\ yielded = Sent
      BY <1>2, <1>3, <1>7, <3>1 DEF HasStatus
    <3>3. Sending = "failed"
      BY <1>5, <3>2, OneStatus
    <3>4. Judged' = "streamError"
      BY <2>3 DEF Judged
    <3>. QED
      BY <1>3, <1>4, <1>7, <3>2, <3>3, <3>4, Judges
  <2>4. CASE outcome' \notin {"none", "clean", "streamError"}
    <3>1. Judged' = "aborted"
      BY <2>4 DEF Judged
    <3>. QED
      BY <1>3, <1>4, <1>7, <3>1, Judges
  <2>. QED
    BY <2>1, <2>2, <2>3, <2>4
<1>8. CASE /\ \E e \in Element : yielded' = Append(yielded, e)
           /\ outcome' \in {"none", "stopped"}
  <2>1. PICK e \in Element : yielded' = Append(yielded, e)
    BY <1>8
  <2>2. yielded \in Seq(Element) /\ Len(yielded) \in Nat
    BY LenProperties DEF StreamInv, ScanInv, TokenInv, Prefix
  <2>3. Len(yielded') = Len(yielded) + 1
    BY <2>1, <2>2, AppendProperties
  <2>4. /\ yielded' \in Seq(Element) /\ Len(yielded') <= count
        /\ \A i \in 1..Len(yielded') : yielded'[i] = source[i]
    BY <1>2 DEF Prefix
  <2>5. yielded' = SubSeq(Sent, 1, Len(yielded) + 1)
    <3>. DEFINE n == Len(yielded) + 1
                t == SubSeq(Sent, 1, n)
    <3>1. n \in Nat /\ n > 0 /\ n <= count /\ Len(yielded') = n
      BY <1>6, <2>2, <2>3, <2>4
    <3>. HIDE DEF n
    <3>2. \A i \in 1..n : Sent[i] \in Element
      <4>1. \A i \in 1..n : i \in 1..Len(Sent)
        BY <1>6, <3>1
      <4>. QED
        BY <1>6, <4>1, ElementOfSeq
    <3>3. /\ t \in Seq(Element) /\ Len(t) = n - 1 + 1
          /\ \A i \in 1..n - 1 + 1 : t[i] = Sent[1 + i - 1]
      BY <3>1, <3>2, SubSeqProperties
    <3>. HIDE DEF t
    <3>4. \A i \in 1..n : yielded'[i] = t[i]
      BY <1>6, <2>4, <3>1, <3>3
    <3>5. Len(t) = n
      BY <3>1, <3>3
    <3>6. yielded' = t
      BY <2>4, <3>1, <3>3, <3>4, <3>5, SeqEqual
    <3>. QED
      BY <3>6 DEF t, n
  <2>6. Len(yielded) < Len(Sent)
    BY <1>6, <2>2, <2>3, <2>4
  <2>7. Judged' \in {"none", "aborted"}
    BY <1>8 DEF Judged
  <2>. QED
    BY <1>3, <1>4, <2>5, <2>6, <2>7, Delivers
<1>. QED
  BY <1>1, <1>7, <1>8

\* A connection breaks in one of the ways it can break in.
FaultKnown == fault \in Faults \cup {"none"}

\* No step breaks it in another.
LEMMA FaultStays ==
    ASSUME StreamInv, FaultKnown, [Next]_vars
    PROVE  FaultKnown'
BY DEF FaultKnown, Next, vars, Produce, Disconnect, ScanItems, ReadTokens, netVars

\* No value is lost or altered, no verdict is wrong, and nothing follows a
\* verdict: the scanners, on any connection, and the token readers, on one that
\* does not just end, implement CheckedDelivery.  (A token reader takes the end
\* of the stream for the end of a number: run split_number.)
THEOREM StreamDelivers ==
    ASSUME Decoders \subseteq ScannerPorts \/ "eof" \notin Faults
    PROVE  Spec => DeliverySpec
<1>. DEFINE Inv == StreamInv /\ FaultKnown
<1>1. Init => Inv /\ Delivery!Init
  <2>. SUFFICES ASSUME Init PROVE Inv /\ Delivery!Init
    OBVIOUS
  <2>1. StreamInv
    BY InitStream
  <2>2. FaultKnown
    BY DEF Init, FaultKnown
  <2>3. /\ count = 0 /\ frames = <<>> /\ source = source
        /\ yielded = <<>> /\ outcome = "none"
    BY DEF Init, EncInit, Scan!ScanInit, Tokens!ReadInit
  <2>4. Sent = <<>>
    <3>1. Sent \in Seq(Element) /\ Len(Sent) = 0
      BY <2>1, <2>3, OneStatus DEF StreamInv
    <3>. QED
      BY <3>1, EmptySeq
  <2>5. Sending = "sending" /\ Judged = "none"
    BY <2>3 DEF Sending, Judged, HasStatus
  <2>. QED
    BY <2>1, <2>2, <2>3, <2>4, <2>5 DEF Delivery!Init, Sending, Judged
<1>2. Inv /\ [Next]_vars => Inv'
  BY StreamStep, FaultStays
<1>3. Inv /\ Inv' /\ [Next]_vars => [Delivery!Next]_Delivery!vars
  <2>. SUFFICES ASSUME Inv, Inv', [Next]_vars
                PROVE  [Delivery!Next]_Delivery!vars
    OBVIOUS
  <2>1. Prefix'
    <3>1. dec' \in ScannerPorts \/ fault' # "eof"
      BY DEF FaultKnown, StreamInv, NetInv
    <3>. QED
      BY <3>1 DEF StreamInv, ScanInv, TokenInv
  <2>2. CASE Produce
    BY <2>2, ProducerDelivers
  <2>3. CASE ScanItems \/ ReadTokens
    BY <2>1, <2>3, ConsumerDelivers
  <2>4. CASE Disconnect \/ UNCHANGED vars
    <3>1. /\ source' = source /\ count' = count /\ frames' = frames
          /\ yielded' = yielded /\ outcome' = outcome
      BY <2>4 DEF Disconnect, Break, decVars, vars, encVars
    <3>2. Sent' = Sent /\ Sending' = Sending /\ Judged' = Judged
      BY <3>1 DEF Sent, Sending, Judged, HasStatus
    <3>. QED
      BY <3>1, <3>2, Stutters
  <2>. QED
    BY <2>2, <2>3, <2>4 DEF Next
<1>. QED
  BY <1>1, <1>2, <1>3, PTL DEF Spec, DeliverySpec, Delivery!Spec
=============================================================================
