----------------------------- MODULE BinaryCodec -----------------------------
(***************************************************************************)
(* What the encoders of MessagePack and CBOR write for a value.            *)
(*                                                                         *)
(* A value is a record whose field k is "nil", "true", "false", "int" or   *)
(* "bigint" (field n), "float" or "float32" (n, its bits), "str" or "bin"  *)
(* (s, a sequence of digits), "array" (items, a sequence of values) or     *)
(* "map" (fields, a function from texts to values).  A "bigint" is Node's  *)
(* BigInt, a "float32" the single-precision type of Go, Java and .NET.     *)
(*                                                                         *)
(* One digit of a text stands for one character.  The last two stand for   *)
(* the characters on which the orders by UTF-8 bytes and by UTF-16 code    *)
(* units disagree: Base-2 for one of U+E000..U+FFFF, Base-1 for one past   *)
(* U+FFFF, which UTF-16 writes as surrogates, smaller than U+E000.         *)
(***************************************************************************)
EXTENDS BinaryBytes, FiniteSets

CONSTANTS
    Values,     \* the values, and every value inside one
    MaxAtoms,   \* how many atoms make up one value, at most
    PosFix,     \* MessagePack: the largest non-negative fixint (127)
    NegFix,     \* and how far the negative ones reach down (32)
    FixStr,     \* the longest string with its length in the head (31)
    FixLen,     \* the longest array or map (15)
    Immediate   \* CBOR: the largest argument in the head (23)

Ports   == {"python", "node", "go", "rust", "java", "dotnet"}
Formats == {"msgpack", "cbor"}

ASSUME CodecAssumption ==
    /\ PosFix \in 0..MaxInt64 /\ Immediate \in 0..MaxInt64
    /\ NegFix \in Nat /\ FixStr \in Nat /\ FixLen \in Nat /\ MaxAtoms \in Nat

-----------------------------------------------------------------------------
(***************************************************************************)
(* The order of map keys.                                                  *)
(***************************************************************************)
\* A character's rank, by its UTF-16 code units or by its UTF-8 bytes.
Rank(units, c) == CASE units /\ c = Base - 2 -> Base - 1
                    [] units /\ c = Base - 1 -> Base - 2
                    [] OTHER -> c

Precedes(units, s, t) ==
    \E i \in 0..Len(s) :
        /\ i < Len(t)
        /\ \A j \in 1..i : s[j] = t[j]
        /\ i < Len(s) => Rank(units, s[i + 1]) < Rank(units, t[i + 1])

\* Fault: Node's default sort in CBOR too.
ByUnitsInCbor(port, fmt) ==
    port = "node" \/ (fmt = "msgpack" /\ port \in {"java", "dotnet"})

\* Node, Java and .NET sort the keys of a MessagePack map as the language
\* compares strings, by UTF-16 code units; their CBOR encoders sort bytes.
ByUnits(port, fmt) == fmt = "msgpack" /\ port \in {"node", "java", "dotnet"}

KeyOrder(units, keys) ==
    CHOOSE order \in [1..Cardinality(keys) -> keys] :
        \A i, j \in 1..Cardinality(keys) :
            i < j => Precedes(units, order[i], order[j])

-----------------------------------------------------------------------------
(***************************************************************************)
(* A value as the atoms it is made of, outermost first; those of an array  *)
(* or map follow its own, which counts them.  The recursion of the encoder *)
(* appears as a walk: the values still due, the next one first.            *)
(***************************************************************************)
Text(s) == [k |-> "str", s |-> s]

\* A value's own atom, and the values directly inside it.
OwnAtom(v) ==
    CASE v.k \in {"int", "bigint", "float", "float32"} -> Atom(v.k, v.n, <<>>)
      [] v.k \in {"str", "bin"} -> Atom(v.k, Len(v.s), v.s)
      [] v.k = "array" -> Atom("array", Len(v.items), <<>>)
      [] v.k = "map"   -> Atom("map", Cardinality(DOMAIN v.fields), <<>>)
      [] OTHER         -> Atom(v.k, 0, <<>>)
Children(v, units) ==
    CASE v.k = "array" -> v.items
      [] v.k = "map" ->
           LET keys == KeyOrder(units, DOMAIN v.fields)
           IN  [i \in 1..2 * Cardinality(DOMAIN v.fields) |->
                   IF i % 2 = 1 THEN Text(keys[(i + 1) \div 2])
                                ELSE v.fields[keys[i \div 2]]]
      [] OTHER -> <<>>

\* One step of the walk, and the walk over all of a value.
Visit(w, units) ==
    IF w.due = <<>> THEN w
    ELSE [done |-> Append(w.done, OwnAtom(Head(w.due))),
          due  |-> Children(Head(w.due), units) \o Tail(w.due)]
Walk(v, units) ==
    LET walk[i \in 0..MaxAtoms] ==
            IF i = 0 THEN [done |-> <<>>, due |-> <<v>>]
            ELSE LET w == walk[i - 1] IN Visit(w, units)
    IN  walk
Flat(v, units) == Walk(v, units)[MaxAtoms].done

\* What an application streams: integers of any size, floats of 64 and of 32
\* bits, and nothing longer than four bytes can count.
WellFormed(v) ==
    CASE v.k \in {"nil", "true", "false"} -> TRUE
      [] v.k \in {"int", "bigint"} -> v.n \in Int
      [] v.k = "float"   -> v.n \in 0 .. Power[8] - 1
      [] v.k = "float32" -> v.n \in 0 .. Power[4] - 1
      [] v.k \in {"str", "bin"} -> v.s \in Seq(Digit) /\ Len(v.s) < Power[4]
      [] v.k = "array"   -> v.items \in Seq(Values) /\ Len(v.items) < Power[4]
      [] v.k = "map" ->
           LET keys == DOMAIN v.fields
           IN  /\ v.fields \in [keys -> Values] /\ keys \subseteq Seq(Digit)
               /\ IsFiniteSet(keys) /\ Cardinality(keys) < Power[4]
               /\ \A key \in keys : Text(key) \in Values
      [] OTHER -> FALSE

ASSUME ValuesAssumption ==
    \A v \in Values :
        /\ WellFormed(v)
        /\ \A units \in BOOLEAN : Walk(v, units)[MaxAtoms].due = <<>>

\* The integers a port's encoder accepts, and its other types; serde_json
\* has no number that is not finite.
AtomWritable(port, fmt, a) ==
    CASE a.k \in {"int", "bigint"} ->
           /\ a.k = "bigint" => port = "node"
           /\ a.n >= IF fmt = "cbor" /\ port \in {"python", "node"}
                       THEN -Range64 ELSE MinInt64
           /\ a.n <= IF port \in {"java", "dotnet"}
                       THEN MaxInt64 ELSE Range64 - 1
      [] a.k = "bin"     -> port \in {"python", "node", "dotnet"}
      [] a.k = "float32" -> port \in {"go", "java", "dotnet"}
      [] a.k = "float"   -> port = "rust" => a.n \notin NonFinite
      [] OTHER           -> TRUE
Writable(port, fmt, v) ==
    \A a \in Range(Flat(v, ByUnits(port, fmt))) : AtomWritable(port, fmt, a)

-----------------------------------------------------------------------------
(***************************************************************************)
(* The first bytes of a value: its kind with a number it carries itself,   *)
(* or its kind with the width of the number that follows.                  *)
(***************************************************************************)
\* Fault: a width holds one number more than it does.
PrefixOffByOne(kind, inline, widths, n) ==
    IF n <= inline THEN <<Lead(kind, 0, n)>>
    ELSE LET w == Min({w \in widths : n <= Power[w]})
         IN  <<Lead(kind, w, 0)>> \o Digits(n, w)

\* The shortest form: in the head up to inline, in the least width past it.
Prefix(kind, inline, widths, n) ==
    IF n <= inline THEN <<Lead(kind, 0, n)>>
    ELSE LET w == Min({w \in widths : n < Power[w]})
         IN  <<Lead(kind, w, 0)>> \o Digits(n, w)

LenPrefix(kind, n) == Prefix(kind, FixLen, {2, 4}, n)
StrPrefix(n)       == Prefix("str", FixStr, {1, 2, 4}, n)
BinPrefix(n)       == Prefix("bin", -1, {1, 2, 4}, n)
CborHead(kind, n)  == Prefix(kind, Immediate, {1, 2, 4, 8}, n)

\* Fault: the sign bit is taken for one more bit of the number.
NegativeTight(n) ==
    IF n >= -NegFix THEN <<Lead("sint", 0, n)>>
    ELSE LET w == Min({w \in {1, 2, 4, 8} : -n <= Power[w]})
         IN  <<Lead("sint", w, 0)>> \o Digits(n, w)

\* A negative integer in MessagePack: the smallest signed type.
Negative(n) ==
    IF n >= -NegFix THEN <<Lead("sint", 0, n)>>
    ELSE LET w == Min({w \in {1, 2, 4, 8} : -n <= Power[w] \div 2})
         IN  <<Lead("sint", w, 0)>> \o Digits(n, w)

EncodeInt(n) ==
    IF n >= 0 THEN Prefix("uint", PosFix, {1, 2, 4, 8}, n) ELSE Negative(n)

\* Node's MessagePack encoder gives a BigInt all its eight bytes.
EncodeBigInt(n) ==
    <<Lead(IF n >= 0 THEN "uint" ELSE "sint", 8, 0)>> \o Digits(n, 8)

\* .NET's MessagePack encoder keeps a float32 single.
FloatWidth(port, k) == IF k = "float32" /\ port = "dotnet" THEN 4 ELSE 8

Float(n, w) == <<Lead("float", w, 0)>> \o Digits(n, w)
Data(a)     == [i \in DOMAIN a.s |-> Raw(a.s[i])]

MsgPackAtom(port, a) ==
    CASE a.k = "int"    -> EncodeInt(a.n)
      [] a.k = "bigint" -> EncodeBigInt(a.n)
      [] a.k \in {"float", "float32"} -> Float(a.n, FloatWidth(port, a.k))
      [] a.k = "str" -> StrPrefix(a.n) \o Data(a)
      [] a.k = "bin" -> BinPrefix(a.n) \o Data(a)
      [] a.k \in {"array", "map"} -> LenPrefix(a.k, a.n)
      [] OTHER -> <<Lead(a.k, 0, 0)>>

CborAtom(a) ==
    CASE a.k \in {"int", "bigint"} ->
           IF a.n >= 0 THEN CborHead("uint", a.n) ELSE CborHead("nint", -1 - a.n)
      [] a.k \in {"float", "float32"} -> Float(a.n, 8)
      [] a.k \in {"str", "bin"}   -> CborHead(a.k, a.n) \o Data(a)
      [] a.k \in {"array", "map"} -> CborHead(a.k, a.n)
      [] OTHER -> <<Lead(a.k, 0, 0)>>

Encoded(port, fmt, v) ==
    LET parts == Flat(v, ByUnits(port, fmt))
    IN  FlattenSeq([i \in DOMAIN parts |->
            IF fmt = "cbor" THEN CborAtom(parts[i]) ELSE MsgPackAtom(port, parts[i])])

\* A stream is its values back to back.
EncodedArray(port, fmt, values) ==
    FlattenSeq([i \in DOMAIN values |-> Encoded(port, fmt, values[i])])
=============================================================================
