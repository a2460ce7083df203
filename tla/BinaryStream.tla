---------------------------- MODULE BinaryStream ----------------------------
(***************************************************************************)
(* A MessagePack or CBOR stream from any port's encoder to any port's      *)
(* decoder.  The decoder receives the bytes written up to a cut, where the *)
(* connection broke or the encoder failed: Python, Node, Java and .NET     *)
(* write an element whole or not at all, Go and Rust write it in pieces.   *)
(***************************************************************************)
EXTENDS BinaryCodec, BinaryReader

CONSTANTS
    Encoders,   \* the ports whose encoder may run
    Streams     \* the collections they encode

ASSUME StreamAssumption ==
    /\ Encoders \subseteq Ports
    /\ Streams \subseteq Seq(Values)

VARIABLES
    enc, items,     \* the port that encodes, and what it streams
    arrived, whole  \* elements that arrive and that the decoder accepts, and
                    \* whether the input ends after them

sentVars == <<enc, items, arrived, whole>>
vars     == <<sentVars, readerVars>>

Wire(port) == EncodedArray(port, fmt, items)
Writes(port) == \A i \in DOMAIN items : Writable(port, fmt, items[i])

\* What the application streamed, atom by atom: a float32 arrives as a
\* double and a BigInt as an integer.
Arriving(a) == [a EXCEPT !.k = CASE a.k = "float32" -> "float"
                                 [] a.k = "bigint"  -> "int"
                                 [] OTHER           -> a.k]
Sent == [i \in DOMAIN items |->
            LET parts == Flat(items[i], ByUnits(enc, fmt))
            IN  [j \in DOMAIN parts |-> Arriving(parts[j])]]

\* How many bytes the first n elements take.
Extent(n) == Len(EncodedArray(enc, fmt, SubSeq(items, 1, n)))

\* What a decoder refuses.
Refuses(i) ==
    \E a \in Range(Sent[i]) :
        \/ a.k = "bin" /\ dec \in {"go", "rust", "java"}
        \/ a.k = "int" /\ dec = "rust" /\ a.n < MinInt64

Arrived(n) == Extent(n) <= Len(input) /\ \A i \in 1..n : ~Refuses(i)

Init ==
    /\ enc \in Encoders /\ items \in Streams /\ fmt \in Formats
    /\ Writes(enc)
    /\ \E cut \in 0..Len(Wire(enc)) : input = SubSeq(Wire(enc), 1, cut)
    /\ ReaderInit
    /\ arrived = Max({n \in 0..Len(items) : Arrived(n)})
    /\ whole = (Extent(arrived) = Len(input))

Next == ReaderStep /\ UNCHANGED sentVars

\* The decoder's caller goes on asking for elements.
Spec == Init /\ [][Next]_vars /\ WF_vars(Next)

-----------------------------------------------------------------------------
\* The type invariant.
TypeOK ==
    /\ enc \in Encoders /\ items \in Streams /\ fmt \in Formats
    /\ ReaderTypeOK

\* The values a decoder cannot represent: 64-bit integers past the signed
\* range in Java and .NET, those below it in Go and Rust, floats that are not
\* finite in Rust.
Lossless(a) ==
    CASE a.k = "int" ->
           /\ a.n <= MaxInt64 \/ dec \notin {"java", "dotnet"}
           /\ a.n >= MinInt64 \/ dec \in {"python", "node"}
      [] a.k = "float" -> dec = "rust" => a.n \notin NonFinite
      [] OTHER -> TRUE
Faithfully(i) == \A a \in Range(Sent[i]) : Lossless(a)

\* Elements come out as they went in, in order, whatever the reads, the cut,
\* and the ports at the two ends; only a number a decoder cannot represent
\* comes out as another.
Faithful ==
    /\ Len(yielded) <= Len(items)
    /\ \A i \in DOMAIN yielded : Faithfully(i) => yielded[i] = Sent[i]

\* Nothing that an encoder writes is refused, except byte strings by the three
\* ports without that type and integers out of Rust's range.
RefusedForCause ==
    outcome = "refused" =>
        /\ Len(yielded) < Len(items)
        /\ Refuses(Len(yielded) + 1)

\* A reader holds the argument or text it is taking and one read; Python also
\* keeps up to one read's length of what it has consumed.
LongestTake == Max({8} \cup {a.n : a \in {a \in UNION {Range(Sent[i]) : i \in DOMAIN Sent} :
                                             a.k \in {"str", "bin"}}})
BufferBounded ==
    Len(buf) <= LongestTake + ChunkSize - 1 + (IF dec = "python" THEN ChunkSize ELSE 0)

\* The abstract promise: all elements that arrived are handed over before the
\* iteration ends, up to one the port refuses, and it ends normally only
\* between two elements.
Delivery == INSTANCE ArrayDelivery WITH
    handed  <- Len(yielded),
    verdict <- IF outcome \in {"truncated", "eof", "refused"} THEN "failed" ELSE outcome

DeliverySpec == Delivery!Spec

\* The values for which the ports' MessagePack differs: maps whose keys the
\* two orders sort differently, the float32 of .NET, the BigInt of Node.
PortSpecific(v) ==
    \/ Flat(v, TRUE) # Flat(v, FALSE)
    \/ \E a \in Range(Flat(v, TRUE)) : a.k \in {"float32", "bigint"}

\* All ports that can write a collection write the same bytes: in CBOR always,
\* in MessagePack but for those values.  Looked at before the first read.
SameWire  == \A p \in Encoders : Writes(p) => Wire(p) = Wire(enc)
SameBytes ==
    read = 0 /\ (fmt = "cbor" \/ \A i \in DOMAIN items : ~PortSpecific(items[i]))
        => SameWire

\* The same without exceptions, as the documents have it.
ByteIdentical == read = 0 => SameWire
=============================================================================
