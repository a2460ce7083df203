----------------------------- MODULE BinaryBytes -----------------------------
(***************************************************************************)
(* The bytes of the two binary formats, MessagePack and CBOR, on a smaller *)
(* scale: a byte has Base values, where the real one has 256, and widths   *)
(* are the real ones (1, 2, 4 and 8 bytes).  The first byte of a value is  *)
(* a record: the kind of value it announces, the width of the argument     *)
(* that follows it, and, when nothing follows, the argument itself.        *)
(***************************************************************************)
EXTENDS Integers, Sequences, SequencesExt

CONSTANTS
    Base,       \* the values of a byte, an even number
    NonFinite   \* the bits of a float that is not a number or infinite

ASSUME BaseAssumption ==
    /\ Base \in Nat \ {0} /\ Base % 2 = 0
    /\ NonFinite \subseteq Nat

Digit == 0 .. Base - 1

\* How many numbers w bytes have.
Power[w \in 0..8] == IF w = 0 THEN 1 ELSE Base * Power[w - 1]

Range64   == Power[8]
MaxInt64  == Power[8] \div 2 - 1
MinInt64  == -(Power[8] \div 2)

\* What a value is made of: scalars, and the counts of arrays and maps.
Atom(k, n, s) == [k |-> k, n |-> n, s |-> s]

Lead(k, w, n) == [kind |-> k, width |-> w, n |-> n]
Raw(d)        == Lead("raw", 0, d)

\* The argument of a head, most significant byte first, and back.  A signed
\* argument is written and read as its two's complement.
Digits(n, w) ==
    [i \in 1..w |-> Raw(((n % Power[w]) \div Power[w - i]) % Base)]
Number(bytes) ==
    LET upTo[i \in 0..Len(bytes)] ==
            IF i = 0 THEN 0 ELSE upTo[i - 1] * Base + bytes[i].n
    IN  upTo[Len(bytes)]
Signed(n, w) == IF n >= Power[w] \div 2 THEN n - Power[w] ELSE n
=============================================================================
