--------------------------- MODULE MCBinaryStream ---------------------------
(***************************************************************************)
(* Instances for the binary runs.  With Base = 4 the widths 1, 2, 4 and 8  *)
(* hold 4, 16, 256 and 65536 numbers, and the fix forms one value each.    *)
(***************************************************************************)
EXTENDS BinaryStream

Whole(n)   == [k |-> "int", n |-> n]
Str(s)   == [k |-> "str", s |-> s]
Bin(s)   == [k |-> "bin", s |-> s]
Array(s) == [k |-> "array", items |-> s]
Map(f)   == [k |-> "map", fields |-> f]
Nil      == [k |-> "nil"]

\* Both sides of every boundary of the integer widths, and one number that
\* only CBOR of Python and Node can write.
Boundaries ==
    {-32769, -32768, -129, -128, -9, -8, -3, -2, -1,
     0, 1, 2, 3, 4, 15, 16, 255, 256, 32767, 32768, 65535}
Lengths == {0, 1, 2, 3, 4, 15, 16}

Scalars ==
    {Whole(n) : n \in Boundaries}
        \cup {Str([i \in 1..n |-> i % 4]) : n \in Lengths}
        \cup {Bin(<<>>), Bin(<<3>>), Bin(<<0, 1, 2, 3>>)}
        \cup {Array([i \in 1..n |-> Nil]) : n \in {0, 1, 2, 16}}
        \cup {[k |-> "true"], [k |-> "false"],
              [k |-> "float", n |-> 7], [k |-> "float", n |-> 5],
              [k |-> "float32", n |-> 7],
              [k |-> "bigint", n |-> 2], [k |-> "bigint", n |-> -2]}

\* Nested values, one with keys the two orders sort differently.
Nested ==
    {Array(<<Whole(2), Array(<<Nil>>)>>),
     Map((<<0, 1>> :> Array(<<Str(<<1, 1>>)>>)) @@ (<<0>> :> Whole(-3))),
     Map((<<2>> :> Nil) @@ (<<3>> :> Map(<<>> :> Whole(1))))}

MCStreams ==
    {<<>>} \cup {<<v>> : v \in Scalars \cup Nested}
        \cup {<<v, Whole(4)>> : v \in {Str(<<1, 2, 3>>), Array(<<Whole(2), Array(<<Nil>>)>>)}}
        \cup {<<Map(<<0>> :> Str(<<>>)), Map(<<0>> :> Nil)>>}

\* Those values, and all the values inside them.
MCValues ==
    Scalars \cup Nested
        \cup {Nil, Whole(1), Str(<<>>), Str(<<0>>), Str(<<1, 1>>), Str(<<0, 1>>)}
        \cup {Array(<<Nil>>), Array(<<Str(<<1, 1>>)>>), Str(<<2>>), Str(<<3>>),
              Map(<<>> :> Whole(1)), Map(<<0>> :> Str(<<>>)), Map(<<0>> :> Nil)}

MCMaps == {<<v>> : v \in Nested}
=============================================================================
