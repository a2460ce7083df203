---------------------------- MODULE MCXmlStream ----------------------------
(***************************************************************************)
(* Instances for the XML runs.                                             *)
(***************************************************************************)
EXTENDS XmlStream

Scalars(t, texts) == {[t |-> t, text |-> text] : text \in texts}
Object(fields)    == [t |-> "object", fields |-> fields]
Array(values)     == [t |-> "array", items |-> values]

NullValue == [t |-> "null", text |-> <<>>]
One       == [t |-> "int", text |-> <<"1">>]
Illegal   == [t |-> "str", text |-> <<"illegal">>]

\* Every character and number that some port treats in its own way, and the
\* empty text.
MCScalars ==
    {NullValue, One, [t |-> "bool", text |-> <<"true">>]}
        \cup Scalars("int", {<<"past53">>, <<"past63">>})
        \cup Scalars("float", {<<"1.5">>, <<"infinite">>, <<"nan">>})
        \cup Scalars("str", {<<>>, <<"lt", "a">>, <<"quote", "tab", "nl">>, <<"cr">>,
                             <<"illegal">>})

MCKeys == {<<>>, <<"a", "lt">>, <<"a", "quote">>, <<"quote", "apos">>, <<"nl">>,
           <<"tab">>, <<"cr">>, <<"backslash", "unprintable">>, <<"illegal">>}

MCShapes ==
    {Array(<<>>), Object(<<>>), Array(<<NullValue, One>>), Array(<<Illegal, One>>),
     Object((<<"a">> :> Array(<<Object(<<"b">> :> NullValue)>>)) @@ (<<"b">> :> One))}

MCNested == MCShapes \cup {Object(k :> One) : k \in MCKeys}

\* Those that another item follows: one for each shape, and one for each kind
\* of key that some decoder refuses or leaves out.
MCFollowed ==
    {NullValue, One} \cup MCShapes
        \cup {Object(k :> One) : k \in {<<>>, <<"a", "quote">>, <<"illegal">>}}

MCStreams ==
    {<<>>} \cup {<<v>> : v \in MCScalars \cup MCNested}
        \cup {<<v, One>> : v \in MCFollowed}
        \cup {<<One, NullValue>>, <<One, Illegal>>}

\* The values in them, at any depth.
MCValues ==
    MCScalars \cup MCNested
        \cup {Array(<<Object(<<"b">> :> NullValue)>>), Object(<<"b">> :> NullValue)}

\* Three items, one of a kind.
MCThree == {<<One, NullValue, One>>}

\* Keys that Python writes and does not read.
MCObjects == {<<Object(k :> One), One>> : k \in {<<"a", "quote">>, <<"illegal">>}}
=============================================================================
