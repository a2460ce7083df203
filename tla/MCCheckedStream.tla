-------------------------- MODULE MCCheckedStream --------------------------
(***************************************************************************)
(* Instances for the end-to-end runs.  The values are chosen for what a    *)
(* scanner can get wrong: "one" and "twelve" are numbers of which the      *)
(* first is a prefix of the second; "text" is a string that holds an       *)
(* escaped quote, a comma and a bracket; "pair" is an object that holds a  *)
(* comma; "accent" has a two-byte character; "deep" nests twice, past what *)
(* .NET's parser accepts here.                                             *)
(***************************************************************************)
EXTENDS CheckedStream

MCDigit   == {"1", "2"}
MCPlain   == MCDigit \cup {"lead", "trail", "undefined"}
MCForeign == Element \cap {"undef"}

MCText == [e \in Element |->
    CASE e = "one"    -> <<"1">>
      [] e = "twelve" -> <<"1", "2">>
      [] e = "text"   -> <<"quote", "backslash", "quote", "]", ",", "quote">>
      [] e = "pair"   -> <<"{", "1", ",", "}">>
      [] e = "accent" -> <<"quote", "lead", "trail", "quote">>
      [] e = "deep"   -> <<"[", "[", "]", "]">>
      [] e = "undef"  -> <<"undefined">>]

MCParserDepth == [python |-> 0, node |-> 0, rust |-> 2,
                  go |-> 1, java |-> 1, dotnet |-> 1]
=============================================================================
