----------------------------- MODULE MCJsonArrays -----------------------------
(***************************************************************************)
(* Instances for the bare array runs: numbers of one and two digits, a     *)
(* string that holds an escaped quote, a comma and a bracket, values that  *)
(* nest up to three deep, and a text that is not JSON.  Rust's parser and  *)
(* Java's stop where the guard would still go on.                          *)
(***************************************************************************)
EXTENDS JsonArrays

MCDigit   == {"1", "2"}
MCPlain   == MCDigit \cup {"NaN"}
MCForeign == Element \cap {"nan"}

MCText == [e \in Element |->
    CASE e = "one"    -> <<"1">>
      [] e = "twelve" -> <<"1", "2">>
      [] e = "text"   -> <<"quote", "backslash", "quote", "]", ",", "quote">>
      [] e = "pair"   -> <<"{", "1", ",", "}">>
      [] e = "deep"   -> <<"[", "[", "]", "]">>
      [] e = "deeper" -> <<"[", "[", "[", "]", "]", "]">>
      [] e = "nan"    -> <<"NaN">>]

MCParserDepth == [python |-> 0, node |-> 0, rust |-> 1,
                  go |-> 2, java |-> 1, dotnet |-> 1]
=============================================================================
