-------------------------- MODULE MCCheckedEncoder --------------------------
(***************************************************************************)
(* Instance for the encoder runs: a number, a string and a value with no   *)
(* JSON text.                                                              *)
(***************************************************************************)
EXTENDS CheckedEncoder

MCPlain == {"1", "a", "undefined"}
MCText  == [e \in Element |->
    CASE e = "one"   -> <<"1">>
      [] e = "word"  -> <<"quote", "a", "quote">>
      [] e = "undef" -> <<"undefined">>]
MCParserDepth == [p \in Ports |-> 0]
MCEncoders == Ports
=============================================================================
