---------------------------- MODULE CheckedWire ----------------------------
(***************************************************************************)
(* The wire of a checked stream: a JSON envelope whose terminal status is  *)
(* written last.                                                           *)
(*                                                                         *)
(*     {"items":[ e0, e1, ... ],"complete":true}                           *)
(*     {"items":[ e0, e1, ... ],"complete":false,"error":{...}}            *)
(***************************************************************************)
EXTENDS JsonText

\* The fixed parts of the envelope.  "]" closes the array before a trailer.
Header       == <<"{", "items", "[">>
OkTrailer    == <<",", "complete", "true", "}">>
ErrorTrailer == <<",", "complete", "false", ",", "error",
                  "{", "message", "}", "}">>

Status(ok) == <<"]">> \o (IF ok THEN OkTrailer ELSE ErrorTrailer)

(***************************************************************************)
(* The verdict a decoder reaches on the text that follows the "]" of the   *)
(* items array once the stream has ended.  The trailer is parsed as the    *)
(* object left after putting back the "{" and dropping the comma, so only  *)
(* a whole trailer parses: a proper prefix has no closing "}".             *)
(***************************************************************************)
TrailerVerdict(trailer) ==
    CASE trailer = <<>>         -> "truncated"
      [] trailer = OkTrailer    -> "clean"
      [] trailer = ErrorTrailer -> "streamError"
      [] OTHER                  -> "malformed"
=============================================================================
