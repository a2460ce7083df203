------------------------- MODULE CheckedTokenReader -------------------------
(***************************************************************************)
(* The consuming end of a checked stream in Go and Java: the envelope is   *)
(* read token by token with the language's streaming JSON parser           *)
(* (encoding/json's Decoder, Jackson's JsonParser), elements are pushed to *)
(* the caller's function, and the trailer's fields set two flags.          *)
(*                                                                         *)
(* The parsers are external code.  What they contribute is in NextElement: *)
(* how many symbols a value takes, when they need one more symbol to know, *)
(* and what they do when the stream ends inside one.                       *)
(***************************************************************************)
EXTENDS CheckedWire

CONSTANTS
    Readers     \* the ports that may run, a subset of {"go", "java"}

VARIABLES
    input, conn,        \* the connection, as in CheckedScanner
    dec,                \* the port that runs
    dpc,                \* "header", "items", "trailer" or "done"
    read,               \* symbols consumed by the parser
    yielded, outcome    \* as in CheckedScanner

readVars == <<dec, dpc, read, yielded, outcome>>

-----------------------------------------------------------------------------
ReadInit ==
    /\ dec \in Readers
    /\ dpc = "header"
    /\ read = 0
    /\ yielded = <<>>
    /\ outcome = "none"

Rest  == SubSeq(input, read + 1, Len(input))
Ended == conn # "open"

\* Fault: the end of the stream is taken for the end of the array.
CutOutcomeClean == IF conn = "reset" THEN "ioError" ELSE "clean"

\* truncatedOr, next and expect take the parser's report of an unexpected end
\* for a truncated stream; an error of the reader passes through.
CutOutcome == IF conn = "reset" THEN "ioError" ELSE "truncated"

Stop(v) == outcome' = v /\ dpc' = "done"

-----------------------------------------------------------------------------
ReadEnvelope ==
    /\ dpc = "header"
    /\ Len(Rest) >= Len(Header)
    /\ IF SubSeq(Rest, 1, Len(Header)) = Header
         THEN dpc' = "items" /\ UNCHANGED outcome
         ELSE Stop("malformed")
    /\ read' = read + Len(Header)
    /\ UNCHANGED <<dec, yielded>>

EnvelopeCut ==
    /\ dpc = "header"
    /\ Len(Rest) < Len(Header)
    /\ Ended
    /\ Stop(CutOutcome)
    /\ UNCHANGED <<dec, read, yielded>>

-----------------------------------------------------------------------------
\* The next position in the items array: after the comma that must follow a
\* value, if it has arrived.
AfterComma == Len(yielded) > 0 /\ Rest # <<>> /\ Rest[1] = ","
Value      == IF AfterComma THEN Tail(Rest) ELSE Rest
Skipped    == Len(Rest) - Len(Value)

\* A number has no closing delimiter: the parsers read one more symbol to see
\* where it ends, or take the end of the stream for it.
Begins(t)  == Len(t) <= Len(Value) /\ SubSeq(Value, 1, Len(t)) = t
Delimited(e) ==
    e \in Numbers =>
        IF Len(Value) > Len(Text[e]) THEN Value[Len(Text[e]) + 1] \notin Digit
                                     ELSE conn = "closed"
NextElement(e) == Begins(Text[e]) /\ Delimited(e)

\* The parsers count the nesting as they go, so a value that is too deep for
\* them is refused before it has arrived.
TooDeep ==
    \E e \in Element : \E n \in 1..Len(Text[e]) :
        /\ Begins(SubSeq(Text[e], 1, n))
        /\ Past(ParserDepth[dec], Lexed(Text[e])[n].depth)

\* The caller's function may stop the iteration with an error of its own.
ReadElement ==
    /\ dpc = "items"
    /\ Len(yielded) > 0 => AfterComma
    /\ \E e \in Element :
          /\ NextElement(e) /\ e \in Parsable(dec)
          /\ yielded' = Append(yielded, e)
          /\ read' = read + Skipped + Len(Text[e])
    /\ \/ UNCHANGED <<dpc, outcome>>
       \/ Stop("stopped")
    /\ UNCHANGED dec

ReadArrayEnd ==
    /\ dpc = "items"
    /\ ~AfterComma /\ Rest # <<>> /\ Rest[1] = "]"
    /\ read' = read + 1
    /\ dpc' = "trailer"
    /\ UNCHANGED <<dec, yielded, outcome>>

\* A comma with no element after it, a value nested too deep, or text that is
\* no JSON value, is a syntax error in both parsers.
SyntaxError ==
    /\ dpc = "items"
    /\ Value # <<>>
    /\ \/ AfterComma /\ Value[1] = "]"
       \/ TooDeep
       \/ \E e \in Foreign : Begins(Text[e])
    /\ Stop("malformed")
    /\ UNCHANGED <<dec, read, yielded>>

\* The stream ends where a value should be, or inside one.  Java's
\* MAPPER.readValue is called outside the method that turns Jackson's
\* end-of-input exception into a truncation, so there the exception of a value
\* that had begun reaches the caller as it is.
ItemsCut ==
    /\ dpc = "items"
    /\ Ended
    /\ Value # <<>> => Value[1] # "]"
    /\ ~TooDeep
    /\ \A e \in Element : ~(Begins(Text[e]) /\ Delimited(e))
    /\ Stop(IF dec = "java" /\ conn = "closed" /\ Value # <<>>
              THEN "malformed" ELSE CutOutcome)
    /\ UNCHANGED <<dec, read, yielded>>

-----------------------------------------------------------------------------
\* The trailer's fields up to the "}" that ends the envelope; the flags
\* seenComplete and complete determine the verdict.
ReadTrailer ==
    /\ dpc = "trailer"
    /\ \E t \in {OkTrailer, ErrorTrailer} :
          /\ Len(Rest) >= Len(t) /\ SubSeq(Rest, 1, Len(t)) = t
          /\ read' = read + Len(t)
          /\ Stop(TrailerVerdict(t))
    /\ UNCHANGED <<dec, yielded>>

\* The position of the error payload's first symbol and of its last one.
PayloadFrom == 6
PayloadTo   == 8

\* As for elements, Java reads the error payload with MAPPER.readTree, outside
\* the method that maps the end of input.
TrailerCut ==
    /\ dpc = "trailer"
    /\ Ended
    /\ \A t \in {OkTrailer, ErrorTrailer} :
          ~(Len(Rest) >= Len(t) /\ SubSeq(Rest, 1, Len(t)) = t)
    /\ Stop(IF /\ dec = "java" /\ conn = "closed"
               /\ Len(Rest) \in PayloadFrom..(PayloadTo - 1)
              THEN "malformed" ELSE CutOutcome)
    /\ UNCHANGED <<dec, read, yielded>>

ReadStep ==
    \/ ReadEnvelope \/ EnvelopeCut
    \/ ReadElement \/ ReadArrayEnd \/ SyntaxError \/ ItemsCut
    \/ ReadTrailer \/ TrailerCut
=============================================================================
