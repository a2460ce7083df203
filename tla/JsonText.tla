------------------------------ MODULE JsonText ------------------------------
(***************************************************************************)
(* JSON texts as sequences of symbols.  The seven symbols of Punctuation   *)
(* are the characters the decoders branch on; "lead" is the first byte of  *)
(* a two-byte character; every other symbol stands for text no decoder     *)
(* looks into (a digit, a letter, or a fixed word such as "complete": ).   *)
(***************************************************************************)
EXTENDS Integers, Sequences

CONSTANTS
    Element,    \* the values an application streams
    Foreign,    \* those whose text is not JSON: Node's checked encoder writes
                \* undefined for undefined, Python's encoders NaN for nan
    Plain,      \* the symbols of their JSON texts that are not punctuation
    Digit,      \* those among Plain that numbers are made of
    Text,       \* the JSON text of each value, a sequence of symbols
    ParserDepth \* how deep a value in an array may nest for each port's JSON
                \* parser, 0 for any: 127 in serde_json, 64 in
                \* System.Text.Json, just below 1000 in Jackson, 10000 in
                \* encoding/json, the interpreter's stack in Python, any in Node

Punctuation == {"{", "}", "[", "]", ",", "quote", "backslash"}
Keyword     == {"items", "complete", "true", "false", "error", "message"}
Symbol      == Punctuation \cup Keyword \cup Plain

Numbers == {e \in Element : \A i \in DOMAIN Text[e] : Text[e][i] \in Digit}

\* No value is written as nothing, and two values have two texts.
ASSUME TextAssumption ==
    /\ Foreign \subseteq Element
    /\ Digit \subseteq Plain
    /\ Text \in [Element -> Seq(Symbol) \ {<<>>}]
    /\ \A e, f \in Element : Text[e] = Text[f] => e = f

-----------------------------------------------------------------------------
(***************************************************************************)
(* The lexical state of the character scanners, and what the grammar of    *)
(* JSON says about it: inside the text of a value there is no comma and no *)
(* "]" that a scanner takes for the end of the value, and after it the     *)
(* scanner is where it began.                                              *)
(***************************************************************************)
Fresh == [depth |-> 0, inString |-> FALSE, escape |-> FALSE]

Lex(s, c) ==
    IF s.inString
      THEN [s EXCEPT !.escape   = ~s.escape /\ c = "backslash",
                     !.inString = s.escape \/ c # "quote"]
      ELSE [s EXCEPT !.inString = (c = "quote"),
                     !.depth = IF c \in {"{", "["} THEN @ + 1
                               ELSE IF c \in {"}", "]"} THEN @ - 1 ELSE @]

EndsValue(s, c) == ~s.inString /\ s.depth = 0 /\ c \in {",", "]"}

\* The state after the first i symbols of a text.
Lexed(text) ==
    LET at[i \in 0..Len(text)] ==
            IF i = 0 THEN Fresh ELSE Lex(at[i - 1], text[i])
    IN  at

ASSUME LexAssumption ==
    \A e \in Element :
        LET text == Text[e]
            at   == Lexed(text)
        IN  /\ \A i \in 1..Len(text) :
                  at[i].depth \in Nat /\ ~EndsValue(at[i - 1], text[i])
            /\ at[Len(text)] = Fresh
            /\ text[Len(text)] # "lead"

\* The text of a value begins that of another only if both are numbers, and
\* only numbers begin with a digit.
ASSUME NumberAssumption ==
    /\ Plain \cap Punctuation = {}
    /\ Foreign \cap Numbers = {}
    /\ \A e \in Element : Text[e][1] \in Digit => e \in Numbers
    /\ \A e, f \in Element :
          /\ Len(Text[e]) < Len(Text[f])
          /\ \A i \in 1..Len(Text[e]) : Text[f][i] = Text[e][i]
          => e \in Numbers /\ f \in Numbers

ASSUME ParserAssumption ==
    ParserDepth \in [{"python", "node", "rust", "go", "java", "dotnet"} -> Nat]

-----------------------------------------------------------------------------
\* Nesting past a limit, at some symbol of a text.
Past(limit, depth)     == limit > 0 /\ depth > limit
NestsPast(text, limit) == \E i \in 0..Len(text) : Past(limit, Lexed(text)[i].depth)

\* What json.loads and its counterparts make of a slice of an array: the value
\* it is the text of, or a parse error.
Parsable(port) ==
    {e \in Element \ Foreign : ~NestsPast(Text[e], ParserDepth[port])}
IsValue(port, segment) ==
    \E e \in Element : Text[e] = segment /\ e \in Parsable(port)
ValueOf(segment)       == CHOOSE e \in Element : Text[e] = segment
=============================================================================
