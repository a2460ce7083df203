------------------------------ MODULE JsonArrays ------------------------------
(***************************************************************************)
(* A bare JSON array, [e0,e1,...], from an encoder through a connection to *)
(* a decoder.  An encoder that fails leaves the array open; the connection *)
(* delivers the symbols written up to a cut, in reads of any size, and     *)
(* then ends.                                                              *)
(*                                                                         *)
(* The decoders come in three kinds.  Node and Rust scan: they cut the     *)
(* text at its outermost commas.  Python parses: the json module's         *)
(* raw_decode takes one value at the cursor, and when it cannot the buffer *)
(* is refilled.  Go and Java pull from the language's streaming parser,    *)
(* external code that reads ahead as it needs.  The .NET decoder is one    *)
(* call of System.Text.Json and has no definition here.                    *)
(***************************************************************************)
EXTENDS JsonText, SequencesExt

CONSTANTS
    Encoders,   \* the ports whose encoder may run
    Decoders,   \* the ports whose decoder may run
    MaxItems,   \* the most values in one array
    ChunkSize,  \* the most symbols one read returns
    CompactAt,  \* Node drops its consumed prefix once it is this long (65536)
    MaxDepth    \* the deepest nesting the guard of Python, Node and Rust
                \* accepts (200), 0 for any

VARIABLES
    enc, items, ending,     \* the encoder, the values it wrote, how it ended
    wire, cut,              \* what it wrote, the symbols of it that arrive
    dec, dpc,               \* the decoder, in "start", "scan" or "done"
    read, buf, pos,         \* symbols taken, the text held, the cursor
    elemStart, lex,         \* scanners: the slice's start, the lexical state
    yielded,                \* the texts of the values handed to the caller
    outcome,                \* "none", "complete", "failed" or "stopped"
    arrived, whole          \* values whose text arrives and is accepted, and
                            \* whether the iteration may end after them

wireVars == <<enc, items, ending, wire, cut, arrived, whole>>
decVars  == <<dec, dpc, read, buf, pos, elemStart, lex, yielded, outcome>>
vars     == <<wireVars, decVars>>

Parsers  == {"python"}
ScanPorts == {"node", "rust"}
PullPorts == {"go", "java"}

ASSUME ArraysAssumption ==
    /\ Encoders \subseteq {"python", "node", "rust", "go", "java", "dotnet"}
    /\ Decoders \subseteq Parsers \cup ScanPorts \cup PullPorts
    /\ MaxItems \in Nat /\ MaxDepth \in Nat
    /\ ChunkSize \in Nat \ {0} /\ CompactAt \in Nat \ {0}

-----------------------------------------------------------------------------
(***************************************************************************)
(* Encoders.  Four write the comma before they encode the value it         *)
(* precedes, so a value that cannot be encoded leaves the comma behind;    *)
(* Jackson and Utf8JsonWriter write it with the value.  Jackson's          *)
(* generator closes every open array when it is closed, as the Java        *)
(* encoder's try-with-resources does however the loop ended.  Only         *)
(* Python's encoder writes a text that is not JSON (NaN).                  *)
(***************************************************************************)
CommaFirst(port) == port \in {"python", "node", "rust", "go"}
AutoCloses(port) == port = "java"
Writable(port)   == IF port = "python" THEN Element ELSE Element \ Foreign

\* The text of the first k values, for each k.
Comma(k) == IF k > 1 THEN <<",">> ELSE <<>>
Joined(values) ==
    LET text[k \in 0..Len(values)] ==
            IF k = 0 THEN <<>>
            ELSE text[k - 1] \o Comma(k) \o Text[values[k]]
    IN  text

Closed == ending = "returned" \/ AutoCloses(enc)

Written ==
    <<"[">> \o Joined(items)[Len(items)]
        \o (IF ending = "encodeFails" /\ items # <<>> /\ CommaFirst(enc)
              THEN <<",">> ELSE <<>>)
        \o (IF Closed THEN <<"]">> ELSE <<>>)

Input     == SubSeq(wire, 1, cut)
Truncated == cut < Len(wire)

-----------------------------------------------------------------------------
(***************************************************************************)
(* What arrives.  A decoder refuses a value nested past its guard's limit  *)
(* or past its parser's own, which may be the lower one, and a text that   *)
(* is not JSON.  The scanners know a value by the separator after it; in   *)
(* Python the input may also end between two values.                       *)
(***************************************************************************)
Sent == [i \in DOMAIN items |-> Text[items[i]]]
Refused(e) ==
    \/ dec \notin PullPorts /\ NestsPast(Text[e], MaxDepth)
    \/ NestsPast(Text[e], ParserDepth[dec])
    \/ e \in Foreign /\ dec # "python"
Accepted  == LET bad == {i \in DOMAIN items : Refused(items[i])}
             IN  IF bad = {} THEN Sent ELSE SubSeq(Sent, 1, Min(bad) - 1)
Intact == ending = "returned" /\ ~Truncated

Extent(n)  == 1 + Len(Joined(items)[n])
Arrived(n) == Extent(n) + (IF dec \in ScanPorts THEN 1 ELSE 0) <= cut
Whole(n)   ==
    \/ ~Truncated /\ Closed /\ Accepted = Sent
    \/ dec = "python" /\ (cut = Extent(n) \/ (n > 0 /\ cut = Extent(n) + 1))

-----------------------------------------------------------------------------
Init ==
    /\ enc \in Encoders
    /\ items \in SeqOf(Writable(enc), MaxItems)
    /\ ending \in {"returned", "sourceFails", "encodeFails"}
    /\ wire = Written
    /\ cut \in 0..Len(wire)
    /\ dec \in Decoders
    /\ arrived = Max({0} \cup {n \in 1..Len(Accepted) : Arrived(n)})
    /\ whole = Whole(arrived)
    /\ dpc = "start"
    /\ read = 0 /\ buf = <<>> /\ pos = 0 /\ elemStart = 0
    /\ lex = Fresh
    /\ yielded = <<>> /\ outcome = "none"

Stop(v)   == outcome' = v /\ dpc' = "done"
Starved   == pos = Len(buf)
AtEnd     == read = Len(Input)
Char      == buf[pos + 1]
View      == SubSeq(buf, pos + 1, Len(buf))
Accept(t) == yielded' = Append(yielded, t)

\* One read returns the next symbols of the input.
Chunk(n) ==
    /\ read + n <= Len(Input)
    /\ read' = read + n

-----------------------------------------------------------------------------
\* The opening bracket, in Python, Node and Rust.
Buffered == dec \notin PullPorts

Open ==
    /\ Buffered /\ dpc = "start" /\ ~Starved
    /\ IF Char = "["
         THEN /\ dpc' = "scan" /\ UNCHANGED outcome
              /\ IF dec = "rust"
                   THEN buf' = Tail(buf) /\ pos' = 0
                   ELSE pos' = pos + 1 /\ UNCHANGED buf
              /\ elemStart' = IF dec = "node" THEN pos + 1 ELSE 0
         ELSE Stop("failed") /\ UNCHANGED <<buf, pos, elemStart>>
    /\ UNCHANGED <<wireVars, dec, read, lex, yielded>>

\* Node and Rust compact at separators, Python when it refills: below.
Refill ==
    /\ dec \in ScanPorts \/ dpc = "start"
    /\ Buffered /\ dpc # "done" /\ Starved
    /\ \E n \in 1..ChunkSize :
          /\ Chunk(n)
          /\ buf' = buf \o SubSeq(Input, read + 1, read + n)
    /\ UNCHANGED <<wireVars, dec, dpc, pos, elemStart, lex, yielded, outcome>>

-----------------------------------------------------------------------------
\* Node and Rust.
Scanning == dec \in ScanPorts /\ dpc = "scan" /\ ~Starved
Slice    == SubSeq(buf, elemStart + 1, pos)
Outermost(c) == ~lex.inString /\ lex.depth = 0 /\ Char = c

ScanChar ==
    /\ Scanning
    /\ ~Outermost(",") /\ ~Outermost("]")
    /\ lex' = Lex(lex, Char)
    /\ IF Past(MaxDepth, lex'.depth)
         THEN Stop("failed") /\ UNCHANGED pos
         ELSE pos' = pos + 1 /\ UNCHANGED <<dpc, outcome>>
    /\ UNCHANGED <<wireVars, dec, read, buf, elemStart, yielded>>

\* A slice ends at position pos.  Node passes over an empty one.
TakeSlice ==
    IF IsValue(dec, Slice)
      THEN Accept(Slice) /\ UNCHANGED <<dpc, outcome>>
      ELSE IF Slice = <<>> /\ dec = "node"
             THEN UNCHANGED <<dpc, yielded, outcome>>
             ELSE Stop("failed") /\ UNCHANGED yielded

\* Fault: nothing is ever dropped.
SeparatorKeepsAll ==
    /\ Scanning /\ Outermost(",")
    /\ TakeSlice
    /\ pos' = pos + 1 /\ elemStart' = pos + 1 /\ UNCHANGED buf
    /\ UNCHANGED <<wireVars, dec, read, lex>>

Separator ==
    /\ Scanning /\ Outermost(",")
    /\ TakeSlice
    /\ IF dec = "rust" \/ pos + 1 >= CompactAt
         THEN buf' = SubSeq(buf, pos + 2, Len(buf)) /\ pos' = 0 /\ elemStart' = 0
         ELSE pos' = pos + 1 /\ elemStart' = pos + 1 /\ UNCHANGED buf
    /\ UNCHANGED <<wireVars, dec, read, lex>>

\* Fault: the value before the bracket has no comma after it.
CloseArrayDropsLast ==
    /\ Scanning /\ Outermost("]")
    /\ Stop("complete")
    /\ UNCHANGED <<wireVars, dec, read, buf, pos, elemStart, lex, yielded>>

CloseArray ==
    /\ Scanning /\ Outermost("]")
    /\ IF Slice = <<>> THEN Stop("complete") /\ UNCHANGED yielded
       ELSE IF IsValue(dec, Slice) THEN Stop("complete") /\ Accept(Slice)
       ELSE Stop("failed") /\ UNCHANGED yielded
    /\ UNCHANGED <<wireVars, dec, read, buf, pos, elemStart, lex>>

\* Fault: the end of the stream is taken for the end of the array.
ScanCutQuiet ==
    /\ dec \in ScanPorts \/ dpc = "start"
    /\ Buffered /\ dpc # "done" /\ Starved /\ AtEnd
    /\ Stop("complete")
    /\ UNCHANGED <<wireVars, dec, read, buf, pos, elemStart, lex, yielded>>

\* The stream ends before the array is closed.
ScanCut ==
    /\ dec \in ScanPorts \/ dpc = "start"
    /\ Buffered /\ dpc # "done" /\ Starved /\ AtEnd
    /\ Stop("failed")
    /\ UNCHANGED <<wireVars, dec, read, buf, pos, elemStart, lex, yielded>>

-----------------------------------------------------------------------------
(***************************************************************************)
(* What a value parser takes from the start of a text: all of the digits   *)
(* it sees, or the text of some value that is not a number; nothing when   *)
(* the text holds no whole value.  Go's and Java's parsers take none that  *)
(* nests too deep for them; Python's json module, which also reads NaN,    *)
(* raises a RecursionError on one: see RawDecode.                          *)
(***************************************************************************)
DigitRun(text) ==
    Max({n \in 0..Len(text) : \A i \in 1..n : text[i] \in Digit})
Parsed(text) ==
    IF DigitRun(text) > 0 THEN {SubSeq(text, 1, DigitRun(text))}
    ELSE {Text[e] : e \in {e \in Element :
             /\ IsPrefix(Text[e], text)
             /\ dec = "python" \/ e \in Parsable(dec)}}

\* Python.  After commas, "]" ends the array, a value is parsed, checked and
\* yielded, and anything else waits for more text.
Parsing == dec = "python" /\ dpc = "scan"

SkipComma ==
    /\ Parsing /\ ~Starved /\ Char = ","
    /\ pos' = pos + 1
    /\ UNCHANGED <<wireVars, dec, dpc, read, buf, elemStart, lex, yielded, outcome>>

ParseClose ==
    /\ Parsing /\ ~Starved /\ Char = "]"
    /\ Stop("complete")
    /\ UNCHANGED <<wireVars, dec, read, buf, pos, elemStart, lex, yielded>>

\* RecursionError comes before the value is whole and passes through; here it
\* is raised when the value is, which ends the iteration after the same values.
RawDecode ==
    /\ Parsing
    /\ \E t \in Parsed(View) :
          /\ pos' = pos + Len(t)
          /\ IF NestsPast(t, ParserDepth[dec]) \/ NestsPast(t, MaxDepth)
               THEN Stop("failed") /\ UNCHANGED yielded
               ELSE Accept(t) /\ UNCHANGED <<dpc, outcome>>
    /\ UNCHANGED <<wireVars, dec, read, buf, elemStart, lex>>

Stuck == ~Starved => Char \notin {",", "]"} /\ Parsed(View) = {}

\* Fault: the cursor is not moved with the text.
FillStaleCursor ==
    /\ Parsing /\ Stuck
    /\ \E n \in 1..ChunkSize :
          /\ Chunk(n)
          /\ buf' = View \o SubSeq(Input, read + 1, read + n)
    /\ pos' = pos
    /\ UNCHANGED <<wireVars, dec, dpc, elemStart, lex, yielded, outcome>>

Fill ==
    /\ Parsing /\ Stuck
    /\ \E n \in 1..ChunkSize :
          /\ Chunk(n)
          /\ buf' = View \o SubSeq(Input, read + 1, read + n)
    /\ pos' = 0
    /\ UNCHANGED <<wireVars, dec, dpc, elemStart, lex, yielded, outcome>>

\* Fault: the end of the stream is noticed between values only, so a value
\* that was begun is waited for again and again.
FillFailsStarved ==
    /\ Parsing /\ Starved /\ AtEnd
    /\ Stop("complete")
    /\ UNCHANGED <<wireVars, dec, read, buf, pos, elemStart, lex, yielded>>

\* At the end of the stream a value that was begun is an error, and the end
\* between values is taken for the end of the array.
FillFails ==
    /\ Parsing /\ Stuck /\ AtEnd
    /\ Stop(IF Starved THEN "complete" ELSE "failed")
    /\ UNCHANGED <<wireVars, dec, read, buf, pos, elemStart, lex, yielded>>

-----------------------------------------------------------------------------
(***************************************************************************)
(* Go and Java.  read is the parser's position.  A number is delimited by  *)
(* the symbol after it or by the end of the stream.                        *)
(***************************************************************************)
Pulling   == dec \in PullPorts /\ dpc = "scan"
Rest      == SubSeq(Input, read + 1, Len(Input))
Separated == yielded # <<>> /\ Rest # <<>> /\ Rest[1] = ","
NextText  == IF Separated THEN Tail(Rest) ELSE Rest

PullOpen ==
    /\ dec \in PullPorts /\ dpc = "start"
    /\ IF Rest # <<>> /\ Rest[1] = "["
         THEN dpc' = "scan" /\ read' = read + 1 /\ UNCHANGED outcome
         ELSE Stop("failed") /\ UNCHANGED read
    /\ UNCHANGED <<wireVars, dec, buf, pos, elemStart, lex, yielded>>

\* The caller's function may stop the iteration with an error of its own.
PullElement ==
    /\ Pulling
    /\ yielded # <<>> => Separated
    /\ \E t \in Parsed(NextText) :
          /\ Accept(t)
          /\ read' = read + Len(Rest) - Len(NextText) + Len(t)
    /\ \/ UNCHANGED <<dpc, outcome>>
       \/ Stop("stopped")
    /\ UNCHANGED <<wireVars, dec, buf, pos, elemStart, lex>>

PullClose ==
    /\ Pulling
    /\ ~Separated /\ Rest # <<>> /\ Rest[1] = "]"
    /\ read' = read + 1
    /\ Stop("complete")
    /\ UNCHANGED <<wireVars, dec, buf, pos, elemStart, lex, yielded>>

\* A syntax error, or the end of the stream where something should follow.
PullFails ==
    /\ Pulling
    /\ Parsed(NextText) = {} \/ (yielded # <<>> /\ ~Separated)
    /\ Rest # <<>> /\ ~Separated => Rest[1] # "]"
    /\ Stop("failed")
    /\ UNCHANGED <<wireVars, dec, read, buf, pos, elemStart, lex, yielded>>

-----------------------------------------------------------------------------
Next ==
    \/ Open \/ Refill \/ ScanChar \/ Separator \/ CloseArray \/ ScanCut
    \/ SkipComma \/ ParseClose \/ RawDecode \/ Fill \/ FillFails
    \/ PullOpen \/ PullElement \/ PullClose \/ PullFails

\* The decoder's caller goes on asking for elements.
Spec == Init /\ [][Next]_vars /\ WF_vars(Next)

-----------------------------------------------------------------------------
\* The type invariant.
TypeOK ==
    /\ enc \in Encoders /\ items \in Seq(Element)
    /\ cut \in 0..Len(wire)
    /\ dec \in Decoders /\ dpc \in {"start", "scan", "done"}
    /\ read \in 0..Len(Input)
    /\ pos \in 0..Len(buf) /\ elemStart \in 0..pos
    /\ lex \in [depth : Nat, inString : BOOLEAN, escape : BOOLEAN]
    /\ yielded \in Seq(Seq(Symbol))
    /\ outcome \in {"none", "complete", "failed", "stopped"}
    /\ outcome = "none" <=> dpc # "done"

IsNumber(text) == DigitRun(text) = Len(text)

\* Python takes the digits it has for a whole number ("raw_decode, which
\* parses exactly one value starting at the cursor"): numbers of one digit
\* are the only ones no read can split.
Splittable == dec = "python" /\ \E t \in Range(Sent) : Len(t) > 1 /\ IsNumber(t)

\* What the caller is handed are the values written, in order, whatever the
\* reads and wherever the stream is cut.  The exception is a number the cut
\* went through, in the ports that parse: its first digits come last, before
\* an error.
CutNumber(i) ==
    /\ Truncated /\ i = Len(yielded)
    /\ dec \notin ScanPorts
    /\ IsNumber(yielded[i]) /\ IsPrefix(yielded[i], Sent[i])
Faithful ==
    ~Splittable =>
        /\ Len(yielded) <= Len(items)
        /\ \A i \in DOMAIN yielded : yielded[i] = Sent[i] \/ CutNumber(i)

\* A decoder that ends normally has handed over the whole of an array whose
\* encoder ended normally.  Java's encoder closes the array of a failed stream
\* and Python's decoder ends normally between values; see the findings.
CompleteMeansWhole ==
    outcome = "complete" /\ dec # "python" /\ enc # "java" =>
        ending = "returned" /\ ~Truncated /\ yielded = Sent

\* An array that arrives whole decodes completely in every port, up to the
\* first value nested past what the decoder's guard or its parser accepts, or
\* the first whose text is not JSON; the values before it are handed over.
IntactDecodes ==
    Intact /\ outcome \in {"complete", "failed"} /\ ~Splittable =>
        /\ yielded = Accepted
        /\ outcome = IF Accepted = Sent THEN "complete" ELSE "failed"

\* A decoder holds one element and one read, and in Node the consumed prefix
\* it has not yet dropped, however long the array.
Room == IF dec = "node" THEN Max({1, CompactAt - 1}) ELSE 0
BufferBounded ==
    \E n \in {0} \cup {Len(Text[e]) : e \in Element} :
        Len(buf) <= n + ChunkSize + Room

\* The iteration ends: no decoder waits for text that will not come.
EventuallyEnds == <>(outcome # "none")

\* The abstract promise, where every number has one digit: all that arrived is
\* handed over before the iteration ends, and nothing else.
Delivery == INSTANCE ArrayDelivery WITH
    handed  <- Len(yielded),
    verdict <- outcome

DeliverySpec == Delivery!Spec

\* Chunk boundaries do not show: what an intact array yields does not depend
\* on how it was read.
ChunkingInvisible ==
    Intact => IsPrefix(yielded, Sent)

\* A stream that was cut is reported: no decoder ends normally on one.
CutReported == outcome = "complete" => ~Truncated
=============================================================================
