--------------------------- MODULE CheckedScanner ---------------------------
(***************************************************************************)
(* The consuming end of a checked stream in Python, Node, .NET and Rust: a *)
(* scanner that walks the text once, with a cursor and a nesting depth     *)
(* that survive chunk boundaries, cuts the items array at its outermost    *)
(* commas, parses each slice, and reads the trailer when the array closes. *)
(* The reference is the Python generator; Scanner below says where the     *)
(* other ports leave it.                                                   *)
(*                                                                         *)
(* input is the part of the wire that can arrive and conn the state of the *)
(* connection: "open", "closed" (the reader will see the end of the stream *)
(* after input) or "reset" (it will see an error after input).             *)
(***************************************************************************)
EXTENDS CheckedWire

CONSTANTS
    Scanners,   \* the ports that may run, a subset of DOMAIN Scanner
    ChunkSize,  \* the most symbols one read returns
    MaxDepth    \* the deepest nesting the Rust iterator's guard accepts (200);
                \* the other three ports leave it to their JSON parser

VARIABLES
    input, conn,        \* the connection, as above
    dec,                \* the port that runs
    dpc,                \* "header", "scan", "trailer", "pending" or "done"
    read,               \* symbols taken from input so far
    buf, pos, elemStart,          \* the text held, the cursor, the slice's start
    depth, inString, escape,      \* the scanner's lexical state
    yielded,            \* the values handed to the caller, in order
    outcome             \* how the iteration ended; "none" while it runs

connVars == <<input, conn>>
lexVars  == <<depth, inString, escape>>
scanVars == <<dec, dpc, read, buf, pos, elemStart, lexVars, yielded, outcome>>

-----------------------------------------------------------------------------
(***************************************************************************)
(* Where the ports differ.                                                 *)
(*   keepsHeader  the header stays in the buffer until the first comma     *)
(*   drains       the trailer is read before the last element is yielded   *)
(*   strictUtf8   a character cut by the end of the stream raises a        *)
(*                decoding error                                           *)
(*   masksErrors  an error of the reader is taken for the end of stream    *)
(***************************************************************************)
PythonScanner == [keepsHeader |-> TRUE,  drains |-> FALSE,
                  strictUtf8  |-> TRUE,  masksErrors |-> FALSE]
NodeScanner   == [keepsHeader |-> TRUE,  drains |-> FALSE,
                  strictUtf8  |-> FALSE, masksErrors |-> FALSE]
DotnetScanner == [keepsHeader |-> FALSE, drains |-> FALSE,
                  strictUtf8  |-> FALSE, masksErrors |-> FALSE]
RustScanner   == [keepsHeader |-> FALSE, drains |-> TRUE,
                  strictUtf8  |-> FALSE, masksErrors |-> TRUE]

Scanner == [python |-> PythonScanner, node |-> NodeScanner,
            dotnet |-> DotnetScanner, rust |-> RustScanner]


\* Fault: the limit itself is refused.
TooDeepAtLimit == dec = "rust" /\ MaxDepth > 0 /\ depth + 1 >= MaxDepth

\* The guard refuses a value at the symbol that nests too deep, before the
\* parser sees it.
TooDeep == dec = "rust" /\ Past(MaxDepth, depth + 1)

-----------------------------------------------------------------------------
ScanInit ==
    /\ dec \in Scanners
    /\ dpc = "header"
    /\ read = 0
    /\ buf = <<>> /\ pos = 0 /\ elemStart = 0
    /\ depth = 0 /\ inString = FALSE /\ escape = FALSE
    /\ yielded = <<>>
    /\ outcome = "none"

\* more(): one read appends a chunk to the buffer.
Fill ==
    \E n \in 1..ChunkSize :
        /\ read + n <= Len(input)
        /\ read' = read + n
        /\ buf' = buf \o SubSeq(input, read + 1, read + n)

\* The reader has nothing left and says so.
AtEnd    == conn # "open" /\ read = Len(input)
SplitChar == read > 0 /\ input[read] = "lead"

\* What the end of the stream becomes, when the code's own verdict would be v.
EndOutcome(v) ==
    CASE conn = "reset" /\ ~Scanner[dec].masksErrors -> "ioError"
      [] conn = "closed" /\ SplitChar /\ Scanner[dec].strictUtf8 -> "malformed"
      [] OTHER -> v

Stop(v) == outcome' = v /\ dpc' = "done"

-----------------------------------------------------------------------------
\* The envelope's fixed header.
HeaderRead == Len(buf) >= Len(Header)

ReadHeader ==
    /\ dpc = "header" /\ ~HeaderRead
    /\ Fill
    /\ UNCHANGED <<dec, dpc, pos, elemStart, lexVars, yielded, outcome>>

HeaderCut ==
    /\ dpc = "header" /\ ~HeaderRead
    /\ AtEnd
    /\ Stop(EndOutcome("truncated"))
    /\ UNCHANGED <<dec, read, buf, pos, elemStart, lexVars, yielded>>

CheckHeader ==
    /\ dpc = "header" /\ HeaderRead
    /\ LET isChecked == SubSeq(buf, 1, Len(Header)) = Header
           kept      == IF Scanner[dec].keepsHeader THEN Len(Header) ELSE 0
       IN  /\ dpc' = IF isChecked THEN "scan" ELSE "done"
           /\ outcome' = IF isChecked THEN "none" ELSE "malformed"
           /\ buf' = SubSeq(buf, Len(Header) - kept + 1, Len(buf))
           /\ pos' = kept /\ elemStart' = kept
    /\ UNCHANGED <<dec, read, lexVars, yielded>>

-----------------------------------------------------------------------------
\* The items array.  Each action below is one branch of the character loop.
Scanning == dpc = "scan" /\ pos < Len(buf)
Char     == buf[pos + 1]
Segment  == SubSeq(buf, elemStart + 1, pos)

Advance == pos' = pos + 1 /\ UNCHANGED <<buf, elemStart>>

StringChar ==
    /\ Scanning /\ inString
    /\ escape' = (~escape /\ Char = "backslash")
    /\ inString' = (escape \/ Char # "quote")
    /\ Advance
    /\ UNCHANGED <<dec, dpc, read, depth, yielded, outcome>>

OpenString ==
    /\ Scanning /\ ~inString
    /\ Char = "quote"
    /\ inString' = TRUE
    /\ Advance
    /\ UNCHANGED <<dec, dpc, read, depth, escape, yielded, outcome>>

OpenNesting ==
    /\ Scanning /\ ~inString
    /\ Char \in {"{", "["}
    /\ depth' = depth + 1
    /\ IF TooDeep
         THEN Stop("malformed") /\ UNCHANGED <<buf, pos, elemStart>>
         ELSE Advance /\ UNCHANGED <<dpc, outcome>>
    /\ UNCHANGED <<dec, read, inString, escape, yielded>>

CloseNesting ==
    /\ Scanning /\ ~inString
    /\ Char \in {"}", "]"} /\ ~(Char = "]" /\ depth = 0)
    /\ depth' = depth - 1
    /\ Advance
    /\ UNCHANGED <<dec, dpc, read, inString, escape, yielded, outcome>>

OtherChar ==
    /\ Scanning /\ ~inString
    /\ Char \notin {"{", "}", "[", "]", "quote"}
    /\ ~(Char = "," /\ depth = 0)
    /\ Advance
    /\ UNCHANGED <<dec, dpc, read, lexVars, yielded, outcome>>

\* Fault: what has been yielded stays in the buffer.
SeparatorKeepsBuffer ==
    /\ Scanning /\ ~inString
    /\ Char = "," /\ depth = 0
    /\ IsValue(dec, Segment)
    /\ yielded' = Append(yielded, ValueOf(Segment))
    /\ buf' = buf /\ pos' = pos + 1 /\ elemStart' = pos + 1
    /\ UNCHANGED <<dec, dpc, read, lexVars, outcome>>

\* An outermost comma ends a slice: it is parsed and yielded, and everything
\* up to and including the comma leaves the buffer.  An empty slice is passed
\* over, except by the Rust iterator, which hands it to the parser.
Separator ==
    /\ Scanning /\ ~inString
    /\ Char = "," /\ depth = 0
    /\ IF IsValue(dec, Segment)
         THEN yielded' = Append(yielded, ValueOf(Segment)) /\ UNCHANGED <<dpc, outcome>>
         ELSE /\ UNCHANGED yielded
              /\ IF Segment = <<>> /\ dec # "rust"
                   THEN UNCHANGED <<dpc, outcome>>
                   ELSE Stop("malformed")
    /\ buf' = SubSeq(buf, pos + 2, Len(buf))
    /\ pos' = 0 /\ elemStart' = 0
    /\ UNCHANGED <<dec, read, lexVars>>

\* Fault: the port that holds the last element back yields it here as well.
CloseArrayYieldsHeld ==
    /\ Scanning /\ ~inString
    /\ Char = "]" /\ depth = 0
    /\ dpc' = "trailer"
    /\ yielded' = IF IsValue(dec, Segment) THEN Append(yielded, ValueOf(Segment))
                                      ELSE yielded
    /\ Advance
    /\ UNCHANGED <<dec, read, lexVars, outcome>>

\* The outermost "]" closes the array.  The last slice is yielded here, or by
\* FinishTrailer in the port that reads the trailer first.
CloseArray ==
    /\ Scanning /\ ~inString
    /\ Char = "]" /\ depth = 0
    /\ IF Segment = <<>> \/ (IsValue(dec, Segment) /\ Scanner[dec].drains)
         THEN dpc' = "trailer" /\ UNCHANGED <<yielded, outcome>>
         ELSE IF IsValue(dec, Segment)
                THEN /\ dpc' = "trailer"
                     /\ yielded' = Append(yielded, ValueOf(Segment))
                     /\ UNCHANGED outcome
                ELSE Stop("malformed") /\ UNCHANGED yielded
    /\ Advance
    /\ UNCHANGED <<dec, read, lexVars>>

\* The cursor has caught up with the buffer.
ReadItems ==
    /\ dpc = "scan" /\ pos = Len(buf)
    /\ Fill
    /\ UNCHANGED <<dec, dpc, pos, elemStart, lexVars, yielded, outcome>>

\* Fault: an error of the reader is not noticed.
ItemsCutEofOnly ==
    /\ dpc = "scan" /\ pos = Len(buf)
    /\ AtEnd /\ conn = "closed"
    /\ Stop(EndOutcome("truncated"))
    /\ UNCHANGED <<dec, read, buf, pos, elemStart, lexVars, yielded>>

ItemsCut ==
    /\ dpc = "scan" /\ pos = Len(buf)
    /\ AtEnd
    /\ Stop(EndOutcome("truncated"))
    /\ UNCHANGED <<dec, read, buf, pos, elemStart, lexVars, yielded>>

-----------------------------------------------------------------------------
\* The trailer is read to the end of the stream, then parsed.
ReadTrailer ==
    /\ dpc = "trailer"
    /\ Fill
    /\ UNCHANGED <<dec, dpc, pos, elemStart, lexVars, yielded, outcome>>

Verdict == EndOutcome(TrailerVerdict(SubSeq(buf, pos + 1, Len(buf))))
LastSlice == SubSeq(buf, elemStart + 1, pos - 1)
Held    == Scanner[dec].drains /\ LastSlice # <<>>

\* Fault: the last element is forgotten when the verdict is in.
FinishTrailerDropsHeld ==
    /\ dpc = "trailer"
    /\ AtEnd
    /\ Stop(Verdict)
    /\ UNCHANGED <<dec, read, buf, pos, elemStart, lexVars, yielded>>

FinishTrailer ==
    /\ dpc = "trailer"
    /\ AtEnd
    /\ IF Held
         THEN /\ yielded' = Append(yielded, ValueOf(LastSlice))
              /\ dpc' = "pending" /\ UNCHANGED outcome
         ELSE Stop(Verdict) /\ UNCHANGED yielded
    /\ UNCHANGED <<dec, read, buf, pos, elemStart, lexVars>>

\* Rust: the verdict is queued behind the last element, for the next call.
TakePending ==
    /\ dpc = "pending"
    /\ Stop(Verdict)
    /\ UNCHANGED <<dec, read, buf, pos, elemStart, lexVars, yielded>>

ScanStep ==
    \/ ReadHeader \/ HeaderCut \/ CheckHeader
    \/ StringChar \/ OpenString \/ OpenNesting \/ CloseNesting \/ OtherChar
    \/ Separator \/ CloseArray \/ ReadItems \/ ItemsCut
    \/ ReadTrailer \/ FinishTrailer \/ TakePending

-----------------------------------------------------------------------------
Outcomes == {"none", "clean", "streamError", "truncated", "malformed",
             "ioError"}

\* The type invariant.
ScanTypeOK ==
    /\ dec \in Scanners
    /\ dpc \in {"header", "scan", "trailer", "pending", "done"}
    /\ read \in 0..Len(input)
    /\ buf \in Seq(Symbol)
    /\ pos \in 0..Len(buf) /\ elemStart \in 0..pos
    /\ depth \in Nat /\ inString \in BOOLEAN /\ escape \in BOOLEAN
    /\ yielded \in Seq(Element)
    /\ outcome \in Outcomes
    /\ outcome = "none" <=> dpc # "done"
=============================================================================
