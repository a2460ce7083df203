--------------------------- MODULE CheckedEncoder ---------------------------
(***************************************************************************)
(* The producing end of a checked stream: encode_checked_array and its     *)
(* five ports.  The reference is the Python encoder; the ports run the     *)
(* same loop and differ in what they put into one write and in which       *)
(* failures they turn into a complete:false trailer (Port below).          *)
(*                                                                         *)
(* The bytes handed to the writer are never taken back, so wire only       *)
(* grows.  frames is a history of the writes: which part of the envelope   *)
(* each one was, and where in the wire it starts.                          *)
(***************************************************************************)
EXTENDS CheckedWire

CONSTANTS
    Encoders,   \* the ports that may run, a subset of Ports
    MaxItems    \* bound on the number of values a source yields

VARIABLES
    enc,        \* the port that runs
    source,     \* the values the source yields that can be encoded
    ending,     \* what happens after them: see Endings
    count,      \* elements written so far
    epc,        \* control point of the encoder
    wire,       \* everything the writer accepted
    frames,     \* history: the writes that make up the wire
    broken      \* the connection under the writer is gone

encVars == <<enc, source, ending, count, epc, wire, frames, broken>>

-----------------------------------------------------------------------------
(***************************************************************************)
(* The ports.  joint: the comma and the element are one write, made after  *)
(* the element has been encoded; otherwise the comma is already out when   *)
(* encoding fails.  trailerOn: the failures that reach the handler that    *)
(* writes the complete:false trailer.                                      *)
(*   "source"  iterating the source raises an ordinary exception           *)
(*   "encode"  an element cannot be encoded                                *)
(*   "write"   the writer reports an error for a comma or an element       *)
(*   "fatal"   the source raises what the handler does not name: a Python  *)
(*             BaseException such as KeyboardInterrupt, a Java Error, a    *)
(*             panic in Go or Rust                                         *)
(***************************************************************************)
PythonEncoder == [joint |-> FALSE, trailerOn |-> {"source", "encode", "write"}]
NodeEncoder   == [joint |-> TRUE,  trailerOn |-> {"source", "encode", "write"}]
DotnetEncoder == [joint |-> FALSE, trailerOn |-> {"source", "encode", "write"}]
RustEncoder   == [joint |-> FALSE, trailerOn |-> {"encode"}]
GoEncoder     == [joint |-> FALSE, trailerOn |-> {"encode"}]

\* Fault: only errors of encoding and writing are caught.
JavaCatchesIOOnly == [joint |-> FALSE, trailerOn |-> {"encode", "write"}]

JavaEncoder   == [joint |-> FALSE, trailerOn |-> {"source", "encode", "write"}]

Ports == {"python", "node", "dotnet", "rust", "go", "java"}
Port(p) == CASE p = "python" -> PythonEncoder
             [] p = "node"   -> NodeEncoder
             [] p = "dotnet" -> DotnetEncoder
             [] p = "rust"   -> RustEncoder
             [] p = "go"     -> GoEncoder
             [] p = "java"   -> JavaEncoder

\* How a source can end.  A Go slice and a Rust iterator have no way to report
\* an ordinary error; Node and .NET catch whatever the source throws.
Endings(p) == {"exhausted", "encode"}
                \cup (IF p \in {"go", "rust"} THEN {} ELSE {"source"})
                \cup (IF p \in {"node", "dotnet"} THEN {} ELSE {"fatal"})

ASSUME EncoderAssumption ==
    /\ Encoders \subseteq Ports
    /\ MaxItems \in Nat

\* Node's encoder accepts a value that no JSON parser reads back.  (Python's
\* writes NaN, which its own decoder reads; that value is left out.)
Encodable(p) == IF p = "node" THEN Element ELSE Element \ Foreign
Sources(p)   == UNION {[1..n -> Encodable(p)] : n \in 0..MaxItems}

-----------------------------------------------------------------------------
FrameKind == {"header", "comma", "element", "ok", "error"}
Frame     == [kind : FrameKind, item : Nat, start : Nat]

\* The text one frame put on the wire.
FrameText(f) ==
    CASE f.kind = "header"  -> Header
      [] f.kind = "comma"   -> <<",">>
      [] f.kind = "element" -> Text[source[f.item]]
      [] f.kind = "ok"      -> Status(TRUE)
      [] OTHER              -> Status(FALSE)

\* One successful write of a single frame, with the next control point.
Write(kind, text) ==
    /\ wire' = wire \o text
    /\ frames' = Append(frames, [kind |-> kind, item |-> count + 1,
                                 start |-> Len(wire)])

Joint == Port(enc).joint

\* Control goes to the handler, or leaves the encoder with the exception.
Raise(kind) ==
    epc' = IF kind \in Port(enc).trailerOn THEN "errorTrailer" ELSE "raised"

HasItem == count < Len(source) \/ ending = "encode"

-----------------------------------------------------------------------------
EncInit ==
    /\ enc \in Encoders
    /\ source \in Sources(enc)
    /\ ending \in Endings(enc)
    /\ count = 0
    /\ epc = "header"
    /\ wire = <<>>
    /\ frames = <<>>
    /\ broken = FALSE

WriteHeader ==
    /\ epc = "header"
    /\ Write("header", Header)
    /\ epc' = "next"
    /\ UNCHANGED <<enc, source, ending, count, broken>>

\* Fault: no comma between elements.
NextItemNoComma ==
    /\ epc = "next" /\ HasItem
    /\ epc' = "element"
    /\ UNCHANGED <<enc, source, ending, count, wire, frames, broken>>

\* for item in items: the source yields one more value.
NextItem ==
    /\ epc = "next"
    /\ HasItem
    /\ epc' = IF count > 0 /\ ~Joint THEN "comma" ELSE "element"
    /\ UNCHANGED <<enc, source, ending, count, wire, frames, broken>>

WriteComma ==
    /\ epc = "comma"
    /\ Write("comma", <<",">>)
    /\ epc' = "element"
    /\ UNCHANGED <<enc, source, ending, count, broken>>

\* The element is encoded in memory first, then handed to the writer whole.
WriteElement ==
    /\ epc = "element"
    /\ count < Len(source)
    /\ ~Joint \/ count = 0
    /\ Write("element", Text[source[count + 1]])
    /\ count' = count + 1
    /\ epc' = "next"
    /\ UNCHANGED <<enc, source, ending, broken>>

\* The Node encoder: prefix and element in one chunk, two frames of the wire.
WriteCommaAndElement ==
    /\ epc = "element"
    /\ count < Len(source)
    /\ Joint /\ count > 0
    /\ LET text == Text[source[count + 1]]
       IN  /\ wire' = wire \o <<",">> \o text
           /\ frames' = frames \o
                <<[kind |-> "comma",   item |-> count + 1, start |-> Len(wire)],
                  [kind |-> "element", item |-> count + 1, start |-> Len(wire) + 1]>>
    /\ count' = count + 1
    /\ epc' = "next"
    /\ UNCHANGED <<enc, source, ending, broken>>

\* Faults: the element that failed is counted; it is skipped.
EncodeFailsCounted ==
    /\ epc = "element" /\ count = Len(source)
    /\ Raise("encode")
    /\ count' = count + 1
    /\ UNCHANGED <<enc, source, ending, wire, frames, broken>>
EncodeFailsSkips ==
    /\ epc = "element" /\ count = Len(source)
    /\ epc' = "next"
    /\ UNCHANGED <<enc, source, ending, count, wire, frames, broken>>

EncodeFails ==
    /\ epc = "element"
    /\ count = Len(source)
    /\ Raise("encode")
    /\ UNCHANGED <<enc, source, ending, count, wire, frames, broken>>

\* Fault: the source's exception is swallowed.
SourceFailsQuietly ==
    /\ epc = "next" /\ count = Len(source)
    /\ ending \in {"source", "fatal"}
    /\ epc' = "okTrailer"
    /\ UNCHANGED <<enc, source, ending, count, wire, frames, broken>>

SourceFails ==
    /\ epc = "next"
    /\ count = Len(source)
    /\ ending \in {"source", "fatal"}
    /\ Raise(ending)
    /\ UNCHANGED <<enc, source, ending, count, wire, frames, broken>>

SourceEnds ==
    /\ epc = "next"
    /\ count = Len(source)
    /\ ending = "exhausted"
    /\ epc' = "okTrailer"
    /\ UNCHANGED <<enc, source, ending, count, wire, frames, broken>>

WriteOkTrailer ==
    /\ epc = "okTrailer"
    /\ Write("ok", Status(TRUE))
    /\ epc' = "returned"
    /\ UNCHANGED <<enc, source, ending, count, broken>>

\* Fault: the handler falls through to the success trailer.
ErrorTrailerFallsThrough ==
    /\ epc = "errorTrailer"
    /\ Write("error", Status(FALSE))
    /\ epc' = "okTrailer"
    /\ UNCHANGED <<enc, source, ending, count, broken>>

\* Several writes in most ports, with nothing between them that other parts
\* could observe: a reader may see any prefix of a write, and a connection
\* may break after any symbol of it.
WriteErrorTrailer ==
    /\ epc = "errorTrailer"
    /\ Write("error", Status(FALSE))
    /\ epc' = "raised"
    /\ UNCHANGED <<enc, source, ending, count, broken>>

-----------------------------------------------------------------------------
Writing == {"header", "comma", "element", "okTrailer", "errorTrailer"}
HasText == epc # "element" \/ count < Len(source)

\* The writer reports an error.  Only the loop's writes are inside the try
\* block; a failing trailer or header leaves the encoder at once.
WriteFails ==
    /\ broken
    /\ epc \in Writing /\ HasText
    /\ IF epc \in {"comma", "element"} THEN Raise("write") ELSE epc' = "raised"
    /\ UNCHANGED <<enc, source, ending, count, wire, frames, broken>>

\* Node waits for 'drain' or 'error' after write() returned false.  A writable
\* that is closed, or was already destroyed, emits neither: see NodeWriter.
WriteHangs ==
    /\ broken
    /\ enc = "node"
    /\ epc \in Writing /\ HasText
    /\ epc' = "hung"
    /\ UNCHANGED <<enc, source, ending, count, wire, frames, broken>>

\* The environment: the connection dies under the writer.  Writes may still be
\* accepted for a while, by buffers on the way.
Break ==
    /\ ~broken
    /\ broken' = TRUE
    /\ UNCHANGED <<enc, source, ending, count, epc, wire, frames>>

EncStep ==
    \/ WriteHeader
    \/ NextItem
    \/ WriteComma
    \/ WriteElement
    \/ WriteCommaAndElement
    \/ EncodeFails
    \/ SourceFails
    \/ SourceEnds
    \/ WriteOkTrailer
    \/ WriteErrorTrailer
    \/ WriteFails
    \/ WriteHangs

EncNext == EncStep \/ Break
EncSpec == EncInit /\ [][EncNext]_encVars /\ WF_encVars(EncStep)

-----------------------------------------------------------------------------
\* The type invariant.
EncTypeOK ==
    /\ enc \in Encoders
    /\ source \in Seq(Encodable(enc)) /\ Len(source) <= MaxItems
    /\ ending \in Endings(enc)
    /\ count \in 0..Len(source)
    /\ epc \in Writing \cup {"next", "returned", "raised", "hung"}
    /\ wire \in Seq(Symbol)
    /\ frames \in Seq(Frame)
    /\ broken \in BOOLEAN

HasStatus(kind) == \E i \in DOMAIN frames : frames[i].kind = kind

\* Nothing follows a terminal status: it is the last thing on the wire, and
\* the encoder that wrote it has ended ("the terminal status is written
\* last").  A handler that falls through to the success trailer breaks it.
StatusLast ==
    \A i \in DOMAIN frames :
        frames[i].kind \in {"ok", "error"} =>
            /\ i = Len(frames)
            /\ epc = (IF frames[i].kind = "ok" THEN "returned" ELSE "raised")

\* The items array carries the first count values of the source, each once
\* and in order, with one comma between two neighbours.
ElementsInOrder ==
    /\ frames # <<>> => frames[1].kind = "header"
    /\ \A k \in 1..count :
          /\ 2 * k \in DOMAIN frames
          /\ frames[2 * k].kind = "element" /\ frames[2 * k].item = k
    /\ \A k \in 1..(count - 1) : frames[2 * k + 1].kind = "comma"
    /\ Len(frames) <= 2 * count + 2

\* The status tells the truth about the source: complete:true follows all the
\* values of a source that ended by itself, complete:false a failure of the
\* source or of the connection.  No swallowed failure looks like success.
StatusTruthful ==
    /\ HasStatus("ok") => ending = "exhausted" /\ count = Len(source)
    /\ HasStatus("error") => ending # "exhausted" \/ broken

\* A failure the caller can hand over in-band reaches the wire as
\* complete:false before the encoder re-raises it.
FailureSignalled ==
    epc = "raised" /\ ~broken /\ ending \in {"source", "encode"}
        => HasStatus("error")

\* How far the wire has got at each control point.  With the properties above
\* it makes EncInv inductive: it is what the next write relies on.
Written == IF count = 0 THEN 1 ELSE 2 * count
Progress ==
    /\ epc = "header" => frames = <<>> /\ count = 0
    /\ epc \in {"next", "comma", "okTrailer"} => Len(frames) = Written
    /\ epc = "comma" => count > 0 /\ ~Joint
    /\ epc \in {"comma", "element"} => HasItem
    /\ epc = "element" =>
          IF count > 0 /\ ~Joint
          THEN Len(frames) = Written + 1 /\ frames[Written + 1].kind = "comma"
          ELSE Len(frames) = Written
    /\ epc = "okTrailer" => ending = "exhausted" /\ count = Len(source)
    /\ epc = "errorTrailer" =>
          /\ Len(frames) \in {Written, Written + 1}
          /\ count = 0 => Len(frames) = 1
          /\ ending # "exhausted" \/ broken

EncInv ==
    EncTypeOK /\ Progress /\ StatusLast /\ ElementsInOrder
    /\ StatusTruthful /\ FailureSignalled

\* The encoder ends, by returning or raising, unless it is the Node encoder
\* on a writable whose connection is gone.
EncoderSettles ==
    <>(epc \in {"returned", "raised"} \/ (enc = "node" /\ broken))

\* A checked stream "decodes as ordinary JSON everywhere" (docs/FAILURE.md):
\* in an array, a comma is followed by an element.
OrdinaryJson ==
    \A i \in 1..(Len(frames) - 1) :
        frames[i].kind = "comma" => frames[i + 1].kind = "element"
=============================================================================
