--------------------------- MODULE CheckedStream ---------------------------
(***************************************************************************)
(* A checked stream end to end: any port's encoder, a connection, and any  *)
(* port's decoder.  The connection delivers what was written, in pieces of *)
(* any size, and may break at any point of the wire: the reader then sees  *)
(* the end of the stream ("eof") or an error ("reset") after the symbols   *)
(* that got through.  When the encoder has returned or raised, its caller  *)
(* closes the connection.                                                  *)
(***************************************************************************)
EXTENDS CheckedEncoder

CONSTANTS
    Decoders,   \* the ports whose decoder may run
    ChunkSize, MaxDepth,
    Faults      \* the ways the connection may break: a subset of {"eof", "reset"}

VARIABLES
    fault,      \* "none", or how the connection broke
    cut,        \* the symbols of the wire that get through once it has
    dec, dpc, read, buf, pos, elemStart, depth, inString, escape,
    yielded, outcome

ScannerPorts == {"python", "node", "dotnet", "rust"}

ASSUME StreamAssumption ==
    /\ Decoders \subseteq Ports
    /\ ChunkSize \in Nat \ {0}
    /\ MaxDepth \in Nat
    /\ Faults \subseteq {"eof", "reset"}

\* What can reach the reader, and what the reader sees after it.
Arriving == IF fault = "none" THEN wire ELSE SubSeq(wire, 1, cut)
Ended    == epc \in {"returned", "raised"}
Conn     == CASE fault = "reset" -> "reset"
              [] fault = "eof"   -> "closed"
              [] OTHER           -> IF Ended THEN "closed" ELSE "open"

Scan   == INSTANCE CheckedScanner WITH
            Scanners <- Decoders \cap ScannerPorts,
            input <- Arriving, conn <- Conn
Tokens == INSTANCE CheckedTokenReader WITH
            Readers <- Decoders \ ScannerPorts,
            input <- Arriving, conn <- Conn

netVars == <<fault, cut>>
bufVars == <<buf, pos, elemStart, depth, inString, escape>>
decVars == <<dec, dpc, read, bufVars, yielded, outcome>>
vars    == <<encVars, netVars, decVars>>

-----------------------------------------------------------------------------
Init ==
    /\ EncInit
    /\ fault = "none" /\ cut = 0
    /\ Scan!ScanInit \/ (Tokens!ReadInit /\ buf = <<>> /\ pos = 0 /\ elemStart = 0
                         /\ depth = 0 /\ inString = FALSE /\ escape = FALSE)

Produce == EncStep /\ UNCHANGED <<netVars, decVars>>

\* Everything past the cut is lost; what the reader already has is not.
Disconnect ==
    /\ outcome = "none"
    /\ Break
    /\ \E f \in Faults : fault' = f
    /\ \E n \in read..Len(wire) : cut' = n
    /\ UNCHANGED decVars

ScanItems == dec \in ScannerPorts /\ Scan!ScanStep /\ UNCHANGED <<encVars, netVars>>

ReadTokens ==
    /\ dec \notin ScannerPorts
    /\ Tokens!ReadStep
    /\ UNCHANGED <<encVars, netVars, bufVars>>

Next == Produce \/ Disconnect \/ ScanItems \/ ReadTokens

\* The encoder runs on, and the decoder's caller keeps asking for elements.
Fairness == WF_vars(Produce) /\ WF_vars(ScanItems) /\ WF_vars(ReadTokens)
Spec == Init /\ [][Next]_vars /\ Fairness

-----------------------------------------------------------------------------
Sent == SubSeq(source, 1, count)

\* The type invariant.
TypeOK ==
    /\ EncTypeOK
    /\ fault \in Faults \cup {"none"}
    /\ cut \in 0..Len(wire)
    /\ dec \in Decoders
    /\ dec \in ScannerPorts => Scan!ScanTypeOK
    /\ yielded \in Seq(Element) /\ read \in 0..Len(Arriving)

\* The terminal verdicts are never wrong, for any pair of ports, any chunking
\* and any fault: "clean" only when the producer completed and every value was
\* handed over, "streamError" only when it failed and every value it had sent
\* was handed over.
VerdictSound ==
    /\ outcome = "clean" => HasStatus("ok") /\ yielded = source
    /\ outcome = "streamError" => HasStatus("error") /\ yielded = Sent

\* The abstract promise: every step of the two ends is a step of
\* CheckedDelivery or leaves its variables alone.
Delivery == INSTANCE CheckedDelivery WITH
    sent      <- Sent,
    status    <- CASE HasStatus("ok") -> "completed"
                   [] HasStatus("error") -> "failed"
                   [] OTHER -> "sending",
    delivered <- yielded,
    verdict   <- IF outcome \in {"none", "clean", "streamError"}
                   THEN outcome ELSE "aborted"

DeliverySpec == Delivery!Spec

\* A connection that did not break yields the producer's own verdict: what one
\* port writes, every port reads ("a checked stream written by any flatwire
\* language decodes here and vice versa").  The exceptions are values no JSON
\* parser reads, values nested past what the decoder's parser accepts, which
\* may be less than the guard's limit, and in Rust values nested past that
\* limit; a value nested exactly that deep is read if the parser reads it.
Readable ==
    \A i \in 1..Len(source) :
        /\ source[i] \in Parsable(dec)
        /\ dec = "rust" => ~NestsPast(Text[source[i]], MaxDepth)
Settled  == outcome \notin {"none", "stopped"}
IntactVerdict ==
    fault = "none" /\ Settled /\ Readable =>
        outcome = (IF HasStatus("ok") THEN "clean"
                   ELSE IF HasStatus("error") THEN "streamError" ELSE "truncated")

\* A wire that ended early, however it ended, is reported as truncated
\* ("TruncatedStream if the stream ended before any terminal status").
Cut == fault = "eof" /\ cut < Len(wire)
TruncationReported ==
    Cut /\ Settled /\ Readable => outcome = "truncated"

\* Every value handed over is the value sent at that place.
OnlySentElements ==
    /\ Len(yielded) <= count
    /\ \A i \in 1..Len(yielded) : yielded[i] = source[i]

\* The scanners hold the element under the cursor, one chunk and, once the
\* array has closed, the trailer; never the elements already yielded.
TextLengths == {0} \cup {Len(Text[e]) : e \in Element}
BufferBounded ==
    \E n \in TextLengths :
        Len(buf) <= Len(Header) + n + ChunkSize
                        + (IF dpc = "scan" THEN 1 ELSE 1 + Len(ErrorTrailer))

\* The consumer is told how the stream ended.
EventuallyJudged == <>(outcome # "none")
=============================================================================
