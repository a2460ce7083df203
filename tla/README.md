# Flatwire: TLA+ models, model checking and proofs

Flatwire streams arrays: an encoder writes one element at a time to a writer,
a decoder hands over one element at a time from a reader, and neither holds the
collection. The library exists six times (Python, Node, Go, Rust, Java, .NET)
and in four formats (JSON, XML, MessagePack, CBOR). This directory states what
the streams promise, checks it on small instances with TLC and proves part of
it for all instances with TLAPS.

## 1. Inventory

| Component | State it keeps | Operations | What makes it correct |
|---|---|---|---|
| Checked-stream encoders (`failure.py`, `failure.js`, `checked.go`, `checked.rs`, `FlatChecked.java`, `FlatChecked.cs`) | the bytes already written, the number of elements, where in the loop it is | header, comma, element, success trailer, error trailer, re-raise | the terminal status is last and true; what precedes it is the values in order; a failure the port catches is signalled in-band |
| Checked-stream scanners (Python, Node, .NET, Rust) | buffer, cursor, start of the element, nesting depth, in-string and escape flags; in Rust the queued verdict | fill, one step per character class, cut at an outermost comma, close, read and parse the trailer | no wrong terminal verdict for any chunking and any cut; a bounded buffer |
| Checked-stream token readers (Go, Java) | the parser's position, the flags `complete` and `seenComplete` | envelope, element, end of array, trailer fields | the same |
| Node writer (`index.js` `write`, `encodeArray`, `sendArray`) | the pending promise; the Writable's buffer, `needDrain`, destroyed and ended flags; the abort signal | write, wait for drain, drain, error, close, abort, end | bounded buffering, no lost wake-up, every settled promise is truthful, no promise waits for ever |
| Bare JSON arrays (`core.py`, `index.js`, `flatwire.go`, `lib.rs`, `FlatWire.java`, `Flat.cs`) | buffer and cursor, or lexical state | encode, incremental decode | decoding a chunked array gives its elements whatever the chunking; a cut is reported |
| Depth guard | nesting depth | check while scanning | the guard refuses deeper values and no others; the parser behind it has a limit of its own |
| MessagePack and CBOR codecs | reader cursor over a compacted buffer, nesting | minimal-width encoding, streaming decode | round trip, canonical widths, a cut inside a value is an error and one between values the end |
| XML codec (`xml.py`, `xml.js`, `xml.rs`, `xml.go`) | the text held and its cursor, or the parser's depth and the tree it has built | escape, write, find an item's span, parse | round trip; items and not tags that begin like them; a cut is told from the end |
| HTTP adapters (`adapters.py`, `adapters.go`, `FlatWireHttp.java`, `FlatHttp.cs`, `sendArray`) | the status sent, the body so far, the suspended generator | negotiate, stream the body, report an error | a failed stream is not ended as if it were whole; a client that left is not served |
| Command line (`cli.py`) | two files or pipes and the output's buffer, the pending exception | cat, convert, stats, `main` | exit code 0 and a closed output mean what they say; the command ends |
| Conformance suite (`conformance/`) | the corpus, the files of results, `RESULTS.md` | run a language, edit the corpus, aggregate | the report claims what the files show |
| Version check, benchmarks, web pages, packaging | none | | |

How they interact. An encoder writes to a writer that may accept, fail or, in
Node, ask it to wait. What was accepted travels over a connection that delivers
it in pieces of any size and may break at any byte, as an end of stream or as
an error. A decoder sees nothing else: whatever it concludes, it concludes from
a prefix of the encoder's bytes. A Node encoder also shares the Writable and the
abort signal with the rest of the process, through callbacks that run between
its turns. The command line is a decoder feeding an encoder, with files that may
be the same and a pipe whose reader may leave; an adapter is an encoder inside a
server that may stop asking.

What is hard here: a failure at each point of the loop (source, encoding, write)
times each position of the wire; a cut inside every token of the envelope; the
chunk boundary inside every lexical construct; six ports that differ in small
ways and must read each other; and in Node the order of `drain`, `error`,
`close`, abort and the encoder's own turns. `PROJECT.json` lists the hazards at
their lines.

## 2. Modules

| Module | Models |
|---|---|
| `JsonText` | the symbols a text is made of, what each port's parser accepts, the lexical state of the character scanners, and what the grammar says of the texts of values |
| `CheckedWire` | the envelope of a checked stream, what the parsers make of a slice and of a trailer |
| `CheckedEncoder` | `encode_checked_array` in six ports; `Port` says which writes are joined and which failures reach the handler |
| `CheckedScanner` | `decode_checked_array` as a character scanner; `Scanner` says where the four ports differ |
| `CheckedTokenReader` | `DecodeCheckedArray` on `encoding/json` and Jackson |
| `CheckedDelivery` | the abstract promise of a checked stream |
| `CheckedStream` | an encoder, a connection that can break, and a decoder; composes the above and maps to `CheckedDelivery` |
| `NodeWriter` | `write`, the five Node encoders on it, `sendArray`, the Writable, the abort signal |
| `JsonArrays` | bare arrays: the encoders, and the decoders that scan (Node, Rust), parse and retry (Python) or pull (Go, Java) |
| `BinaryBytes` | a byte on a smaller scale, big-endian arguments, two's complement |
| `BinaryCodec` | the MessagePack and CBOR encoders as functions: widths, key order, what each port can write |
| `BinaryReader` | the reader under `decode_array` of both formats: cursor, refill, compaction, nesting, refusals |
| `BinaryStream` | any port's encoder, a cut, any port's reader; composes `BinaryCodec` and `BinaryReader` |
| `XmlStream` | typed XML: the encoders of Python, Node, Rust and Go, a cut, and their decoders |
| `ArrayDelivery` | the abstract promise of a stream without a trailer, which `XmlStream`, `BinaryStream` and `JsonArrays` implement |
| `Cli` | `cat`, `convert`, `stats` and `main` of `cli.py`, the output's buffer and what it drains into |
| `Response` | `iter_encoded_array` under Starlette, `ArrayHandler` under `net/http`, and the client |
| `Conformance` | the runners, their files of results, a corpus that gains and loses cases, and `aggregate.py` |
| `*Proofs` | the theorems about `CheckedEncoder` and `CheckedStream` (in one module), `JsonArrays`, `BinaryStream`, `XmlStream`, `NodeWriter`, `Cli`, `Response` and `Conformance` |
| `MC*` | values and bounds for TLC |

Node writer. `held` is the Writable's `writableLength`; `Flush` takes any part of it, as
a socket does, and `Drain` may follow when nothing is left.

Checked streams. A program counter (`epc`, `dpc`, `pc`) stands for the position
in the source's loop, and each action for the code between two points another
party can observe: one write, one read, one character. The decoder's `buf`,
`pos`, `elemStart`, `depth`, `inString`, `escape` are the locals of those
names. `wire` is every byte the writer accepted; `frames` is a history of which
part of the envelope each write was, so that properties can speak of the wire's
structure without parsing it. A byte is a symbol: the seven characters the
scanners branch on are themselves, a fixed word such as `"complete":` is one
symbol, `lead` is the first byte of a two-byte character, and everything else a
plain symbol. Whitespace, unknown trailer fields and the text of the error
message are left out.

Bare arrays. `wire` is what the encoder wrote, `cut` how much of it arrives, and
the decoder's variables are again the locals of the source. The scanners take one
character a step; Python's `RawDecode` takes one value, `Fill` and `FillFails`
are the two ends of its refill loop; `Pull*` are the calls Go and Java make of
their parsers.

Binary. The first byte of a value is a record of what it announces: its kind,
the width of the argument that follows, and the argument itself when it fits. A
byte has `Base` values, so that all four widths stay small
numbers; the widths are 1, 2, 4 and 8 as in the code. A
digit of a text stands for a character, and the last two for the characters on
which the orders by UTF-8 bytes and by UTF-16 units disagree. The recursion of
`read_value` is the counter `todo`, the number of values still due before the
outermost one is whole, and an element is the sequence of the atoms it is made
of; the recursion of the encoder is `Walk`, the same counter with the values in it. `need` is the argument of the code's `need(n)` or `take(n)`.

XML. A tag's name, the start of an attribute and a character are a symbol each;
`Written` is what the encoder of the port makes of the items. The recursion of `write_value`
is `Walk`, which keeps the open elements with what is still to be written in each;
`Nodes` are the tags it passes, in order. `Refill`, `TakeItem` and
`ScanEnds` are the loop of Node and Rust around `Spans`, the search for the first whole
item in the text held. `StartTag`, `EndTag`, `Clear`, `BadTag` and `InputEnds`
are the events Python's `iterparse` and Go's `encoding/xml` report and what
the code does at each: `tree` is what `iterparse` leaves hanging on the root,
and Go hands over through a callback that may stop the decoding. `Escape*`, `Spelling`, `Seen` and
`Scalar` model the conversions by what they change: entities, character
references, line ends, quotes, what Go's `%q` writes with a backslash, integers past
2^53 (Node's `parseInt`) or 64 bits (Go, Rust), and floats that are not finite. `CanStream`
leaves out what a port's application cannot hold: Node types a number past 2^53 as a float,
and a `serde_json` number is finite. A character that XML forbids goes to the wire as it is, except
in Go's keys; `Legal` is the check expat and `encoding/xml` make up to the end
of the next tag, and `BadTag` what happens when it fails. Node and Rust do not check.

`ArrayDelivery` knows four variables: how many elements arrive, whether the input may
end after them, how many were handed over, the verdict. Each detailed module
computes the first two, `arrived` and `whole`, when it chooses wire and cut, from
the encoder's side alone; the refinement maps the other two to the decoder's
`taken` or `yielded` and its `outcome`.

Command line. `pc` is the place in the function that runs: the two `open` calls, the
header, a loop of `Pull` and `Write`, the trailer, the end of the `with` block (`Close`),
the report, `main`'s handlers (`Main`) and the interpreter's exit (`Exit`). `err` is the
exception on its way. A document is the number of its whole elements and how its
text ends, which is what `JsonArrays`, `XmlStream` and `BinaryStream` say a Python
decoder can tell. `buffer` is Python's output buffer and `sink` what lies behind it.

HTTP. Both encoders run through the same places of `encode_array`; `suspended`
says that Python's generator waits to be asked, `conn` how the response ended. `Wire` is
the whole body of a collection, given place by place.
Conformance. `file` is what the `results` directory holds; `Cell`, `Shared`,
`Counted` and `Agreeing` are the tables of `aggregate.py` and `Claims` its summary.

JSON parsers, Node's `Writable`, Go's `bufio.Reader` and Java's
`BufferedInputStream` are not part of the repository. They are
modelled by the behaviour the code relies on: a slice
parses when it is the text of a value and nests no deeper than `ParserDepth` of the port, a
limit of the parser's own (127 levels pass in `serde_json`, which reads every slice of
Rust's decoders, 64 in System.Text.Json, 10000 in `encoding/json`, just below 1000 in Jackson; in Python the
interpreter's stack); a token parser needs one symbol past a
number, or the end, to know where it ends; `write()` returns false at the high-water mark,
`drain` follows when the buffer empties, a destroyed Writable emits at most one
`error` and answers later writes with false; a buffered reader moves what is unread
to the front before it reads on.

Definitions introduced by a `Fault:` comment are deliberately wrong variants of the
definition that follows them (a missing comma, a missing reset, a listener left out).
No specification uses them. Each is paired in `PROJECT.json` with the property
that fails when it takes the right definition's place, which shows that the
property can fail.

## 3. Properties and runs

| Run | Checks | Shows |
|---|---|---|
| `encoder` | `EncTypeOK`, `StatusLast`, `ElementsInOrder`, `StatusTruthful`, `FailureSignalled`, `EncoderSettles` | six ports, four ways a source can end, a connection that dies at any moment |
| `stream_scanners` | `VerdictSound`, `BufferBounded`, `IntactVerdict`, `DeliverySpec` | four scanners on strings with escapes and brackets, nested values, and values past the depth limit of the guard (Rust) or of the parser alone (.NET), in chunks of one and two symbols, cut at every symbol; each implements `CheckedDelivery` |
| `stream_mixed` | `VerdictSound`, `EventuallyJudged` | Go, Java, Python and Rust decoders behind an encoder that leaves a dangling comma and one that writes `undefined`, with a value too deep for Go's and Java's parsers |
| `writer` | `BufferBounded`, `CompleteWhenReturned`, `AbortPrompt`, `SettlesWhileOpen`, `WaitingErrorHandled` | five Node encoders, chunks below and above the mark, every way a Writable can go away, an abort at any turn |
| `arrays` | `Faithful`, `CompleteMeansWhole`, `IntactDecodes`, `BufferBounded`, `EventuallyEnds` | five decoders behind three kinds of encoder, every cut and every chunking, values at and past the limits of guard and parser: what is handed over was written, a normal end means a whole array, buffers stay bounded |
| `binary` | `Faithful`, `RefusedForCause`, `BufferBounded`, `SameBytes`, `DeliverySpec` | both formats from every port to every port, values on both sides of every width boundary and nested ones, every cut and every chunking; implements `ArrayDelivery` |
| `xml` | `Faithful`, `IntactDecodes`, `BufferBounded`, `DeliverySpec` | four encoders to four decoders, every kind of value, key, number and special character, characters XML forbids among them, every cut and every chunking; implements `ArrayDelivery` |
| `cli` | `ZeroMeansDone`, `ClosedMeansWhole`, `StopsReading`, `Exits` | three commands, four formats on either side, every document, a file, the input itself or a pipe as output, a disk that fills or a reader that leaves at any step |
| `response` | `EndedMeansWhole`, `StopsPulling`, `Responds` | two adapters, known and unknown formats, a source and an element that fail, a client that leaves at any step |
| `conformance` | `SummaryAgrees`, `ExactWhenSound` | every outcome of two cases in two languages and formats, runners that run again or not at all, a case added or retired at any time |
| `split_number` | `ChunkingInvisible` | violated, see below |
| `writer_closed` | `GoneSettles` | violated, see below |

Each module also states its type invariant (`TypeOK`, `WriterTypeOK`) and a few
plainer facts (`NoLostWakeup`; `MissingSparesOutput` and `SummaryAfterOutput` of
`Cli`; `BodyIsPrefix` and `Lazy` of `Response`) that hold on the instances of its run
without being listed there. `arrays_delivery.cfg` checks that `JsonArrays`
implements `ArrayDelivery`, on values that no read can split.

Exceptions. Where the ports promise less than one another, the property says so
by name instead of being weaker for all. In `arrays`: `Splittable` (Python and numbers of two digits
or more), Python in `CompleteMeansWhole` (it ends normally between values), and Java's
encoder there: Jackson's generator closes the open array when
the try-with-resources of `FlatWire.java:55` closes it, so an array whose source failed
reads as a whole one. `Refused` (in `arrays`) and `Readable` (in `IntactVerdict`) name the values a decoder
does not read: text that is not JSON, nesting past the guard's limit, and nesting past
the parser's, whichever is lower. With the default guard of 200 it is the parser's in Rust and
.NET: an element nested 150 deep is refused by both, so that the guard's limit is
not reached. In `binary`: `Lossless` names the integers Java,
.NET and, for CBOR's negative ones, Go wrap and the non-finite floats Rust reads as null;
`RefusedForCause` the byte strings Go, Rust and Java refuse; `PortSpecific` the
MessagePack values written in different bytes (keys that the two orders sort
differently, .NET's four-byte `float`, Node's eight-byte `BigInt`). In `xml`:
`KeySurvives` and `PartSurvives` name the keys, carriage returns and numbers that
come out as others between two ports, `Malformed` the items that Python and Go refuse (`Unquoted`: Python's
key with a double quote; `Foul`: a key with a character XML forbids; a text with one), and
the two scanners may end wherever the input does (`whole` is true for
them). In `cli`: `ZeroMeansDone` leaves out a conversion in place and a reader that left
its pipe. In `response`: a Go body that ends in the text of an error. In `conformance`:
the summary says that some cases fail when only a case fails that has left the corpus (`Unshown`). Everything
outside these names is checked for all ports together. The configurations below take the
exceptions that contradict a document away again.

Bounds. Sources have at most three values in `encoder` and `writer` and two elsewhere. An array with two values has every kind of boundary the code
distinguishes: first, later and last element, and a comma that a value follows
or does not; a third value repeats the second. Chunks have one or two symbols: one puts
a boundary at each place, two lets a chunk straddle each. `MaxDepth` is 1 in the
checked streams and 2 in `arrays` where the code has 200, so that there are values below, at and above
the limit. `ParserDepth` has the order the code meets: in `MCCheckedStream` .NET, which has no guard in
its scanner, stops where others go on and Rust's parser behind the guard; in `MCJsonArrays` Rust's and Java's
parsers stop below the guard's limit, Go's at the same depth, and Python and Node have none.
In `writer` the mark is 3 with chunks of 1 and larger ones, so a write can
stay below, reach and jump over it. `CompactAt` is 3 where Node has 65536,
so that it drops its prefix inside and between values. In `binary` a byte has four
values and the fix forms hold one: the widths then hold 4, 16, 256 and 65536 numbers, and
`Boundaries` and `Lengths` in `MCBinaryStream` list the numbers on both sides of each. The
structure of every decision is the code's; its constants (127, 31, 15,
23) are parameters. `MCXmlStream` has a value of each type, every character some port
treats in its own way as a text and in a key (a tab, line ends, quotes, a backslash, one that does not print, one
that XML forbids), integers past 2^53 and past 64 bits, the two floats that are not finite, nested values, and collections of up
to two items; `MaxNodes` is 9, which the walk of none of them exceeds (TLC evaluates
`ValuesAssumption`). In `cli` documents have up to four elements where the buffer holds two
chunks, so that it fills, drains and is left half full; limits lie below and past the length.
In `response` three elements allow a client to leave before, between and after
comma and element. `conformance` has a case of each tier, a binary and a
text format, two languages and two encodings: claims compare pairs. Its symmetry
in languages and in bytes is sound: no definition names one of either, and
only invariants are checked. No bound truncates a
behaviour that had begun: the sources are finite, so the runs cover every
behaviour of their instances. `CHECK_DEADLOCK` is off because encoders
and decoders end; the conformance suite does not, and has it on.

Fairness. The encoder is weakly fair in `EncSpec`: its thread runs. In
`CheckedStream` the encoder and the decoder's caller are weakly fair: the caller
goes on asking. In `NodeWriter` the encoder's turns, the flush of the Writable and its ticks are
weakly fair: the event loop runs what is queued, the source answers,
and an open sink goes on reading. No fault, close or abort is fair: nothing
obliges a connection to break, so no liveness property depends on one. In
`JsonArrays`, `BinaryStream` and `XmlStream` the next-state relation is weakly fair: it has one
actor, the decoder, whose caller goes on asking and whose reads return. In
`Cli` the process's own steps are weakly fair, in `Response` the server's: both run
on, whether or not anyone reads. `Break` and the client's `Leave` are not fair.
`EncoderSettles` excludes a Node encoder on a dead connection, which is
the subject of two findings.

### Where the code and its documents disagree

Each is a configuration that TLC ends with a counterexample to the sentence of the
document. The first two are runs, and `PROJECT.json` quotes their lines; the others
are kept beside them (`<name>.cfg`, checked on the module given).

| Configuration | Sentence | What happens |
|---|---|---|
| run `writer_closed` | encoders reject rather than hang when the socket closes | a Writable destroyed without an error emits only `close`, which `write` does not await |
| run `split_number` | `raw_decode` parses exactly one value, and one that straddles a chunk is retried | a read that ends inside `12` makes Python yield `1` and `2` |
| `cross_language` (`MCCheckedStream`) | a checked stream of one port decodes in every other | five ports write the comma before they encode, so a failing element leaves `[1,]`; Go and Java reject that and never see the `complete:false` behind it, the scanners skip it |
| `checked_trailer_hangs` (`MCNodeWriter`) | as `writer_closed`, and "then re-throws" | the handler writes its trailer to the Writable that just failed and waits for ever |
| `cut_unreported` (`MCJsonArrays`) | an array that is not closed is an error | Python ends normally when the stream is cut after a value or a comma |
| `byte_identical` (`MCBinaryStream`) | both binary formats are byte-identical across the six ports | Node, Java and .NET sort the keys of a MessagePack map by UTF-16 units, the others by code points or UTF-8 bytes |
| `xml_key_quote` (`MCXmlStream`) | round-tripping "returns exactly the same object" (`xml.py:4-6`) | `quoteattr` puts a key with a double quote between single ones, of which `xml.py:67` keeps the inside: the document is not well-formed; a character that XML forbids is written as it is, and the parser refuses the document at it |
| `xml_cut_unreported` (`MCXmlStream`) | the end is a "clean end (root closed)" (`rust/src/xml.rs:159`) | Node and Rust end normally wherever the input ends |
| `xml_memory` (`MCXmlStream`) | memory stays proportional to the largest element (`xml.py:122-126`) | `elem.clear()` empties an item, which stays a child of the root: one emptied child per item |
| `convert_in_place` (`MCCli`) | convert streams a file from one format to another (`cli.py:79`) | with one path for both the input is emptied first; from a binary format the exit code is 0 |
| `response_status` (`MCResponse`) | an encoder's error is answered with status 500 (`adapters.go:74`) | `WriteArray` flushes before it returns the error, and with that 200 is sent |
| `overclaim` (`MCConformance`) | "no overclaiming" (`aggregate.py:9`) | a language whose case failed, or that never ran it, drops out of the comparison that "every language" is claimed of; and "some cases fail — see matrix above" (`aggregate.py:138`, `FailureIsShown`) is said over a matrix without a failure when a file still has one of a case that left the corpus |

Smaller disagreements are stated in the modules without a run of their own.
`OrdinaryJson` (`CheckedEncoder`): the dangling comma means that a failed
checked stream is not JSON. `TruncationReported` (`CheckedStream`): a stream cut
inside its trailer raises the parser's error and not `TruncatedStream`, in Java also
inside an element. `OnlySentElements` (same module): a Go decoder cut inside `12`
hands over `1` before it reports the truncation. `AbortStopsProduction`
(`NodeWriter`): the abort signal does not reach the MessagePack, CBOR and XML
encoders. `ErrorsReject` (same module): an `error` that arrives while the encoder awaits its
source finds no listener, because `write` removes its own
when the Writable takes the chunk. Go's binary readers report a value cut right before one of
its bytes as `io.EOF` (outcome `eof` in `BinaryReader`), the error that elsewhere means the normal end.
Rust's `with_max_depth(200)` "bounds how deeply a single element may nest" (`rust/README.md:36-37`): it can
lower the bound, and past 127 the parser's own is in force.

## 4. Proofs

Every theorem holds for all values of the constants that satisfy the named
assumption of the module, not only for the instances of the runs.

| Module | Theorem | States |
|---|---|---|
| `CheckedStreamProofs` | `EncoderTyped` | `EncSpec => []EncTypeOK` |
| | `EncoderSafe` | `EncSpec => []EncInv`, the inductive invariant |
| | `StatusIsLast`, `WireInOrder`, `StatusIsTruthful`, `FailureIsSignalled` | `StatusLast`, `ElementsInOrder`, `StatusTruthful`, `FailureSignalled` |
| | `WireIsFrames` | `EncSpec => []WireInv`: which byte of the wire belongs to what |
| | `StreamSafe` | `Spec => []StreamInv`, the inductive invariant |
| | `VerdictIsSound`, `BufferIsBounded`, `IntactIsReported` | `VerdictSound`, `BufferBounded`, `IntactVerdict` |
| | `OnlySent` | the values handed over are the first ones sent, in order |
| | `StreamDelivers` | `Spec => DeliverySpec`: the composition implements `CheckedDelivery` |
| `JsonArraysProofs` | `ArraysSafe` | `Spec => []ArraysInv`, the inductive invariant |
| | `ArraysTypeOK`, `ArraysFaithful`, `ArraysComplete`, `ArraysIntact`, `ArraysBounded` | `TypeOK`, `Faithful`, `CompleteMeansWhole`, `IntactDecodes`, `BufferBounded` |
| | `ArraysDeliver` | the initial states and the steps of the decoders are those of `ArrayDelivery` |
| | `DeliveryIsTold`, `VerdictIsLast` | what that gives the caller: the truth about the input, and nothing after the verdict |
| `BinaryStreamProofs` | `BinaryInv` | `Spec => []Inv`, the inductive invariant |
| | `BinaryTyped`, `BinaryFaithful`, `BinaryRefusals`, `BinaryBounded`, `BinarySameBytes` | `TypeOK`, `Faithful`, `RefusedForCause`, `BufferBounded`, `SameBytes` |
| | `BinaryDelivers` | the initial states and the steps of the readers are those of `ArrayDelivery` |
| `XmlStreamProofs` | `XmlInv` | `Spec => []Inv`, the inductive invariant |
| | `XmlTyped`, `XmlIntact`, `XmlBounded` | `TypeOK`, `IntactDecodes`, `BufferBounded` |
| | `XmlTexts` | the texts handed over are those of the first items, in order |
| | `XmlDelivers` | the initial states and the steps of the decoders are those of `ArrayDelivery` |
| `NodeWriterProofs` | `WriterSafe` | `Spec => []WriterInv`, the inductive invariant |
| | `MemoryIsBounded` | `BufferBounded` |
| | `ReturnMeansComplete`, `AbortIsPrompt`, `WakeUpIsOwed` | `CompleteWhenReturned`, `AbortPrompt`, `NoLostWakeup` |
| `CliProofs` | `CommandSafe` | `Spec => []CliInv`, the inductive invariant |
| | `ExitCodeTells`, `CloseTells`, `ReadingStops` | `ZeroMeansDone`, `ClosedMeansWhole`, `StopsReading` |
| `ResponseProofs` | `LeavingIsNoticed`, `SourceIsSpared` | `GoneInv`, and `StopsPulling` from it |
| | `BodyIsPlaced`, `EndIsWhole` | `BodyInv`, and `EndedMeansWhole` from it |
| `ConformanceProofs` | `ReportIsCurrent` | `Spec => []ReportInv` |
| | `SummaryMatchesTables`, `SummaryIsExact` | `SummaryAgrees`, `ExactWhenSound` |

Checked encoders. None of the safety properties is inductive by itself. `StatusLast` could be
broken from a state whose control point is inside the loop although a status
is on the wire, and `ElementsInOrder` from one in which the number of frames
does not fit `count`. The strengthening is `Progress`: at every control point it says
how many frames are on the wire (`Written` of them, and the comma when an
element is due in a port that writes it by itself) and what the source has left.
`EncInv` is the conjunction of all six. It holds on the instance of `encoder`;
the proof shows that `EncInit` implies it and that each of the twelve actions
and `Break` preserves it, one step for each action, and the temporal
theorems follow. Assumed are `TextAssumption` (the text of a value is not empty and
identifies the value) and `EncoderAssumption` (the ports are the six, `MaxItems`
is a number).

Checked streams. The decoders read bytes, and what they may conclude is a matter of
frames; so the proof goes through the layout of the wire. `WireInv` says where each frame
begins and ends and that the bytes of the wire between are its text, for any number of
frames. `StreamInv` then places the decoder on it. For a scanner `Held` says that the
buffer is the window of the wire that was read last, whatever was dropped and refilled,
and `Located` that the start of the segment is a slot of the wire (where a value or the end
of the array is due) and that `depth`, `inString` and `escape` are the lexer's state that many
symbols into the value due there. With that an outermost comma or `]` is where
the encoder put it, the slice cut there is the text of that value, and the trailer parsed
is the status. For a token reader `ReadPlace` is the end of the last value read. The
verdicts, the bound on the buffer and the verdict on an intact connection are read off the
places `done` and `trailer`; the refinement follows in one lemma for the
producer's steps and one for the decoder's, from the invariant before and after the step.

Assumed of the values are `TextAssumption`, `LexAssumption` (inside the text of a value is
no outermost comma or `]`, the text closes what it opens, and it does not end inside a
character) and `NumberAssumption` (a number is a text of digits, no other value begins with
one, and a value whose text begins another's is a number, as is the other): facts of the
JSON grammar, of which the numbers are the ones without sign or fraction. TLC evaluates
them for the values of its instances. `IntactVerdict` is about the scanners, as in its run, because a token reader rejects what
follows a dangling comma (configuration `cross_language`). `StreamDelivers` covers the scanners with
every fault, and the token readers with every fault but a plain end of stream, which they
take for the end of a number that was cut (`OnlySentElements`); it states this as its hypothesis.

Bare arrays. Nothing but the separators marks the values here, and three kinds of decoder
look for them. `Laid` fixes the wire: value i stands behind its slot and ends at
`Extent(i)`, whatever encoder wrote it and however it ended. It is stated of `wire` once,
from the recursion of `Joined`, and no step changes it. `Held` says as above that the text
held is the window read last. Then each kind of decoder has a place. `ScanAt`: a scanner
stands in the value after those it handed over, in the lexical state of that value's text,
at no depth the guard refuses. `ParseAt`: Python's cursor is behind that value or before it;
among numbers of several digits it may stand inside one, and then nothing is claimed of what
was handed over, which is the finding of `split_number`. `PullAt`: Go and Java stand at
`Extent`, or have taken the end of a cut stream for the end of a number (`CutOff`), the
exception that `Faithful` names. `Given` and `Judged` tie what was handed over and the
verdict to what arrived. From `ArraysInv` follow the four
invariants of the run `arrays` and `TypeOK`, which no run needs any more.

For the refinement `Measured` says what `arrived` and `whole` are; `Init` computes them
and no step changes them. Where every number has one digit (`OneDigitEach`, the hypothesis
of `ArraysDeliver`, true of the instance of `arrays_delivery`) no read splits one, and
every step hands over one value, ends with the verdict the input calls for, does both (the
bracket behind a last value) or is a stutter. The liveness of `ArrayDelivery` stays with
TLC.

MessagePack and CBOR. What makes a reader right here is arithmetic and layout, so the
proof has two halves. The first is about values and bytes alone. `DigitsNumber`: a
number written in w digits is read back modulo `Power[w]`. `IntHead` and its neighbours:
for every integer an encoder accepts, the width it chooses holds it, and the argument
read back, with its sign, is the integer again; `Signed` in two's complement included.
`Shape` says this of all atoms: a first byte that tells kind and width, that many bytes of
argument, and for a text its data. `OrderExists` shows that any finite set of keys can be
put in the order each port sorts by, so that `KeyOrder` chooses something. The walk over a
value is followed atom by atom: `Left` is the number of values still due behind each, and
it reaches 0 at the last atom and nowhere before. `WireLaid` puts this together: in
`Laid`, every byte of the input is one of a known atom of a known element.

The second half is the reader. `Window` says that the bytes held are the last that were
read, whatever was dropped (Python when it takes, the others when they fill). `Place`
puts the cursor on the layout: at the end of an element (`Between`), or before the first
byte, behind it, or behind the argument of the atom `Due` of element `Here` (`AtHead`,
`AtArgument`, `AtData`), with `todo` equal to the values due there. That equality is
what makes the reader hand over an element when its last atom is read and never
before, however deep it nests. `Given` and `Judged` tie what was handed over and the
verdict to what was sent, and `Bounded` the bytes at hand to the longest text. One lemma
for each action shows that the invariant is kept (`TakeHeadKeeps`, `TakeArgumentKeeps`,
`TakeDataKeeps`, `FillKeeps`, `FillFailsKeeps`, `BeginKeeps`, `CallerStopsKeeps`). The
invariant was checked with TLC first, on a part of the streams of `binary`. For the refinement `Judged` places a
refusal behind the start of an element: only then is it certain that the input did not
end between two elements.

Assumed are `CodecAssumption` (the fix forms hold a number of values that 64 bits can
count, 127 and 23 in the code), `BaseAssumption` (a byte has an even number of values) and
`ValuesAssumption`: what is streamed is a value of the types of the model, none longer than
four bytes can count and none of more than `MaxAtoms` atoms, any number. Past four
bytes Python raises (`msgpack.py:88-89`); values that refer to themselves have no encoding
in any port.

XML. An item is found by its tags, by looking for the next `</item>` at the right depth
(Node, Rust) or by counting events (Python, Go); so the proof is about where tags lie. `Laid`
fixes the document: item i ends at `Extent(i)`, its text consists of its nodes, node j
behind `Spot(i, j)`, and `TagLies` says that the tag of a node is the only one in
it and where it ends, whatever the port made of its attributes and its text. `Level` is the
number of elements open behind each node: 1 behind the last and behind no other. Two things
make a document malformed, and the proof ties each from the value that was streamed to the
symbols on the wire: a tag whose quotes are wrong is exactly one in which Python's encoder put a key
with a double quote (`Spoilt` of the node, `Awry` of its text), and a character XML forbids is on the wire
in exactly the nodes with one in a key that Go did not quote, or in a text (`Stained`, which
`FoulKey` and `FoulText` make up). `MalformedIs` puts them together.

Node and Rust: `Held` says that the text held is what was read and not yet handed over,
and with it that the first item it begins is the next one, whose end is the end
`Spans` finds. Python and Go: `Standing` puts them `Before` the root, `Inside` before a node
of the next item with `depth` the `Level` there and nothing illegal between the item's
start and the cursor (`Pure`), `AtRootEnd` or `Behind` it, and says which
tag is `Upcoming`. `Given` and `Judged` tie the texts and the verdict to what was sent.
One lemma for each action shows that the invariant is kept (`RefillKeeps`,
`TakeItemKeeps`, `ScanEndsKeeps`, `StartTagKeeps`, `EndTagKeeps`, `ClearKeeps`, `StopKeeps`,
`BadTagKeeps`, `InputEndsKeeps`). The four theorems on the
decoders and the refinement are read off it.

Assumed are `XmlAssumption` (the ports are the four that are modelled, a read returns
something) and `ValuesAssumption`: what is streamed is a value of the types of the model
whose walk ends within `MaxNodes` tags, any number. Values that refer to themselves have no
encoding in any port.

Node writer. `MemoryIsBounded` needs to know where a chunk may be written: `Room` says that
no write begins while the Writable asks for a pause. `CompleteWhenReturned` counts chunks, and needs the count at every
place before: `Accounted` says that `Due` chunks have been taken where no write is
pending, and one more where a write waits on an open Writable. Nothing is said of a
write that waits on a Writable that is gone: it never resolves, so no path
leads from there to a normal return. `NoLostWakeup` and `Prompt` are
inductive with the types.

Command line. What a command will write is fixed when its output is open: `At(i)`
is the chunk at position i of this script and `Length` its length. `OnScript` says
that the sink and the buffer hold a prefix of it, `Placed` how long a prefix at each
place while no exception is raised, and `Failed` that an exception means a
faulty input or a prefix that is not the whole and will not become it, because a sink
that is broken takes nothing more. `ClosedLast` ties the closing chunk to an input
that ended normally. The three properties are read off the invariant. There is
one lemma for each action.

Responses. `GoneInv` says where the encoder of a client that has left can be: only one
that has taken no element since can still take one. `BodyInv` says, for every place of the
encoder, up to which place of `Wire` the body goes; a response ends normally only from the
last one. Conformance. `ReportInv`
says that the files hold cases the corpus may have held, whatever it holds now, and that a report that is current
is what `Claims` makes of them; the theorems then compare `Claims` with the
tables, which for "the same bytes" needs that the sets compared are finite.

Induction. The induction rules of the library take an operator, which the installed
provers cannot instantiate. `Induction`, with which the proofs about streams open, is about a set of numbers
instead, and follows from the least element of its complement; with it the recursion of
`Lexed` (`LexedUnfolds`), `Joined`, `Power`, `Number`, both `Walk`s and `FlattenSeq` is proved to have a solution
and to satisfy its equations.
The other theorems avoid induction over data: `Wire` and the layout of the frames are given place by
place, and what a step appends is compared with one place.

Only model-checked: liveness, which the prover does not reach, the temporal part of `ArrayDelivery`
included; what `XmlStream.Faithful` says beyond `XmlTexts`, namely what the parse of an
item's text gives back, which is a recursion over the tree of tags in each port; and
that the layout of the encoder's frames ends in
what a trailer's parser accepts, beyond the symbols `CheckedWire` gives it.

## 5. Not modelled

- XML in Java and .NET, where StAX and `XmlWriter`/`XmlReader` write and read the tags,
  and documents no port writes: comments, CDATA, other attributes, white space.
- In XML: negative zero, which Node writes as the integer 0; Go's `float32`, written in the
  fewest digits that tell it and read as another `float64`; lone surrogates; Python's integers of more than 4300 digits, which `int` refuses;
  the key `__proto__` in Node; the depth of the codecs' own recursion.
- A failing `open` of the command line's output (`cli.py:40`), and what `net/http` buffers before its
  writes to a client that has left begin to fail.
- A peer that keeps the connection open after the trailer: the decoders of checked streams read to
  its end (`failure.py:160`) and wait for as long.
- The Java and .NET adapters, which choose an encoder and set a header.
- .NET's bare JSON decoder, which is one call of System.Text.Json.
- A bare JSON element that serde or Jackson began to write before it failed; the models
  write an element whole or not at all.
- Bytes no port writes but a reader may accept: half and single floats and `undefined` in
  CBOR, extension types in MessagePack. Node's conversion of integral floats to integers.
- What a caller gets who goes on after an error of a Rust iterator. The models stop
  with the first error, as the other ports do.
- Option parsing of the command line and the wording of what it prints; the maturity
  table of the conformance report.
- `scripts/check_versions.py`, which compares the manifests once and keeps no state;
  benchmarks and the performance guard, which measure; the playground and packaging.

## 6. Plan

1. Done: the checked stream end to end, the Node writer, the encoder's proofs.
2. Done: bare JSON arrays, for every chunking and cut.
3. Done: MessagePack and CBOR, between any two ports.
4. Done: XML between four ports, with the silent end of the scanners; the command line,
   the HTTP adapters and the conformance suite.
5. Done: `ArrayDelivery`, and that XML, the binary formats and, for values no read
   can split, bare arrays implement it.
6. Done: the proofs of section 4.
7. Done: the proofs of `CheckedStream` and its refinement, the memory of the Node writer,
   the body of a response.
8. Done: the proofs of `JsonArrays` for every port that is modelled, and its refinement of
   `ArrayDelivery`.
9. Done: the proofs of `BinaryStream` and its refinement of `ArrayDelivery`.
10. Done: the proofs of `XmlStream` and its refinement of `ArrayDelivery`.
11. Left: that parsing an item's text gives its value back (`XmlStream.Faithful`), by following
   the parser along the `Walk` that wrote the text.
