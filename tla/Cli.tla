-------------------------------- MODULE Cli --------------------------------
(***************************************************************************)
(* The command line of Python: cat and stats read a document and write to  *)
(* the standard output, convert reads one document and writes another.     *)
(* The output is a buffer and what it drains into, a file or a pipe whose  *)
(* reader may leave.                                                       *)
(*                                                                         *)
(* A document is the number of its whole elements and how its text ends:   *)
(* "whole", "between" two elements with the close missing, "inside" an     *)
(* element, or "empty", before anything of it.  A number of Python's JSON  *)
(* decoder that is cut counts as a whole element.  bad is the element that *)
(* the target cannot express (bytes in JSON or XML, an integer past 64     *)
(* bits in MessagePack or CBOR), 0 if there is none.                       *)
(***************************************************************************)
EXTENDS Integers, SequencesExt

CONSTANTS
    Formats,    \* the formats of the documents
    MaxItems,   \* the most elements in one
    Limits,     \* the values of --limit, 0 for none
    BufferSize  \* the chunks the output's buffer holds

VARIABLES
    cmd, src, dst, limit,   \* the command and its options
    place,          \* where the output goes: "file", "same" or "pipe"
    present, doc,   \* whether the input exists, and what it holds
    sent,           \* what it held when the command was given
    pc, pulled,     \* where the command is, and the elements decoded
    err,            \* the exception that is raised, or "none"
    buffer, sink,   \* the chunks buffered, and those past the buffer
    broken, late,   \* whether writes past the buffer fail, and the elements
                    \* decoded since
    message, code   \* whether the summary is out, and the exit code

options == <<cmd, src, dst, limit, place, present, sent>>
output  == <<buffer, sink>>
vars    == <<options, doc, pc, pulled, err, output, broken, late, message, code>>

ASSUME CliAssumption ==
    /\ Formats \subseteq {"json", "xml", "msgpack", "cbor"}
    /\ MaxItems \in Nat /\ Limits \subseteq Nat
    /\ BufferSize \in Nat \ {0}

-----------------------------------------------------------------------------
Framed(fmt)  == fmt \in {"json", "xml"}
Documents    == [n : 0..MaxItems, end : {"whole", "between", "inside"}, bad : 0..MaxItems]
                  \cup {[n |-> 0, end |-> "empty", bad |-> 0]}
ToStdout     == place = "pipe"

\* A chunk is an element, by its position, or one of these.
Opening == 0
Closing == -1
Stats   == -2
Old     == -3
Elements(n) == [i \in 1..n |-> i]

\* How the decoder ends: normally, or with an exception.  A binary stream is
\* whole wherever no element is open, and Python's JSON decoder ends normally
\* between two elements, once it has seen the bracket.
Ending(fmt, end) ==
    CASE end = "whole" -> "none"
      [] fmt = "xml"   -> "ParseError"
      [] fmt = "json"  -> IF end = "between" THEN "none" ELSE "ValueError"
      [] OTHER         -> IF end = "inside" THEN "EOFError" ELSE "none"

-----------------------------------------------------------------------------
Init ==
    /\ cmd \in {"cat", "convert", "stats"}
    /\ src \in Formats
    /\ dst \in IF cmd = "convert" THEN Formats ELSE {"lines"}
    /\ limit \in IF cmd = "cat" THEN Limits ELSE {0}
    /\ place \in IF cmd = "convert" THEN {"file", "same", "pipe"} ELSE {"pipe"}
    /\ present \in BOOLEAN
    /\ doc \in Documents /\ doc.bad <= doc.n
    /\ sent = doc
    /\ pc = "openIn" /\ pulled = 0 /\ err = "none"
    /\ buffer = <<>>
    /\ sink = IF place = "file" THEN <<Old>> ELSE <<>>
    /\ broken = FALSE /\ late = 0
    /\ message = FALSE /\ code = 0

Raise(e, next) == err' = e /\ pc' = next

\* With the output open, the with statement closes it whatever happened.
Leave == IF cmd = "convert" THEN "close" ELSE "main"

OpenIn ==
    /\ pc = "openIn"
    /\ IF present THEN pc' = (IF cmd = "convert" THEN "openOut" ELSE "pull") /\ UNCHANGED err
                  ELSE Raise("FileNotFoundError", "main")
    /\ UNCHANGED <<options, doc, pulled, output, broken, late, message, code>>

\* Mode "wb" empties the file, also when it is the input.
OpenOut ==
    /\ pc = "openOut"
    /\ pc' = "header"
    /\ sink' = <<>>
    /\ doc' = IF place = "same" THEN [n |-> 0, end |-> "empty", bad |-> 0] ELSE doc
    /\ UNCHANGED <<options, pulled, err, buffer, broken, late, message, code>>

-----------------------------------------------------------------------------
(***************************************************************************)
(* Writes.  A chunk that finds the buffer full waits for it to drain.      *)
(***************************************************************************)
Room == Len(buffer) < BufferSize

Put(c) == Room /\ buffer' = Append(buffer, c)

WriteError == IF ToStdout THEN "BrokenPipeError" ELSE "OSError"

\* The chunk the command writes next, if it is at a write.
AboutToWrite ==
    \/ pc \in {"header", "trailer"} /\ Framed(dst)
    \/ pc = "write" /\ pulled # doc.bad /\ cmd # "stats"
    \/ pc = "report" /\ cmd = "stats"

\* Faults: a pipe that is gone is not noticed, or waited for.
DrainDrops ==
    /\ AboutToWrite /\ ~Room
    /\ buffer' = <<>>
    /\ sink' = IF broken THEN sink ELSE sink \o buffer
    /\ UNCHANGED <<options, doc, pc, err, pulled, broken, late, message, code>>

DrainWaits ==
    /\ AboutToWrite /\ ~Room /\ ~broken
    /\ sink' = sink \o buffer /\ buffer' = <<>>
    /\ UNCHANGED <<options, doc, pc, err, pulled, broken, late, message, code>>

Drain ==
    /\ AboutToWrite /\ ~Room
    /\ IF broken THEN Raise(WriteError, Leave) /\ UNCHANGED output
       ELSE /\ sink' = sink \o buffer /\ buffer' = <<>>
            /\ UNCHANGED <<err, pc>>
    /\ UNCHANGED <<options, doc, pulled, broken, late, message, code>>

Header ==
    /\ pc = "header"
    /\ IF Framed(dst) THEN Put(Opening) ELSE UNCHANGED buffer
    /\ pc' = "pull"
    /\ UNCHANGED <<options, doc, pulled, err, sink, broken, late, message, code>>

Pull ==
    /\ pc = "pull" /\ pulled < doc.n
    /\ pulled' = pulled + 1
    /\ late' = IF broken THEN late + 1 ELSE late
    /\ pc' = "write"
    /\ UNCHANGED <<options, doc, err, output, broken, message, code>>

\* Fault: the trailer is written whatever ended the loop.
PullEndsAlways ==
    /\ pc = "pull" /\ pulled = doc.n
    /\ err' = Ending(src, doc.end)
    /\ pc' = IF cmd = "convert" THEN "trailer" ELSE IF err' = "none" THEN "report" ELSE Leave
    /\ UNCHANGED <<options, doc, pulled, output, broken, late, message, code>>

\* The decoder ends.
PullEnds ==
    /\ pc = "pull" /\ pulled = doc.n
    /\ IF Ending(src, doc.end) = "none"
         THEN pc' = (IF cmd = "convert" THEN "trailer" ELSE "report") /\ UNCHANGED err
         ELSE Raise(Ending(src, doc.end), Leave)
    /\ UNCHANGED <<options, doc, pulled, output, broken, late, message, code>>

\* An element crosses; stats only measures it.
Write ==
    /\ pc = "write"
    /\ IF pulled = doc.bad THEN Raise("TypeError", Leave) /\ UNCHANGED buffer
       ELSE /\ IF cmd = "stats" THEN UNCHANGED buffer ELSE Put(pulled)
            /\ pc' = IF limit > 0 /\ pulled >= limit THEN "report" ELSE "pull"
            /\ UNCHANGED err
    /\ UNCHANGED <<options, doc, pulled, sink, broken, late, message, code>>

Trailer ==
    /\ pc = "trailer"
    /\ IF Framed(dst) THEN Put(Closing) ELSE UNCHANGED buffer
    /\ pc' = "close"
    /\ UNCHANGED <<options, doc, pulled, err, sink, broken, late, message, code>>

\* Closing flushes.  When that fails, its exception takes the place of the one
\* the block was left with.
Close ==
    /\ pc = "close"
    /\ buffer' = <<>>
    /\ IF broken /\ buffer # <<>>
         THEN Raise(WriteError, "main") /\ UNCHANGED sink
         ELSE /\ sink' = sink \o buffer
              /\ pc' = IF err = "none" THEN "report" ELSE "main"
              /\ UNCHANGED err
    /\ UNCHANGED <<options, doc, pulled, broken, late, message, code>>

\* What stats has measured goes to the standard output, the summary of
\* convert to the standard error unless --quiet is given.
Report ==
    /\ pc = "report"
    /\ IF cmd = "stats" THEN Put(Stats) ELSE UNCHANGED buffer
    /\ message' \in {FALSE, cmd = "convert"}
    /\ pc' = "main"
    /\ UNCHANGED <<options, doc, pulled, err, sink, broken, late, code>>

-----------------------------------------------------------------------------
\* Fault: an input that is cut is handled like a pipe that is gone.
ExitCodeQuiet(e) ==
    CASE e \in {"none", "BrokenPipeError", "EOFError"} -> 0
      [] e \in {"FileNotFoundError", "ValueError"} -> 2
      [] OTHER -> 1

\* What main makes of the exception.  The errors of XML's parser, of the
\* encoders and of a full disk reach the interpreter.
ExitCode(e) ==
    CASE e \in {"none", "BrokenPipeError"} -> 0
      [] e \in {"FileNotFoundError", "ValueError", "EOFError"} -> 2
      [] OTHER -> 1

\* A standard output whose reader has left is closed, with what it buffered.
Main ==
    /\ pc = "main"
    /\ code' = ExitCode(err)
    /\ buffer' = IF err = "BrokenPipeError" THEN <<>> ELSE buffer
    /\ pc' = "exit"
    /\ UNCHANGED <<options, doc, pulled, err, sink, broken, late, message>>

\* The interpreter flushes the standard output and exits with 120 if it cannot.
Exit ==
    /\ pc = "exit"
    /\ buffer' = <<>>
    /\ IF broken /\ buffer # <<>> THEN code' = 120 /\ UNCHANGED sink
                                  ELSE sink' = sink \o buffer /\ UNCHANGED code
    /\ pc' = "done"
    /\ UNCHANGED <<options, doc, pulled, err, broken, late, message>>

\* The reader of the pipe leaves, or the disk is full.
Break ==
    /\ pc # "done" /\ ~broken
    /\ broken' = TRUE
    /\ UNCHANGED <<options, doc, pc, pulled, err, output, late, message, code>>

Step ==
    \/ OpenIn \/ OpenOut \/ Header \/ Pull \/ PullEnds \/ Write \/ Trailer
    \/ Drain \/ Close \/ Report \/ Main \/ Exit

Next == Step \/ Break

\* The process runs; the environment need not interfere.
Spec == Init /\ [][Next]_vars /\ WF_vars(Step)

-----------------------------------------------------------------------------
\* The type invariant.
TypeOK ==
    /\ pulled \in 0..doc.n /\ late \in 0..pulled
    /\ Len(buffer) <= BufferSize
    /\ err \in {"none", "FileNotFoundError", "ValueError", "EOFError", "ParseError",
                "TypeError", "BrokenPipeError", "OSError"}
    /\ code \in {0, 1, 2, 120} /\ broken \in BOOLEAN /\ message \in BOOLEAN
    /\ pc = "done" => buffer = <<>>

\* The output of a conversion of n elements, and what the command was to write.
Document(n) == IF Framed(dst) THEN <<Opening>> \o Elements(n) \o <<Closing>> ELSE Elements(n)
Wanted ==
    CASE cmd = "convert" -> Document(sent.n)
      [] cmd = "cat"     -> Elements(IF limit > 0 /\ limit < sent.n THEN limit ELSE sent.n)
      [] OTHER           -> <<Stats>>

\* Exit code 0 tells exactly that the output is complete and that the decoder,
\* where it came to the end of the input, ended normally.  There are two
\* exceptions: a reader that leaves a pipe, which also hides an error of the
\* input, and a conversion in place.
InputFine == limit \in 1..sent.n \/ Ending(src, sent.end) = "none"
ZeroMeansDone ==
    pc = "done" /\ place # "same" /\ ~(ToStdout /\ broken) =>
        (code = 0 <=> present /\ sink = Wanted /\ InputFine)

\* A framed output that is closed is the whole of the input: what an error
\* leaves behind does not parse.  In place, the input is what was left of it.
ClosedMeansWhole ==
    cmd = "convert" /\ Framed(dst) /\ sink # <<>> /\ Last(sink) = Closing =>
        sink = Document(doc.n) /\ doc.bad = 0 /\ Ending(src, doc.end) = "none"

\* A command whose input does not exist leaves the output alone.
MissingSparesOutput == ~present => sink = IF place = "file" THEN <<Old>> ELSE <<>>

\* The summary of a conversion appears after its output has left the buffer.
SummaryAfterOutput == message => buffer = <<>> /\ sink = Document(doc.n)

\* Once the pipe is closed, cat and convert decode what fills the buffer and
\* one element more, however long the input.
StopsReading == ToStdout /\ cmd # "stats" => late <= BufferSize + 1

\* Every command ends, whatever its input and whoever reads its output.
Exits == <>(pc = "done")

\* A conversion that succeeds has converted its input.
ConvertsInput == pc = "done" /\ cmd = "convert" /\ code = 0 /\ ~broken => sink = Document(sent.n)
=============================================================================
