------------------------------ MODULE CliProofs ------------------------------
(***************************************************************************)
(* What the command line guarantees for documents and buffers of any size. *)
(*                                                                         *)
(* A command writes a text that is fixed when it starts, its script.  What *)
(* has left it, in the sink and the buffer, is a prefix of the script, and *)
(* the place in the code says how long a prefix.                           *)
(***************************************************************************)
EXTENDS Cli, SequenceTheorems, TLAPS

-----------------------------------------------------------------------------
\* The script: its opening, its length, and the chunk at position i.
Framing == cmd = "convert" /\ Framed(dst)
Lead    == IF Framing THEN 1 ELSE 0

Length ==
    CASE cmd = "convert" -> doc.n + 2 * Lead
      [] cmd = "cat"     -> IF limit > 0 /\ limit < doc.n THEN limit ELSE doc.n
      [] OTHER           -> 1

At(i) ==
    CASE cmd = "stats"             -> Stats
      [] Framing /\ i = doc.n + 2  -> Closing
      [] OTHER                     -> i - Lead

\* What has left the command.
Total == Len(sink) + Len(buffer)

OnScript ==
    /\ \A i \in 1..Len(sink) : sink[i] = At(i)
    /\ \A i \in 1..Len(buffer) : buffer[i] = At(Len(sink) + i)

Typed ==
    /\ cmd \in {"cat", "convert", "stats"} /\ place \in {"file", "same", "pipe"}
    /\ limit \in Nat /\ (cmd # "cat" => limit = 0) /\ (place # "pipe" => cmd = "convert")
    /\ doc.n \in Nat /\ doc.bad \in 0..doc.n
    /\ place # "same" => doc = sent
    /\ pulled \in 0..doc.n /\ late \in Nat
    /\ sink \in Seq(Int) /\ buffer \in Seq(Int) /\ Len(buffer) <= BufferSize

\* Until the output is open, and when there is no input, nothing has left.
Untouched == buffer = <<>> /\ sink \in {<<>>, <<Old>>}
Unopened ==
    /\ pc \in {"openIn", "openOut"} =>
          Untouched /\ pulled = 0 /\ err = "none" /\ late = 0
    /\ pc = "openIn" /\ cmd # "convert" => sink = <<>>
    /\ pc = "openOut" => present /\ cmd = "convert"
    /\ ~present => pc \in {"openIn", "main", "exit", "done"} /\ Untouched
    /\ ~present /\ pc # "openIn" => err = "FileNotFoundError"

Running == present /\ pc \notin {"openIn", "openOut"}

\* The decoder, where it came to the end, ended normally.
Fine     == Ending(src, doc.end) = "none"
Answered == limit \in 1..doc.n \/ Fine

\* While nothing has gone wrong the place tells what has left.
Placed ==
    Running /\ err = "none" =>
        /\ pc = "header" => cmd = "convert" /\ pulled = 0 /\ Total = 0
        /\ pc = "pull" =>
              /\ Total = Lead + (IF cmd = "stats" THEN 0 ELSE pulled)
              /\ limit > 0 => pulled < limit
              /\ doc.bad \notin 1..pulled
        /\ pc = "write" =>
              /\ pulled > 0
              /\ Total = Lead + (IF cmd = "stats" THEN 0 ELSE pulled - 1)
              /\ limit > 0 => pulled <= limit
              /\ doc.bad \notin 1..pulled - 1
        /\ pc = "trailer" =>
              cmd = "convert" /\ Total = Lead + doc.n /\ Fine /\ doc.bad = 0
        /\ pc = "close" => cmd = "convert" /\ Total = Length /\ Fine /\ doc.bad = 0
        /\ pc = "report" =>
              /\ Answered
              /\ Total = IF cmd = "stats" THEN 0 ELSE Length
              /\ cmd = "convert" => buffer = <<>>
        /\ pc \in {"main", "exit", "done"} =>
              /\ Answered
              /\ Total = Length \/ (pc = "done" /\ ToStdout /\ broken)
              /\ cmd = "convert" => buffer = <<>>

\* An exception means that the input is at fault, or that the script has not
\* been written to its end, and will not be.
Failed ==
    Running /\ err # "none" =>
        /\ err # "FileNotFoundError"
        /\ pc \in {"close", "main", "exit", "done"}
        /\ pc = "close" => cmd = "convert"
        /\ pc # "close" /\ cmd = "convert" => buffer = <<>>
        /\ err = "BrokenPipeError" => ToStdout /\ broken
        /\ \/ ToStdout /\ broken
           \/ ~Answered
           \/ Total < Length
           \/ broken /\ Len(sink) < Length

\* The close is written after the whole of an input that is in order.
ClosedLast == Running => Total <= Length /\ (Framing /\ Total > doc.n + 1 => Fine /\ doc.bad = 0)

Coded ==
    /\ pc \in {"exit", "done"} =>
          /\ err = "none" => code = 0 \/ (ToStdout /\ broken)
          /\ err \notin {"none", "BrokenPipeError"} => code # 0
    /\ pc = "done" => buffer = <<>>

CliInv ==
    /\ Typed /\ Unopened
    /\ Running => OnScript
    /\ Placed /\ Failed /\ ClosedLast /\ Coded

-----------------------------------------------------------------------------
(***************************************************************************)
(* What leaves stays on the script.                                        *)
(***************************************************************************)
LEMMA ScriptSame ==
    ASSUME UNCHANGED <<options, doc>>
    PROVE  /\ Lead' = Lead /\ Length' = Length /\ (Framing' <=> Framing)
           /\ \A i : At(i)' = At(i)
           /\ (Fine' <=> Fine) /\ (Answered' <=> Answered)
BY DEF options, Lead, Length, Framing, At, Fine, Answered

LEMMA LeadType == Lead \in {0, 1} /\ (Lead = 1 <=> Framing)
BY DEF Lead

LEMMA LengthType == Typed => Length \in Nat
BY LeadType DEF Typed, Length

\* The next chunk of the script is put into the buffer.
LEMMA PutKeeps ==
    ASSUME Typed, OnScript, UNCHANGED <<options, doc, sink>>,
           NEW c \in Int, Put(c), c = At(Total + 1)
    PROVE  /\ OnScript' /\ Total' = Total + 1
           /\ buffer' \in Seq(Int) /\ Len(buffer') <= BufferSize
<1>. USE DEF Typed, Put, Room, Total
<1>1. /\ buffer' \in Seq(Int) /\ Len(buffer') = Len(buffer) + 1
      /\ buffer'[Len(buffer) + 1] = c
      /\ \A i \in 1..Len(buffer) : buffer'[i] = buffer[i]
  BY AppendProperties
<1>2. sink' = sink
  OBVIOUS
<1>3. \A i \in 1..Len(buffer') : buffer'[i] = At(Len(sink) + i)
  <2>. SUFFICES ASSUME NEW i \in 1..Len(buffer') PROVE buffer'[i] = At(Len(sink) + i)
    OBVIOUS
  <2>1. CASE i \in 1..Len(buffer)
    BY <1>1, <2>1 DEF OnScript
  <2>2. CASE i = Len(buffer) + 1
    <3>1. Total + 1 = Len(sink) + i
      BY <2>2
    <3>. QED
      BY <1>1, <2>2, <3>1
  <2>. QED
    BY <1>1, <2>1, <2>2
<1>4. OnScript'
  BY <1>2, <1>3, ScriptSame, Zenon DEF OnScript
<1>. QED
  BY <1>1, <1>4, CliAssumption

\* The buffer drains.
LEMMA DrainKeeps ==
    ASSUME Typed, OnScript, UNCHANGED <<options, doc>>,
           sink' = sink \o buffer, buffer' = <<>>
    PROVE  /\ OnScript' /\ Total' = Total
           /\ sink' \in Seq(Int) /\ buffer' \in Seq(Int) /\ Len(buffer') = 0
<1>. USE DEF Typed, Total
<1>1. /\ sink' \in Seq(Int) /\ Len(sink') = Len(sink) + Len(buffer)
      /\ \A i \in 1..Len(sink') :
            sink'[i] = IF i <= Len(sink) THEN sink[i] ELSE buffer[i - Len(sink)]
  BY ConcatProperties
<1>2. buffer' \in Seq(Int) /\ Len(buffer') = 0
  OBVIOUS
<1>3. \A i \in 1..Len(sink') : sink'[i] = At(i)
  <2>. SUFFICES ASSUME NEW i \in 1..Len(sink') PROVE sink'[i] = At(i)
    OBVIOUS
  <2>1. CASE i <= Len(sink)
    BY <1>1, <2>1 DEF OnScript
  <2>2. CASE i > Len(sink)
    <3>1. i - Len(sink) \in 1..Len(buffer)
      BY <1>1, <2>2
    <3>. QED
      BY <1>1, <2>2, <3>1 DEF OnScript
  <2>. QED
    BY <1>1, <2>1, <2>2
<1>4. OnScript'
  BY <1>2, <1>3, ScriptSame DEF OnScript
<1>. QED
  BY <1>1, <1>2, <1>4

\* The buffer is lost.
LEMMA DropKeeps ==
    ASSUME Typed, OnScript, UNCHANGED <<options, doc, sink>>, buffer' = <<>>
    PROVE  /\ OnScript' /\ Total' = Len(sink) /\ Total' <= Total
           /\ buffer' \in Seq(Int) /\ Len(buffer') = 0
BY ScriptSame DEF Typed, Total, OnScript

\* Nothing leaves.
LEMMA OutputSame ==
    ASSUME Typed, UNCHANGED <<options, doc, output>>
    PROVE  (OnScript' <=> OnScript) /\ Total' = Total
BY ScriptSame DEF output, Total, OnScript

-----------------------------------------------------------------------------
(***************************************************************************)
(* One lemma for each action.                                              *)
(***************************************************************************)
LEMMA InitSafe == Init => CliInv
<1>. SUFFICES ASSUME Init PROVE CliInv
  OBVIOUS
<1>1. Typed
  <2>1. doc.n \in Nat /\ doc.bad \in 0..doc.n
    BY CliAssumption DEF Init, Documents
  <2>2. limit \in Nat /\ (cmd # "cat" => limit = 0)
    BY CliAssumption DEF Init
  <2>3. sink \in Seq(Int) /\ buffer \in Seq(Int) /\ Len(buffer) <= BufferSize
    BY CliAssumption DEF Init, Old
  <2>. QED
    BY <2>1, <2>2, <2>3 DEF Init, Typed
<1>2. Unopened
  BY DEF Init, Unopened, Untouched
<1>. QED
  BY <1>1, <1>2 DEF Init, CliInv, Running, Placed, Failed, ClosedLast, Coded

LEMMA OpenInSafe == CliInv /\ OpenIn => CliInv'
<1>. SUFFICES ASSUME CliInv, OpenIn PROVE CliInv'
  OBVIOUS
<1>. USE DEF CliInv, OpenIn, Raise
<1>1. Typed'
  BY DEF Typed, options, output
<1>2. Unopened'
  BY DEF Unopened, Untouched, options, output
<1>3. (Running => OnScript)' /\ Placed' /\ Failed' /\ ClosedLast'
  <2>1. CASE ~present
    BY <2>1 DEF options, Running, Placed, Failed, ClosedLast
  <2>2. CASE present /\ cmd = "convert"
    BY <2>2 DEF options, Running, Placed, Failed, ClosedLast
  <2>3. CASE present /\ cmd # "convert"
    <3>1. /\ sink' = <<>> /\ buffer' = <<>> /\ pc' = "pull" /\ err' = "none"
          /\ pulled' = 0 /\ UNCHANGED <<options, doc>>
      BY <2>3 DEF Unopened, Untouched, output
    <3>2. OnScript' /\ Total' = 0
      BY <3>1 DEF OnScript, Total
    <3>3. Lead' = 0 /\ ~Framing'
      BY <2>3, <3>1 DEF Lead, Framing, options
    <3>4. Length' \in Nat
      BY <1>1 DEF Typed, Length, Lead
    <3>. QED
      BY <1>1, <3>1, <3>2, <3>3, <3>4 DEF Placed, Failed, ClosedLast, Typed
  <2>. QED
    BY <2>1, <2>2, <2>3
<1>4. Coded'
  BY DEF Coded
<1>. QED
  BY <1>1, <1>2, <1>3, <1>4

LEMMA OpenOutSafe == CliInv /\ OpenOut => CliInv'
<1>. SUFFICES ASSUME CliInv, OpenOut PROVE CliInv'
  OBVIOUS
<1>. USE DEF CliInv, OpenOut
<1>1. /\ sink' = <<>> /\ buffer' = <<>> /\ pc' = "header" /\ err' = "none"
      /\ pulled' = 0 /\ UNCHANGED options /\ present /\ cmd = "convert"
  BY DEF Unopened, Untouched
<1>2. Typed'
  BY <1>1 DEF Typed, options
<1>3. Unopened'
  BY <1>1 DEF Unopened, Untouched, options
<1>4. OnScript' /\ Total' = 0
  BY <1>1 DEF OnScript, Total
<1>5. Length' \in Nat
  BY <1>2 DEF Typed, Length, Lead
<1>6. Placed' /\ Failed' /\ ClosedLast' /\ Coded'
  BY <1>1, <1>2, <1>4, <1>5
     DEF Placed, Failed, ClosedLast, Coded, Typed, options
<1>. QED
  BY <1>2, <1>3, <1>4, <1>6

\* Inside the loop and around it the command is running and nothing failed.
LEMMA NoErrorYet ==
    ASSUME CliInv, pc \in {"header", "pull", "write", "trailer", "report"}
    PROVE  Running /\ present /\ err = "none" /\ OnScript
BY DEF CliInv, Unopened, Failed, Running

LEMMA HeaderSafe == CliInv /\ Header => CliInv'
<1>. SUFFICES ASSUME CliInv, Header PROVE CliInv'
  OBVIOUS
<1>. USE DEF Header
<1>1. /\ Running /\ present /\ err = "none" /\ OnScript /\ Typed
      /\ cmd = "convert" /\ pulled = 0 /\ Total = 0
  BY NoErrorYet DEF CliInv, Placed
<1>2. UNCHANGED <<options, doc>> /\ pc' = "pull" /\ UNCHANGED <<sink, pulled, err>>
  OBVIOUS
<1>3. /\ OnScript' /\ Total' = Lead
      /\ buffer' \in Seq(Int) /\ Len(buffer') <= BufferSize
  <2>1. CASE Framed(dst)
    <3>1. Put(0) /\ 0 = At(Total + 1) /\ Lead = 1
      BY <1>1, <2>1 DEF Opening, At, Framing, Lead, Typed
    <3>. QED
      BY <1>1, <1>2, <3>1, PutKeeps
  <2>2. CASE ~Framed(dst)
    BY <1>1, <1>2, <2>2, OutputSame DEF Lead, Framing, output, Typed
  <2>. QED
    BY <2>1, <2>2
<1>4. Typed'
  BY <1>1, <1>2, <1>3 DEF Typed, options
<1>5. Unopened' /\ Coded' /\ Failed'
  BY <1>1, <1>2 DEF Unopened, Running, Coded, Failed, options
<1>6. Placed' /\ ClosedLast'
  BY <1>1, <1>2, <1>3, ScriptSame, LeadType
     DEF Placed, ClosedLast, Typed, Length, options
<1>. QED
  BY <1>3, <1>4, <1>5, <1>6 DEF CliInv

LEMMA PullSafe == CliInv /\ Pull => CliInv'
<1>. SUFFICES ASSUME CliInv, Pull PROVE CliInv'
  OBVIOUS
<1>. USE DEF Pull
<1>1. Running /\ present /\ err = "none" /\ OnScript /\ Typed /\ Placed /\ ClosedLast
  BY NoErrorYet DEF CliInv
<1>2. /\ UNCHANGED <<options, doc, output, err>> /\ pc' = "write"
      /\ pulled' = pulled + 1
  OBVIOUS
<1>3. OnScript' /\ Total' = Total
  BY <1>1, <1>2, OutputSame
<1>4. Typed'
  BY <1>1, <1>2 DEF Typed, options, output
<1>5. Unopened' /\ Coded' /\ Failed'
  BY <1>1, <1>2 DEF Unopened, Running, Coded, Failed, options
<1>6. Placed'
  BY <1>1, <1>2, <1>3, ScriptSame, LeadType DEF Placed, Typed, options
<1>7. ClosedLast'
  BY <1>1, <1>2, <1>3, ScriptSame DEF ClosedLast, Running, options
<1>. QED
  BY <1>3, <1>4, <1>5, <1>6, <1>7 DEF CliInv

LEMMA PullEndsSafe == CliInv /\ PullEnds => CliInv'
<1>. SUFFICES ASSUME CliInv, PullEnds PROVE CliInv'
  OBVIOUS
<1>. USE DEF PullEnds
<1>1. Running /\ present /\ err = "none" /\ OnScript /\ Typed /\ Placed /\ ClosedLast
  BY NoErrorYet DEF CliInv
<1>2. UNCHANGED <<options, doc, output, pulled>> /\ pulled = doc.n
  OBVIOUS
<1>3. OnScript' /\ Total' = Total
  BY <1>1, <1>2, OutputSame
<1>4. Typed'
  BY <1>1, <1>2 DEF Typed, options, output
<1>5. /\ Total = Lead + (IF cmd = "stats" THEN 0 ELSE doc.n)
      /\ limit > 0 => doc.n < limit
      /\ doc.bad = 0
  BY <1>1, <1>2 DEF Placed, Typed
<1>6. CASE Fine
  <2>1. err' = "none" /\ pc' = IF cmd = "convert" THEN "trailer" ELSE "report"
    BY <1>1, <1>6 DEF Fine
  <2>2. Unopened' /\ Coded' /\ Failed'
    BY <1>1, <1>2, <2>1 DEF Unopened, Running, Coded, Failed, options
  <2>3. cmd = "cat" => Total = Length
    BY <1>1, <1>5 DEF Length, Typed, Lead, Framing
  <2>4. Placed'
    <3>1. /\ UNCHANGED <<cmd, place, present, limit>> /\ doc' = doc /\ pulled' = pulled
          /\ Fine' /\ Answered' /\ Lead' = Lead /\ Length' = Length
      BY <1>2, <1>6, ScriptSame DEF Answered, options
    <3>2. CASE cmd = "convert"
      BY <1>1, <1>3, <1>5, <2>1, <3>1, <3>2 DEF Placed
    <3>3. CASE cmd # "convert"
      BY <1>1, <1>3, <1>5, <2>1, <2>3, <3>1, <3>3 DEF Placed, Typed, Lead, Framing
    <3>. QED
      BY <3>2, <3>3
  <2>5. ClosedLast'
    BY <1>1, <1>2, <1>3, ScriptSame DEF ClosedLast, Running, options
  <2>. QED
    BY <1>3, <1>4, <2>2, <2>4, <2>5 DEF CliInv
<1>7. CASE ~Fine
  <2>1. /\ err' = Ending(src, doc.end) /\ err' \in {"ParseError", "ValueError", "EOFError"}
        /\ pc' = IF cmd = "convert" THEN "close" ELSE "main"
    BY <1>7 DEF Fine, Raise, Leave, Ending
  <2>2. ~Answered
    BY <1>1, <1>5, <1>7 DEF Answered, Typed
  <2>3. Unopened' /\ Coded' /\ Placed'
    BY <1>1, <1>2, <2>1 DEF Unopened, Running, Coded, Placed, options
  <2>4. Failed'
    BY <1>1, <1>2, <2>1, <2>2, ScriptSame DEF Failed, options
  <2>5. ClosedLast'
    BY <1>1, <1>2, <1>3, ScriptSame DEF ClosedLast, Running, options
  <2>. QED
    BY <1>3, <1>4, <2>3, <2>4, <2>5 DEF CliInv
<1>. QED
  BY <1>6, <1>7

LEMMA WriteSafe == CliInv /\ Write => CliInv'
<1>. SUFFICES ASSUME CliInv, Write PROVE CliInv'
  OBVIOUS
<1>. USE DEF Write
<1>1. Running /\ present /\ err = "none" /\ OnScript /\ Typed /\ Placed /\ ClosedLast
  BY NoErrorYet DEF CliInv
<1>2. UNCHANGED <<options, doc, pulled, sink>>
  OBVIOUS
<1>3. /\ pulled > 0 /\ (limit > 0 => pulled <= limit) /\ doc.bad \notin 1..pulled - 1
      /\ Total = Lead + (IF cmd = "stats" THEN 0 ELSE pulled - 1)
      /\ pulled \in Nat /\ pulled <= doc.n /\ doc.n \in Nat /\ limit \in Nat
  BY <1>1 DEF Placed, Typed
<1>4. CASE pulled = doc.bad
  <2>1. /\ err' = "TypeError" /\ pc' = IF cmd = "convert" THEN "close" ELSE "main"
        /\ UNCHANGED output
    BY <1>2, <1>4 DEF Raise, Leave, output
  <2>2. OnScript' /\ Total' = Total
    BY <1>1, <1>2, <2>1, OutputSame
  <2>3. Typed'
    BY <1>1, <1>2, <2>1 DEF Typed, options, output
  <2>4. Total < Length
    BY <1>1, <1>3, LeadType DEF Length, Framing, Typed
  <2>5. Unopened' /\ Coded' /\ Placed'
    BY <1>1, <1>2, <2>1 DEF Unopened, Running, Coded, Placed, options
  <2>6. Failed'
    BY <1>1, <1>2, <2>1, <2>2, <2>4, ScriptSame DEF Failed, options
  <2>7. ClosedLast'
    BY <1>1, <1>2, <2>2, ScriptSame DEF ClosedLast, Running, options
  <2>. QED
    BY <2>2, <2>3, <2>5, <2>6, <2>7 DEF CliInv
<1>5. CASE pulled # doc.bad
  <2>1. /\ err' = "none"
        /\ pc' = IF limit > 0 /\ pulled >= limit THEN "report" ELSE "pull"
    BY <1>1, <1>5
  <2>2. /\ OnScript' /\ Total' = Lead + (IF cmd = "stats" THEN 0 ELSE pulled)
        /\ buffer' \in Seq(Int) /\ Len(buffer') <= BufferSize
    <3>1. CASE cmd = "stats"
      BY <1>1, <1>2, <1>3, <1>5, <3>1, OutputSame DEF output, Typed
    <3>2. CASE cmd # "stats"
      <4>1. Put(pulled) /\ pulled = At(Total + 1)
        BY <1>3, <1>5, <3>2, LeadType DEF At
      <4>2. /\ OnScript' /\ Total' = Total + 1
            /\ buffer' \in Seq(Int) /\ Len(buffer') <= BufferSize
        BY <1>1, <1>2, <1>3, <4>1, PutKeeps
      <4>. QED
        BY <1>3, <3>2, <4>2, LeadType
    <3>. QED
      BY <3>1, <3>2
  <2>3. Typed'
    BY <1>1, <1>2, <2>2 DEF Typed, options
  <2>4. Unopened' /\ Coded' /\ Failed'
    BY <1>1, <1>2, <2>1 DEF Unopened, Running, Coded, Failed, options
  <2>5. doc.bad \notin 1..pulled
    BY <1>1, <1>3, <1>5 DEF Typed
  <2>6. limit > 0 /\ pulled >= limit =>
            cmd = "cat" /\ Answered /\ Lead + pulled = Length
    BY <1>1, <1>3, LeadType DEF Typed, Answered, Length, Framing
  <2>7. UNCHANGED <<cmd, limit, place, present, doc, pulled>>
        /\ (Answered' <=> Answered) /\ (Fine' <=> Fine) /\ Lead' = Lead
        /\ Length' = Length /\ (Framing' <=> Framing)
    BY <1>2, ScriptSame DEF options
  <2>8. Placed'
    BY <1>3, <2>1, <2>2, <2>5, <2>6, <2>7 DEF Placed
  <2>9. ClosedLast'
    BY <1>1, <1>3, <2>2, <2>6, <2>7, LeadType, SMTT(40) DEF ClosedLast, Typed, Length, Framing
  <2>. QED
    BY <2>2, <2>3, <2>4, <2>8, <2>9 DEF CliInv
<1>. QED
  BY <1>4, <1>5

LEMMA TrailerSafe == CliInv /\ Trailer => CliInv'
<1>. SUFFICES ASSUME CliInv, Trailer PROVE CliInv'
  OBVIOUS
<1>. USE DEF Trailer
<1>1. Running /\ present /\ err = "none" /\ OnScript /\ Typed /\ ClosedLast
  BY NoErrorYet DEF CliInv
<1>2. UNCHANGED <<options, doc, pulled, sink>> /\ pc' = "close" /\ err' = "none"
  BY <1>1
<1>3. cmd = "convert" /\ Total = Lead + doc.n /\ Fine /\ doc.bad = 0
  BY <1>1 DEF CliInv, Placed
<1>4. /\ OnScript' /\ Total' = Length
      /\ buffer' \in Seq(Int) /\ Len(buffer') <= BufferSize
  <2>1. CASE Framed(dst)
    <3>1. Put(-1) /\ -1 = At(Total + 1) /\ Lead = 1
      BY <1>1, <1>3, <2>1 DEF Closing, At, Framing, Lead, Typed
    <3>. QED
      BY <1>1, <1>2, <1>3, <3>1, PutKeeps DEF Length, Typed
  <2>2. CASE ~Framed(dst)
    BY <1>1, <1>2, <1>3, <2>2, OutputSame DEF Lead, Framing, output, Typed, Length
  <2>. QED
    BY <2>1, <2>2
<1>5. Typed'
  BY <1>1, <1>2, <1>4 DEF Typed, options
<1>6. Unopened' /\ Coded' /\ Failed'
  BY <1>1, <1>2 DEF Unopened, Running, Coded, Failed, options
<1>7. Placed' /\ ClosedLast'
  BY <1>1, <1>2, <1>3, <1>4, ScriptSame, LengthType DEF Placed, ClosedLast, options
<1>. QED
  BY <1>4, <1>5, <1>6, <1>7 DEF CliInv

LEMMA ReportSafe == CliInv /\ Report => CliInv'
<1>. SUFFICES ASSUME CliInv, Report PROVE CliInv'
  OBVIOUS
<1>. USE DEF Report
<1>1. Running /\ present /\ err = "none" /\ OnScript /\ Typed /\ ClosedLast
  BY NoErrorYet DEF CliInv
<1>2. UNCHANGED <<options, doc, pulled, sink>> /\ pc' = "main" /\ err' = "none"
  BY <1>1
<1>3. /\ Answered /\ (Total = IF cmd = "stats" THEN 0 ELSE Length)
      /\ cmd = "convert" => buffer = <<>>
  BY <1>1 DEF CliInv, Placed
<1>4. /\ OnScript' /\ Total' = Length
      /\ buffer' \in Seq(Int) /\ Len(buffer') <= BufferSize
      /\ cmd = "convert" => buffer' = <<>>
  <2>1. CASE cmd = "stats"
    <3>1. Put(Stats)
      BY <2>1
    <3>2. Stats = At(Total + 1)
      BY <2>1 DEF At, Framing
    <3>3. Stats \in Int
      BY DEF Stats
    <3>. QED
      BY <1>1, <1>2, <1>3, <2>1, <3>1, <3>2, <3>3, PutKeeps DEF Length
  <2>2. CASE cmd # "stats"
    BY <1>1, <1>2, <1>3, <2>2, OutputSame DEF output, Typed
  <2>. QED
    BY <2>1, <2>2
<1>5. Typed'
  BY <1>1, <1>2, <1>4 DEF Typed, options
<1>6. Unopened' /\ Coded' /\ Failed'
  BY <1>1, <1>2 DEF Unopened, Running, Coded, Failed, options
<1>7. Placed'
  BY <1>1, <1>2, <1>3, <1>4, ScriptSame DEF Placed, options
<1>8. ClosedLast'
  BY <1>1, <1>2, <1>3, <1>4, ScriptSame, LengthType
     DEF ClosedLast, options, Typed, Framing, Length
<1>. QED
  BY <1>4, <1>5, <1>6, <1>7, <1>8 DEF CliInv

LEMMA DrainSafe == CliInv /\ Drain => CliInv'
<1>. SUFFICES ASSUME CliInv, Drain PROVE CliInv'
  OBVIOUS
<1>. USE DEF Drain
<1>1. /\ Running /\ present /\ err = "none" /\ OnScript /\ Typed /\ Placed /\ ClosedLast
      /\ pc \in {"header", "pull", "write", "trailer", "report"}
  BY NoErrorYet DEF CliInv, AboutToWrite
<1>2. UNCHANGED <<options, doc, pulled>>
  OBVIOUS
<1>3. CASE broken
  <2>1. /\ UNCHANGED output /\ broken' = broken
        /\ err' = WriteError /\ pc' = IF cmd = "convert" THEN "close" ELSE "main"
    BY <1>3 DEF Raise, Leave
  <2>2. OnScript' /\ Total' = Total
    BY <1>1, <1>2, <2>1, OutputSame
  <2>3. Typed'
    BY <1>1, <1>2, <2>1 DEF Typed, options, output
  <2>4. Len(sink) < Length
    <3>1. Len(buffer) > 0 /\ Len(sink) \in Nat /\ Len(buffer) \in Nat
      BY <1>1, CliAssumption DEF Room, Typed
    <3>. QED
      BY <1>1, <3>1, LengthType DEF ClosedLast, Total
  <2>5. /\ err' \in {"BrokenPipeError", "OSError"}
        /\ err' = "BrokenPipeError" => ToStdout
    BY <2>1 DEF WriteError
  <2>6. Unopened' /\ Coded' /\ Placed'
    BY <1>1, <1>2, <2>1, <2>5 DEF Unopened, Running, Coded, Placed, options
  <2>7. Failed'
    BY <1>1, <1>2, <1>3, <2>1, <2>4, <2>5, ScriptSame DEF Failed, ToStdout, options, output
  <2>8. ClosedLast'
    BY <1>1, <1>2, <2>2, ScriptSame DEF ClosedLast, Running, options
  <2>. QED
    BY <2>2, <2>3, <2>6, <2>7, <2>8 DEF CliInv
<1>4. CASE ~broken
  <2>1. sink' = sink \o buffer /\ buffer' = <<>> /\ UNCHANGED <<err, pc, broken, code, late>>
    BY <1>4
  <2>2. /\ OnScript' /\ Total' = Total
        /\ sink' \in Seq(Int) /\ buffer' \in Seq(Int) /\ Len(buffer') = 0
    BY <1>1, <1>2, <2>1, DrainKeeps
  <2>3. Typed'
    BY <1>1, <1>2, <2>1, <2>2, CliAssumption DEF Typed, options
  <2>4. Unopened' /\ Coded' /\ Failed'
    BY <1>1, <1>2, <2>1 DEF Unopened, Running, Coded, Failed, options
  <2>5. Placed'
    BY <1>1, <1>2, <2>1, <2>2, ScriptSame DEF Placed, options
  <2>6. ClosedLast'
    BY <1>1, <1>2, <2>1, <2>2, ScriptSame DEF ClosedLast, options
  <2>. QED
    BY <2>2, <2>3, <2>4, <2>5, <2>6 DEF CliInv
<1>. QED
  BY <1>3, <1>4

LEMMA CloseSafe == CliInv /\ Close => CliInv'
<1>. SUFFICES ASSUME CliInv, Close PROVE CliInv'
  OBVIOUS
<1>. USE DEF Close
<1>1. Running /\ present /\ OnScript /\ Typed /\ ClosedLast /\ cmd = "convert"
  BY DEF CliInv, Unopened, Running, Placed, Failed
<1>2. UNCHANGED <<options, doc, pulled>> /\ buffer' = <<>>
  OBVIOUS
<1>3. CASE broken /\ buffer # <<>>
  <2>1. /\ sink' = sink /\ broken' = broken
        /\ err' = WriteError /\ pc' = "main"
    BY <1>3 DEF Raise
  <2>2. /\ OnScript' /\ Total' = Len(sink) /\ Total' <= Total
        /\ buffer' \in Seq(Int) /\ Len(buffer') = 0
    BY <1>1, <1>2, <2>1, DropKeeps
  <2>3. Typed'
    BY <1>1, <1>2, <2>1, <2>2, CliAssumption DEF Typed, options
  <2>4. Len(sink) < Length
    <3>1. Len(buffer) > 0 /\ Len(sink) \in Nat /\ Len(buffer) \in Nat
      BY <1>1, <1>3, EmptySeq DEF Typed
    <3>. QED
      BY <1>1, <3>1, LengthType DEF ClosedLast, Total
  <2>5. /\ err' \in {"BrokenPipeError", "OSError"}
        /\ err' = "BrokenPipeError" => ToStdout
    BY <2>1 DEF WriteError
  <2>6. Unopened' /\ Coded' /\ Placed'
    BY <1>1, <1>2, <2>1, <2>5 DEF Unopened, Running, Coded, Placed, options
  <2>7. Failed'
    BY <1>1, <1>2, <1>3, <2>1, <2>4, <2>5, ScriptSame DEF Failed, ToStdout, options
  <2>8. ClosedLast'
    <3>1. Total' <= Length /\ (Total' > doc.n + 1 => Total > doc.n + 1)
      BY <1>1, <2>2, LengthType DEF ClosedLast, Total, Typed
    <3>. QED
      BY <1>1, <1>2, <3>1, ScriptSame DEF ClosedLast, options
  <2>. QED
    BY <2>2, <2>3, <2>6, <2>7, <2>8 DEF CliInv
<1>4. CASE ~(broken /\ buffer # <<>>)
  <2>1. /\ sink' = sink \o buffer /\ UNCHANGED <<err, broken, late>>
        /\ pc' = IF err = "none" THEN "report" ELSE "main"
    BY <1>4
  <2>2. /\ OnScript' /\ Total' = Total
        /\ sink' \in Seq(Int) /\ buffer' \in Seq(Int) /\ Len(buffer') = 0
    BY <1>1, <1>2, <2>1, DrainKeeps
  <2>3. Typed'
    BY <1>1, <1>2, <2>1, <2>2, CliAssumption DEF Typed, options
  <2>4. Unopened' /\ Coded'
    BY <1>1, <1>2, <2>1 DEF Unopened, Running, Coded, options
  <2>5. Placed'
    BY <1>1, <1>2, <2>1, <2>2, ScriptSame DEF CliInv, Placed, Answered, options
  <2>6. Failed'
    <3>1. broken => Len(sink') = Len(sink)
      <4>1. broken => sink' = sink \o <<>>
        BY <1>4, <2>1
      <4>. QED
        BY <1>1, <4>1 DEF Typed
    <3>. QED
      BY <1>1, <1>2, <2>1, <2>2, <3>1, ScriptSame DEF CliInv, Failed, ToStdout, options
  <2>7. ClosedLast'
    BY <1>1, <1>2, <2>1, <2>2, ScriptSame DEF ClosedLast, options
  <2>. QED
    BY <2>2, <2>3, <2>4, <2>5, <2>6, <2>7 DEF CliInv
<1>. QED
  BY <1>3, <1>4

LEMMA MainSafe == CliInv /\ Main => CliInv'
<1>. SUFFICES ASSUME CliInv, Main PROVE CliInv'
  OBVIOUS
<1>. USE DEF Main
<1>1. UNCHANGED <<options, doc, pulled, err, sink, broken, late>> /\ pc' = "exit" /\ Typed
  BY DEF CliInv
<1>2. CASE err = "BrokenPipeError"
  <2>1. Running /\ OnScript /\ ToStdout /\ broken /\ buffer' = <<>> /\ ClosedLast
    BY <1>2 DEF CliInv, Unopened, Running, Failed
  <2>2. /\ OnScript' /\ Total' = Len(sink) /\ Total' <= Total
        /\ buffer' \in Seq(Int) /\ Len(buffer') = 0
    BY <1>1, <2>1, DropKeeps
  <2>3. Typed'
    BY <1>1, <2>2, CliAssumption DEF Typed, options
  <2>4. Unopened' /\ Coded' /\ Placed'
    BY <1>1, <1>2, <2>1 DEF CliInv, Unopened, Running, Coded, Placed, options
  <2>5. Failed'
    BY <1>1, <1>2, <2>1 DEF CliInv, Failed, ToStdout, Running, options
  <2>6. ClosedLast'
    <3>1. Total' <= Length /\ (Total' > doc.n + 1 => Total > doc.n + 1)
      BY <1>1, <2>1, <2>2, LengthType DEF ClosedLast, Total, Typed
    <3>. QED
      BY <1>1, <2>1, <3>1, ScriptSame DEF ClosedLast, options
  <2>. QED
    BY <2>2, <2>3, <2>4, <2>5, <2>6 DEF CliInv
<1>3. CASE err # "BrokenPipeError"
  <2>1. UNCHANGED output
    BY <1>3 DEF output
  <2>2. (OnScript' <=> OnScript) /\ Total' = Total
    BY <1>1, <2>1, OutputSame
  <2>3. Typed'
    BY <1>1, <2>1 DEF Typed, options, output
  <2>4. Unopened' /\ (Running => OnScript)'
    BY <1>1, <2>1, <2>2 DEF CliInv, Unopened, Untouched, Running, options, output
  <2>5. Coded'
    BY <1>1, <1>3 DEF Coded, ExitCode
  <2>6. Placed'
    BY <1>1, <2>1, <2>2, ScriptSame DEF CliInv, Placed, Running, options, output
  <2>7. Failed'
    BY <1>1, <1>3, <2>1, <2>2, ScriptSame
       DEF CliInv, Failed, Running, ToStdout, options, output
  <2>8. ClosedLast'
    BY <1>1, <2>2, ScriptSame DEF CliInv, ClosedLast, Running, options
  <2>. QED
    BY <2>3, <2>4, <2>5, <2>6, <2>7, <2>8 DEF CliInv
<1>. QED
  BY <1>2, <1>3

LEMMA ExitSafe == CliInv /\ Exit => CliInv'
<1>. SUFFICES ASSUME CliInv, Exit PROVE CliInv'
  OBVIOUS
<1>. USE DEF Exit
<1>1. /\ UNCHANGED <<options, doc, pulled, err, broken, late>> /\ pc' = "done" /\ Typed
      /\ buffer' = <<>>
  BY DEF CliInv
<1>2. CASE ~present
  <2>1. sink' \in {<<>>, <<Old>>} /\ code' = code
    <3>1. buffer = <<>> /\ sink \in {<<>>, <<Old>>}
      BY <1>2 DEF CliInv, Unopened, Untouched
    <3>2. sink \o <<>> = sink
      BY DEF CliInv, Typed
    <3>. QED
      BY <3>1, <3>2
  <2>2. Typed'
    <3>1. sink' \in Seq(Int) /\ buffer' \in Seq(Int) /\ Len(buffer') = 0
      <4>1. Old \in Int
        BY DEF Old
      <4>2. <<>> \in Seq(Int) /\ <<Old>> \in Seq(Int) /\ Len(<<>>) = 0
        BY <4>1
      <4>. QED
        BY <1>1, <2>1, <4>2
    <3>. QED
      BY <1>1, <3>1, CliAssumption DEF Typed, options
  <2>3. Unopened' /\ Coded'
    BY <1>1, <1>2, <2>1 DEF CliInv, Unopened, Untouched, Coded, options
  <2>. QED
    BY <1>1, <1>2, <2>2, <2>3 DEF CliInv, Running, Placed, Failed, ClosedLast, options
<1>3. CASE present /\ broken /\ buffer # <<>>
  <2>1. sink' = sink /\ code' = 120 /\ Running /\ OnScript /\ ClosedLast
    BY <1>3 DEF CliInv, Running
  <2>2. /\ OnScript' /\ Total' = Len(sink) /\ Total' <= Total
        /\ buffer' \in Seq(Int) /\ Len(buffer') = 0
    BY <1>1, <2>1, DropKeeps
  <2>3. ToStdout
    BY <1>3, <2>1 DEF CliInv, Placed, Failed, Typed, ToStdout
  <2>4. Typed'
    BY <1>1, <2>1, <2>2, CliAssumption DEF Typed, options
  <2>5. Unopened' /\ Coded'
    BY <1>1, <1>3, <2>1, <2>3 DEF CliInv, Unopened, Coded, ToStdout, options
  <2>6. Placed'
    BY <1>1, <1>3, <2>1, <2>3, ScriptSame DEF CliInv, Placed, ToStdout, options
  <2>7. Failed'
    BY <1>1, <1>3, <2>1, <2>3 DEF CliInv, Failed, ToStdout, options
  <2>8. ClosedLast'
    <3>1. Total' <= Length /\ (Total' > doc.n + 1 => Total > doc.n + 1)
      <4>1. Total <= Length
        BY <2>1 DEF ClosedLast
      <4>2. Total \in Nat /\ Length \in Nat /\ Len(sink) \in Nat /\ doc.n \in Nat
        BY <1>1, LengthType DEF Total, Typed
      <4>. QED
        BY <2>2, <4>1, <4>2
    <3>. QED
      BY <1>1, <2>1, <3>1, ScriptSame DEF ClosedLast, options
  <2>. QED
    BY <2>2, <2>4, <2>5, <2>6, <2>7, <2>8 DEF CliInv
<1>4. CASE present /\ ~(broken /\ buffer # <<>>)
  <2>1. /\ sink' = sink \o buffer /\ code' = code
        /\ Running /\ OnScript /\ ClosedLast
    BY <1>4 DEF CliInv, Running
  <2>2. /\ OnScript' /\ Total' = Total
        /\ sink' \in Seq(Int) /\ buffer' \in Seq(Int) /\ Len(buffer') = 0
    BY <1>1, <2>1, DrainKeeps
  <2>3. Typed'
    BY <1>1, <2>1, <2>2, CliAssumption DEF Typed, options
  <2>4. Unopened' /\ Coded'
    BY <1>1, <1>4, <2>1 DEF CliInv, Unopened, Coded, ToStdout, options
  <2>5. Placed'
    BY <1>1, <2>1, <2>2, ScriptSame DEF CliInv, Placed, ToStdout, options
  <2>6. Failed'
    <3>1. broken => Len(sink') = Len(sink)
      <4>1. broken => sink' = sink \o <<>>
        BY <1>4, <2>1
      <4>. QED
        BY <1>1, <4>1 DEF Typed
    <3>. QED
      BY <1>1, <2>1, <2>2, <3>1, ScriptSame DEF CliInv, Failed, ToStdout, options
  <2>7. ClosedLast'
    BY <1>1, <2>1, <2>2, ScriptSame DEF ClosedLast, options
  <2>. QED
    BY <2>2, <2>3, <2>4, <2>5, <2>6, <2>7 DEF CliInv
<1>. QED
  BY <1>2, <1>3, <1>4

LEMMA BreakSafe == CliInv /\ (Break \/ UNCHANGED vars) => CliInv'
<1>. SUFFICES ASSUME CliInv, Break \/ UNCHANGED vars PROVE CliInv'
  OBVIOUS
<1>1. /\ UNCHANGED <<options, doc, pc, pulled, err, output, late, code>> /\ Typed
      /\ broken => broken'
  BY DEF Break, vars, output, CliInv
<1>2. (OnScript' <=> OnScript) /\ Total' = Total
  BY <1>1, OutputSame
<1>3. Typed' /\ Unopened' /\ (Running => OnScript)'
  BY <1>1, <1>2 DEF CliInv, Typed, Unopened, Untouched, Running, options, output
<1>4. Placed' /\ Coded'
  BY <1>1, <1>2, ScriptSame DEF CliInv, Placed, Coded, Running, ToStdout, options, output
<1>5. Failed' /\ ClosedLast'
  BY <1>1, <1>2, ScriptSame
     DEF CliInv, Failed, ClosedLast, Running, ToStdout, options, output
<1>. QED
  BY <1>3, <1>4, <1>5 DEF CliInv

\* The invariant, for every document, buffer, limit and destination.
THEOREM CommandSafe == Spec => []CliInv
<1>1. CliInv /\ [Next]_vars => CliInv'
  BY OpenInSafe, OpenOutSafe, HeaderSafe, PullSafe, PullEndsSafe, WriteSafe,
     TrailerSafe, DrainSafe, CloseSafe, ReportSafe, MainSafe, ExitSafe, BreakSafe, Zenon
     DEF Next, Step
<1>. QED
  BY <1>1, InitSafe, PTL DEF Spec

-----------------------------------------------------------------------------
(***************************************************************************)
(* What the invariant says to a caller.                                    *)
(***************************************************************************)
LEMMA ElementsAre ==
    ASSUME NEW n \in Nat
    PROVE  Elements(n) \in Seq(Int) /\ Len(Elements(n)) = n
           /\ \A i \in 1..n : Elements(n)[i] = i
BY DEF Elements

LEMMA FramedDocument ==
    ASSUME NEW n \in Nat, Framed(dst)
    PROVE  /\ Document(n) \in Seq(Int) /\ Len(Document(n)) = n + 2
           /\ \A i \in 1..n + 2 :
                 Document(n)[i] = IF i = n + 2 THEN Closing ELSE i - 1
<1>. DEFINE front == <<Opening>> \o Elements(n)
<1>1. Opening = 0 /\ Closing = -1 /\ <<Opening>> \in Seq(Int) /\ <<Closing>> \in Seq(Int)
  BY DEF Opening, Closing
<1>2. /\ front \in Seq(Int) /\ Len(front) = n + 1
      /\ \A i \in 1..n + 1 : front[i] = i - 1
  <2>1. /\ Len(<<Opening>>) = 1 /\ <<Opening>>[1] = 0
    BY <1>1
  <2>2. /\ front \in Seq(Int) /\ Len(front) = n + 1
        /\ \A i \in 1..n + 1 :
              front[i] = IF i <= 1 THEN <<Opening>>[i] ELSE Elements(n)[i - 1]
    BY <1>1, <2>1, ElementsAre, ConcatProperties
  <2>. HIDE DEF front
  <2>3. \A i \in 1..n + 1 : front[i] = i - 1
    <3>. SUFFICES ASSUME NEW i \in 1..n + 1 PROVE front[i] = i - 1
      OBVIOUS
    <3>1. CASE i = 1
      BY <2>1, <2>2, <3>1
    <3>2. CASE i > 1
      <4>1. i - 1 \in 1..n /\ Elements(n)[i - 1] = i - 1
        BY <3>2, ElementsAre
      <4>. QED
        BY <2>2, <3>2, <4>1
    <3>. QED
      BY <3>1, <3>2
  <2>. QED
    BY <2>2, <2>3
<1>3. Document(n) = front \o <<Closing>>
  BY DEF Document
<1>. HIDE DEF front
<1>4. Len(<<Closing>>) = 1 /\ <<Closing>>[1] = Closing
  OBVIOUS
<1>. QED
  BY <1>1, <1>2, <1>3, <1>4, ConcatProperties

\* The script is what the command was to write.
LEMMA ScriptIsWanted ==
    ASSUME Typed, OnScript, place # "same"
    PROVE  sink = Wanted <=> Len(sink) = Length
<1>. USE DEF Typed
<1>1. /\ Wanted \in Seq(Int) /\ Len(Wanted) = Length
      /\ \A i \in 1..Length : Wanted[i] = At(i)
  <2>1. CASE Framing
    BY <2>1, FramedDocument, SMTT(40) DEF Wanted, Length, At, Framing, Lead
  <2>2. CASE cmd = "convert" /\ ~Framing
    BY <2>2, ElementsAre DEF Wanted, Document, Length, At, Framing, Lead
  <2>3. CASE cmd = "cat"
    <3>1. Length \in Nat /\ Wanted = Elements(Length)
      BY <2>3 DEF Wanted, Length
    <3>. QED
      BY <2>3, <3>1, ElementsAre DEF At, Framing, Lead
  <2>4. CASE cmd = "stats"
    <3>1. Wanted = <<Stats>> /\ Length = 1
      BY <2>4 DEF Wanted, Length
    <3>2. \A i : At(i) = Stats
      BY <2>4 DEF At, Framing
    <3>3. Stats \in Int
      BY DEF Stats
    <3>. QED
      BY <3>1, <3>2, <3>3
  <2>. QED
    BY <2>1, <2>2, <2>3, <2>4
<1>2. \A i \in 1..Len(sink) : sink[i] = At(i)
  BY DEF OnScript
<1>. QED
  BY <1>1, <1>2, SeqEqual, LengthType

\* Exit code 0 tells exactly that the output is complete and the input fine.
THEOREM ExitCodeTells == Spec => []ZeroMeansDone
<1>1. CliInv => ZeroMeansDone
  <2>. SUFFICES ASSUME CliInv, pc = "done", place # "same", ~(ToStdout /\ broken)
                PROVE  code = 0 <=> present /\ sink = Wanted /\ InputFine
    BY DEF ZeroMeansDone
  <2>1. InputFine <=> Answered
    BY DEF CliInv, Typed, InputFine, Answered, Fine
  <2>2. Total = Len(sink)
    BY DEF CliInv, Typed, Coded, Total
  <2>3. CASE ~present
    BY <2>3 DEF CliInv, Unopened, Coded
  <2>4. CASE present
    <3>1. sink = Wanted <=> Len(sink) = Length
      BY <2>4, ScriptIsWanted DEF CliInv, Running
    <3>2. CASE err = "none"
      BY <2>1, <2>2, <2>4, <3>1, <3>2 DEF CliInv, Running, Placed, Coded
    <3>3. CASE err # "none"
      <4>1. code # 0
        BY <2>4, <3>3 DEF CliInv, Running, Failed, Coded
      <4>2. ~Answered \/ Len(sink) < Length
        BY <2>2, <2>4, <3>3 DEF CliInv, Running, Failed
      <4>3. Len(sink) < Length => Len(sink) # Length
        BY LengthType DEF CliInv, Typed
      <4>. QED
        BY <2>1, <3>1, <4>1, <4>2, <4>3
    <3>. QED
      BY <3>2, <3>3
  <2>. QED
    BY <2>3, <2>4
<1>. QED
  BY <1>1, CommandSafe, PTL

\* A framed output that is closed is the whole of an input that was in order.
THEOREM CloseTells == Spec => []ClosedMeansWhole
<1>1. CliInv => ClosedMeansWhole
  <2>. SUFFICES ASSUME CliInv, cmd = "convert", Framed(dst), sink # <<>>,
                       Last(sink) = Closing
                PROVE  sink = Document(doc.n) /\ doc.bad = 0 /\ Fine
    BY DEF ClosedMeansWhole, Fine
  <2>. USE DEF CliInv
  <2>1. Running
    <3>1. Last(<<Old>>) = Old /\ Old # Closing
      BY DEF Last, Old, Closing
    <3>. QED
      BY <3>1 DEF Unopened, Untouched, Running
  <2>2. Typed /\ OnScript /\ Framing /\ Lead = 1
    BY <2>1 DEF Framing, Lead
  <2>3. Len(sink) \in 1..Len(sink) /\ sink[Len(sink)] = Closing
    BY <2>2, EmptySeq DEF Last, Typed
  <2>4. At(Len(sink)) = Closing
    BY <2>2, <2>3 DEF OnScript
  <2>5. Len(sink) = doc.n + 2
    BY <2>2, <2>3, <2>4 DEF At, Closing, Framing, Typed
  <2>6. Fine /\ doc.bad = 0
    BY <2>1, <2>2, <2>5 DEF ClosedLast, Total, Typed
  <2>7. sink = Document(doc.n)
    <3>1. \A i \in 1..doc.n + 2 : sink[i] = IF i = doc.n + 2 THEN Closing ELSE i - 1
      BY <2>2, <2>5 DEF OnScript, At, Framing
    <3>2. /\ Document(doc.n) \in Seq(Int) /\ Len(Document(doc.n)) = doc.n + 2
          /\ \A i \in 1..doc.n + 2 :
                Document(doc.n)[i] = IF i = doc.n + 2 THEN Closing ELSE i - 1
      BY <2>2, FramedDocument DEF Typed
    <3>. QED
      BY <2>2, <2>5, <3>1, <3>2, SeqEqual DEF Typed
  <2>. QED
    BY <2>6, <2>7
<1>. QED
  BY <1>1, CommandSafe, PTL

\* After the pipe has closed, the elements decoded are in the buffer, and the
\* one that is about to be written.
LateInv ==
    /\ ~broken => late = 0
    /\ ToStdout /\ cmd # "stats" =>
          /\ late <= BufferSize + 1
          /\ pc \in {"header", "pull", "trailer", "report"} => late <= Len(buffer)
          /\ pc = "write" => late <= Len(buffer) + 1
          /\ pc = "close" /\ err = "none" => late <= Len(buffer)

THEOREM ReadingStops == Spec => []StopsReading
<1>1. Init => LateInv
  BY CliAssumption DEF Init, LateInv
<1>2. CliInv /\ LateInv /\ [Next]_vars => LateInv'
  <2>. SUFFICES ASSUME Typed, CliInv, LateInv, [Next]_vars PROVE LateInv'
    BY DEF CliInv
  <2>0. /\ Len(buffer) \in Nat /\ Len(buffer) <= BufferSize /\ late \in Nat
        /\ BufferSize \in Nat
    BY CliAssumption DEF Typed
  <2>1. CASE OpenIn
    BY <2>0, <2>1 DEF OpenIn, Raise, LateInv, CliInv, Unopened, ToStdout, options, output
  <2>2. CASE OpenOut
    BY <2>0, <2>2 DEF OpenOut, LateInv, CliInv, Unopened, ToStdout, options, output
  <2>3. ASSUME NEW c, Put(c) \/ UNCHANGED buffer
        PROVE  Len(buffer') \in {Len(buffer), Len(buffer) + 1}
               /\ (Put(c) => Len(buffer') = Len(buffer) + 1 /\ Len(buffer) < BufferSize)
    BY <2>3, <2>0 DEF Put, Room, Typed
  <2>4. CASE Header
    BY <2>0, <2>3, <2>4 DEF Header, LateInv, ToStdout, options
  <2>5. CASE Pull
    BY <2>0, <2>5 DEF Pull, LateInv, ToStdout, options, output
  <2>6. CASE PullEnds
    BY <2>0, <2>6 DEF PullEnds, Raise, Leave, Ending, LateInv, ToStdout, options, output
  <2>7. CASE Write
    BY <2>0, <2>3, <2>7 DEF Write, Raise, Leave, LateInv, ToStdout, options
  <2>8. CASE Trailer
    BY <2>0, <2>3, <2>8 DEF Trailer, LateInv, ToStdout, options
  <2>9. CASE Drain
    BY <2>0, <2>9 DEF Drain, Raise, WriteError, Leave, LateInv, ToStdout, options, output
  <2>10. CASE Close
    <3>1. CASE broken /\ buffer # <<>>
      BY <2>0, <2>10, <3>1 DEF Close, Raise, LateInv, ToStdout, options
    <3>2. CASE broken /\ buffer = <<>>
      BY <2>0, <2>10, <3>2 DEF Close, LateInv, ToStdout, options
    <3>3. CASE ~broken
      BY <2>0, <2>10, <3>3 DEF Close, LateInv, ToStdout, options
    <3>. QED
      BY <3>1, <3>2, <3>3
  <2>11. CASE Report
    BY <2>0, <2>3, <2>11 DEF Report, LateInv, ToStdout, options
  <2>12. CASE Main \/ Exit
    BY <2>0, <2>12 DEF Main, Exit, LateInv, ToStdout, options
  <2>13. CASE Break
    BY <2>0, <2>13 DEF Break, LateInv, ToStdout, options, output
  <2>14. CASE UNCHANGED vars
    BY <2>14 DEF vars, LateInv, ToStdout, options, output
  <2>. QED
    BY <2>1, <2>2, <2>4, <2>5, <2>6, <2>7, <2>8, <2>9, <2>10, <2>11, <2>12, <2>13,
       <2>14 DEF Next, Step
<1>3. LateInv => StopsReading
  BY DEF LateInv, StopsReading
<1>. QED
  BY <1>1, <1>2, <1>3, CommandSafe, PTL DEF Spec
=============================================================================
