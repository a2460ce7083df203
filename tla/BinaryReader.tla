---------------------------- MODULE BinaryReader ----------------------------
(***************************************************************************)
(* The reader under decode_array of MessagePack and CBOR, in six ports.    *)
(* It takes the bytes of input in reads of any size, keeps a cursor into   *)
(* what it holds, and hands over one value at a time, as the sequence of   *)
(* the atoms it is made of.  The end of the input is the end of the stream *)
(* when it falls between two values.                                       *)
(*                                                                         *)
(* Go and Java read through bufio.Reader and BufferedInputStream, external *)
(* code which, like Node, Rust and .NET, moves what is unread to the front *)
(* when it reads on.  The recursion of read_value appears as todo, the     *)
(* number of values still due before the outermost one is whole.           *)
(***************************************************************************)
EXTENDS BinaryBytes

CONSTANTS
    Readers,    \* the ports whose decoder may run
    ChunkSize   \* the most bytes one read returns

VARIABLES
    fmt, input,         \* the format, and the bytes that arrive
    dec, stage,         \* the port, and what the reader is about to take
    read, buf, pos,     \* bytes read, the bytes held, the cursor
    kind, width, need,  \* the value begun, the width of its argument, and
                        \* how many bytes must be at hand
    todo, atoms,        \* values due, and the atoms of the current element
    yielded, outcome    \* elements handed over, and how the iteration ended

bufVars    == <<read, buf, pos>>
valueVars  == <<kind, width, need, todo, atoms>>
readerVars == <<fmt, input, dec, stage, bufVars, valueVars, yielded, outcome>>

ASSUME ReaderAssumption ==
    /\ Readers \subseteq {"python", "node", "go", "rust", "java", "dotnet"}
    /\ ChunkSize \in Nat \ {0}

-----------------------------------------------------------------------------
ReaderInit ==
    /\ dec \in Readers
    /\ stage = "boundary"
    /\ read = 0 /\ buf = <<>> /\ pos = 0
    /\ kind = "none" /\ width = 0 /\ need = 1
    /\ todo = 1 /\ atoms = <<>>
    /\ yielded = <<>> /\ outcome = "none"

Stop(v) == outcome' = v /\ stage' = "done"
AtHand  == Len(buf) - pos
AtEnd   == read = Len(input)
Taken   == SubSeq(buf, pos + 1, pos + need)

\* Python drops what it consumed when it takes, the others when they fill.
Fill ==
    /\ stage # "done" /\ AtHand < need
    /\ \E n \in 1..ChunkSize :
          /\ read + n <= Len(input)
          /\ read' = read + n
          /\ buf' = (IF dec = "python" THEN buf ELSE SubSeq(buf, pos + 1, Len(buf)))
                      \o SubSeq(input, read + 1, read + n)
          /\ pos' = IF dec = "python" THEN pos ELSE 0
    /\ UNCHANGED <<fmt, input, dec, stage, valueVars, yielded, outcome>>

\* Fault: what is held at the end of the input is forgotten.
FillFailsEager ==
    /\ stage # "done" /\ AtEnd
    /\ Stop(IF stage = "boundary" THEN "complete" ELSE "truncated")
    /\ UNCHANGED <<fmt, input, dec, bufVars, valueVars, yielded>>

\* The input is at its end.  Go reports a value of which not even the next
\* byte came with io.EOF itself.
FillFails ==
    /\ stage # "done" /\ AtHand < need /\ AtEnd
    /\ Stop(IF stage = "boundary" THEN "complete"
            ELSE IF dec = "go" /\ AtHand = 0 THEN "eof"
            ELSE "truncated")
    /\ UNCHANGED <<fmt, input, dec, bufVars, valueVars, yielded>>

-----------------------------------------------------------------------------
\* Fault: the consumed prefix is never dropped.
TakeKeeps ==
    /\ pos' = pos + need
    /\ UNCHANGED <<read, buf>>

Take ==
    /\ IF dec = "python" /\ pos + need > ChunkSize
         THEN buf' = SubSeq(buf, pos + need + 1, Len(buf)) /\ pos' = 0
         ELSE pos' = pos + need /\ UNCHANGED buf
    /\ UNCHANGED read

\* Another element: the boundary test finds a byte.
Begin ==
    /\ stage = "boundary" /\ AtHand >= need
    /\ stage' = "head"
    /\ UNCHANGED <<fmt, input, dec, bufVars, valueVars, yielded, outcome>>

\* The function of the caller may stop the iteration in Go and Java.
CallerStops ==
    /\ stage = "boundary" /\ yielded # <<>> /\ dec \in {"go", "java"}
    /\ Stop("stopped")
    /\ UNCHANGED <<fmt, input, dec, bufVars, valueVars, yielded>>

\* The value is whole, and n more are due inside it.  When none is due the
\* element is handed over.
Give(a, n) ==
    /\ kind' = "none" /\ width' = 0 /\ need' = 1
    /\ IF todo + n = 1
         THEN /\ stage' = "boundary" /\ todo' = 1 /\ atoms' = <<>>
              /\ yielded' = Append(yielded, Append(atoms, a))
         ELSE /\ stage' = "head" /\ todo' = todo - 1 + n
              /\ atoms' = Append(atoms, a)
              /\ UNCHANGED yielded
    /\ UNCHANGED outcome

\* How many values a container holds.
Inside(k, n) == CASE k = "array" -> n
                  [] k = "map"   -> 2 * n
                  [] OTHER       -> 0

\* The integer a port makes of an argument.  Java and .NET have no unsigned
\* 64-bit result, and Go none for negative integers of CBOR: they wrap.
Wraps(k, w) ==
    /\ w = 8
    /\ dec \in {"java", "dotnet"} \/ (dec = "go" /\ k = "nint")
Result(k, w, n) ==
    LET m == IF Wraps(k, w) THEN Signed(n, 8) ELSE n
    IN  CASE k = "sint" -> Signed(n, w)
          [] k = "nint" -> -1 - m
          [] OTHER      -> m

\* What a value whose argument is n turns out to be.  Rust has no negative
\* integer past 64 bits, and reads a float that is not finite as null.
Argument(k, w, n) ==
    IF k \in {"str", "bin"}
      THEN IF n = 0 THEN Give(Atom(k, 0, <<>>), 0)
           ELSE /\ stage' = "data" /\ kind' = k /\ width' = w /\ need' = n
                /\ UNCHANGED <<todo, atoms, yielded, outcome>>
    ELSE IF k = "nint" /\ dec = "rust" /\ -1 - n < MinInt64
      THEN /\ Stop("refused")
           /\ UNCHANGED <<valueVars, yielded>>
    ELSE IF k \in {"uint", "sint", "nint"}
      THEN Give(Atom("int", Result(k, w, n), <<>>), 0)
    ELSE IF k = "float" /\ dec = "rust" /\ n \in NonFinite
      THEN Give(Atom("nil", 0, <<>>), 0)
    ELSE Give(Atom(k, n, <<>>), Inside(k, n))

\* The first byte of a value.  Go, Rust and Java refuse byte strings.
TakeHead ==
    /\ stage = "head" /\ AtHand >= need
    /\ Take
    /\ LET b == buf[pos + 1]
       IN  IF b.kind = "raw" \/ (b.kind = "bin" /\ dec \in {"go", "rust", "java"})
             THEN /\ Stop("refused")
                  /\ UNCHANGED <<valueVars, yielded>>
           ELSE IF b.width > 0
             THEN /\ stage' = "argument"
                  /\ kind' = b.kind /\ width' = b.width /\ need' = b.width
                  /\ UNCHANGED <<todo, atoms, yielded, outcome>>
           ELSE IF b.kind = "sint"
             THEN Give(Atom("int", b.n, <<>>), 0)
           ELSE Argument(b.kind, 0, b.n)
    /\ UNCHANGED <<fmt, input, dec>>

TakeArgument ==
    /\ stage = "argument" /\ AtHand >= need
    /\ Take
    /\ Argument(kind, width, Number(Taken))
    /\ UNCHANGED <<fmt, input, dec>>

TakeData ==
    /\ stage = "data" /\ AtHand >= need
    /\ Take
    /\ Give(Atom(kind, need, [i \in 1..need |-> Taken[i].n]), 0)
    /\ UNCHANGED <<fmt, input, dec>>

-----------------------------------------------------------------------------
ReaderStep ==
    \/ Fill \/ FillFails \/ Begin \/ CallerStops
    \/ TakeHead \/ TakeArgument \/ TakeData

-----------------------------------------------------------------------------
\* The type invariant.
ReaderTypeOK ==
    /\ dec \in Readers
    /\ stage \in {"boundary", "head", "argument", "data", "done"}
    /\ read \in 0..Len(input)
    /\ pos \in 0..Len(buf)
    /\ width \in {0, 1, 2, 4, 8} /\ need \in Nat \ {0}
    /\ todo \in Nat \ {0}
    /\ outcome \in {"none", "complete", "truncated", "eof", "refused", "stopped"}
    /\ outcome = "none" <=> stage # "done"
=============================================================================
