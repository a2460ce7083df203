----------------------------- MODULE NodeWriter -----------------------------
(***************************************************************************)
(* The Node encoders on a Writable: write(), which waits for 'drain' when  *)
(* the Writable says it is full, the abort signal, and the ways a Writable *)
(* can go away while an encoder is running.                                *)
(*                                                                         *)
(* The Writable is Node's own and is modelled by its contract: write()     *)
(* takes the chunk and returns false at the high-water mark; 'drain' is    *)
(* emitted after the buffer has emptied again; destroying it emits 'error' *)
(* only if there is an error to report, and write() on a destroyed         *)
(* Writable returns false and emits nothing more.                          *)
(*                                                                         *)
(* JavaScript runs to completion, so what happens outside the encoder      *)
(* happens while it awaits a source or a write.  Ticks of the Writable may *)
(* also run just before an encoder that has been woken goes on.            *)
(***************************************************************************)
EXTENDS Integers

CONSTANTS
    Formats,        \* the encoders that may run, a subset of Encodings
    ElementSizes,   \* the sizes an encoded element can have
    HighWaterMark,  \* the Writable's highWaterMark
    MaxItems,       \* bound on the number of values a source yields
    AppListens      \* may the application have its own 'error' listener?

VARIABLES
    fmt,        \* the encoder that runs
    serving,    \* it runs inside sendArray
    items,      \* how many values the source yields that can be encoded
    ending,     \* what comes after them
    guarded,    \* the application listens for 'error' itself
    pc,         \* control point of the encoder: the chunk it writes next, ...
    waiting,    \* it awaits 'drain' or 'error' of its last write
    count,      \* elements whose write has resolved
    aborted,    \* the abort signal
    late,       \* history: values pulled from the source after the abort
    held,       \* how much the Writable holds: its writableLength
    needDrain,  \* it returned false and owes a 'drain'
    drainDue,   \* the tick that may emit 'drain' is scheduled
    taken,      \* history: number of chunks the Writable took
    state,      \* "open", "errored" ('error' not emitted yet) or "closed"
    ended       \* end() has been called

encoderVars  == <<pc, waiting, count, late>>
writableVars == <<held, needDrain, drainDue, taken, state, ended>>
config       == <<fmt, serving, items, ending, guarded>>
vars         == <<config, encoderVars, aborted, writableVars>>

-----------------------------------------------------------------------------
(***************************************************************************)
(* What the encoders write: an opening chunk, a chunk for the comma, a     *)
(* closing chunk; and whether they look at the abort signal.  Only the     *)
(* JSON encoder does.  "checked" is encodeCheckedArray.                    *)
(***************************************************************************)
Encodings == {"json", "xml", "msgpack", "cbor", "checked"}
Opens   == {"json", "xml", "checked"}
Commas  == {"json"}
Signals == {"json"}

ASSUME WriterAssumption ==
    /\ Formats \subseteq Encodings
    /\ ElementSizes \subseteq Nat \ {0}
    /\ HighWaterMark \in Nat \ {0}
    /\ MaxItems \in Nat
    /\ AppListens \in BOOLEAN

Chunk   == {"open", "comma", "element", "close", "trailer"}
Settled == {"returned", "rejected", "crashed"}

Size     == IF pc = "element" THEN ElementSizes ELSE {1}

\* Where control goes once the write of the current chunk has resolved.
Advance ==
    /\ pc' = CASE pc = "open"    -> "pull"
               [] pc = "comma"   -> "element"
               [] pc = "element" -> "pull"
               [] pc = "close"   -> "returned"
               [] pc = "trailer" -> "rejected"
    /\ count' = IF pc = "element" THEN count + 1 ELSE count

\* An exception inside the loop; only encodeCheckedArray has a handler.
Reject == pc' = IF fmt = "checked" /\ pc \in {"pull", "element"}
                THEN "trailer" ELSE "rejected"

-----------------------------------------------------------------------------
Init ==
    /\ fmt \in Formats
    /\ serving \in (IF fmt = "checked" THEN {FALSE} ELSE BOOLEAN)
    /\ items \in 0..MaxItems
    /\ ending \in {"exhausted", "source", "encode"}
    /\ guarded \in {FALSE, AppListens}
    /\ pc = "start" /\ waiting = FALSE /\ count = 0
    /\ aborted = FALSE /\ late = 0
    /\ held = 0 /\ needDrain = FALSE /\ drainDue = FALSE /\ taken = 0
    /\ state = "open" /\ ended = FALSE

\* encodeArray up to its first write.
Start ==
    /\ pc = "start"
    /\ pc' = IF fmt \in Signals /\ aborted THEN "rejected"
             ELSE IF fmt \in Opens THEN "open" ELSE "pull"
    /\ UNCHANGED <<config, waiting, count, late, aborted, writableVars>>

\* Fault: the signal is checked before the first write only.
PullItemUnchecked ==
    /\ pc = "pull"
    /\ count < items \/ ending = "encode"
    /\ late' = IF aborted THEN late + 1 ELSE late
    /\ pc' = IF fmt \in Commas /\ count > 0 THEN "comma" ELSE "element"
    /\ UNCHANGED <<config, waiting, count, aborted, writableVars>>

\* The source yields a value; the signal is checked before it is used.
PullItem ==
    /\ pc = "pull"
    /\ count < items \/ ending = "encode"
    /\ late' = IF aborted THEN late + 1 ELSE late
    /\ pc' = IF fmt \in Signals /\ aborted THEN "rejected"
             ELSE IF fmt \in Commas /\ count > 0 THEN "comma" ELSE "element"
    /\ UNCHANGED <<config, waiting, count, aborted, writableVars>>

PullEnds ==
    /\ pc = "pull"
    /\ count = items /\ ending = "exhausted"
    /\ pc' = IF fmt \in Opens THEN "close" ELSE "returned"
    /\ UNCHANGED <<config, waiting, count, late, aborted, writableVars>>

PullFails ==
    /\ pc = "pull"
    /\ count = items /\ ending = "source"
    /\ Reject
    /\ UNCHANGED <<config, waiting, count, late, aborted, writableVars>>

EncodeFails ==
    /\ pc = "element" /\ ~waiting
    /\ count = items
    /\ Reject
    /\ UNCHANGED <<config, waiting, count, late, aborted, writableVars>>

-----------------------------------------------------------------------------
\* The encoder awaits its source or a write, or has settled.
AtAwait  == waiting \/ pc \in Settled \cup {"pull"}
HasChunk == pc \in Chunk /\ ~waiting /\ (pc = "element" => count < items)

\* Fault: 'drain' is awaited after every write.
WriteTakenWaits ==
    /\ HasChunk
    /\ state = "open"
    /\ \E n \in Size :
          /\ held + n < HighWaterMark
          /\ held' = held + n
    /\ taken' = taken + 1
    /\ waiting' = TRUE
    /\ UNCHANGED <<config, pc, count, late, aborted, needDrain, drainDue, state, ended>>

\* write(): the Writable takes the chunk and stays below its mark.
WriteTaken ==
    /\ HasChunk
    /\ state = "open"
    /\ \E n \in Size :
          /\ held + n < HighWaterMark
          /\ held' = held + n
    /\ taken' = taken + 1
    /\ Advance
    /\ UNCHANGED <<config, waiting, late, aborted, needDrain, drainDue, state, ended>>

\* Fault: what write() returned is ignored.
WriteFullGoesOn ==
    /\ HasChunk
    /\ state = "open"
    /\ \E n \in Size :
          /\ held + n >= HighWaterMark
          /\ held' = held + n
    /\ taken' = taken + 1
    /\ needDrain' = TRUE
    /\ Advance
    /\ UNCHANGED <<config, waiting, late, aborted, drainDue, state, ended>>

\* write(): it takes the chunk and returns false; wait for 'drain'.
WriteFull ==
    /\ HasChunk
    /\ state = "open"
    /\ \E n \in Size :
          /\ held + n >= HighWaterMark
          /\ held' = held + n
    /\ taken' = taken + 1
    /\ needDrain' = TRUE
    /\ waiting' = TRUE
    /\ UNCHANGED <<config, pc, count, late, aborted, drainDue, state, ended>>

\* write(): the sink fails at once; write() returns false, 'error' follows.
WriteFails ==
    /\ HasChunk
    /\ state = "open"
    /\ \E n \in Size : held' = held + n
    /\ taken' = taken + 1
    /\ state' = "errored"
    /\ waiting' = TRUE
    /\ UNCHANGED <<config, pc, count, late, aborted, needDrain, drainDue, ended>>

\* Fault: the write to a destroyed Writable resolves.
WriteDroppedResolves ==
    /\ HasChunk
    /\ state # "open"
    /\ Advance
    /\ UNCHANGED <<config, waiting, late, aborted, writableVars>>

\* write(): the Writable is destroyed, the chunk is dropped, false is returned.
WriteDropped ==
    /\ HasChunk
    /\ state # "open"
    /\ waiting' = TRUE
    /\ UNCHANGED <<config, pc, count, late, aborted, writableVars>>

\* sendArray ends the response once encodeArray has returned.
EndResponse ==
    /\ serving /\ pc = "returned" /\ ~ended
    /\ ended' = TRUE
    /\ UNCHANGED <<config, encoderVars, aborted, held, needDrain, drainDue, taken, state>>

-----------------------------------------------------------------------------
\* The Writable hands on some of what it holds; emptying the buffer schedules
\* 'drain'.
Flush ==
    /\ state = "open" /\ held > 0
    /\ \E n \in 1..held : held' = held - n
    /\ drainDue' = (drainDue \/ (held' = 0 /\ needDrain))
    /\ UNCHANGED <<config, encoderVars, aborted, needDrain, taken, state, ended>>

\* The tick after: 'drain', if that is still what the Writable owes.
DrainTick ==
    /\ drainDue
    /\ drainDue' = FALSE
    /\ IF state = "open" /\ held = 0 /\ needDrain /\ ~ended
       THEN /\ needDrain' = FALSE
            /\ IF waiting THEN waiting' = FALSE /\ Advance
               ELSE UNCHANGED <<waiting, pc, count>>
       ELSE UNCHANGED <<needDrain, waiting, pc, count>>
    /\ UNCHANGED <<config, late, aborted, held, taken, state, ended>>

\* The sink reports an error (EPIPE, ECONNRESET); 'error' follows on a tick.
SinkFails ==
    /\ AtAwait
    /\ state = "open"
    /\ state' = "errored"
    /\ UNCHANGED <<config, encoderVars, aborted, held, needDrain, drainDue, taken, ended>>

\* Fault: a write that waits for 'drain' does not listen for 'error'.
ErrorTickUnheard ==
    /\ state = "errored"
    /\ state' = "closed"
    /\ UNCHANGED <<config, encoderVars, aborted, held, needDrain, drainDue, taken, ended>>

\* 'error': the pending write rejects.  With no write pending the encoder does
\* not listen, and an 'error' nobody listens for ends the process.
ErrorTick ==
    /\ state = "errored"
    /\ state' = "closed"
    /\ IF waiting
       THEN waiting' = FALSE /\ Reject
       ELSE /\ pc' = IF guarded \/ pc \in Settled THEN pc ELSE "crashed"
            /\ UNCHANGED waiting
    /\ UNCHANGED <<config, count, late, aborted, held, needDrain, drainDue, taken, ended>>

\* Destroyed without an error: the peer closed the connection of a response,
\* possibly before the application began to encode.
Close ==
    /\ AtAwait \/ pc = "start"
    /\ state = "open"
    /\ state' = "closed"
    /\ UNCHANGED <<config, encoderVars, aborted, held, needDrain, drainDue, taken, ended>>

Abort ==
    /\ AtAwait \/ pc = "start"
    /\ ~aborted
    /\ aborted' = TRUE
    /\ UNCHANGED <<config, encoderVars, writableVars>>

Encode == \/ Start \/ PullItem \/ PullEnds \/ PullFails \/ EncodeFails
          \/ WriteTaken \/ WriteFull \/ WriteFails \/ WriteDropped \/ EndResponse
Writable == Flush \/ DrainTick \/ ErrorTick

Next == Encode \/ Writable \/ SinkFails \/ Close \/ Abort

\* The source answers every pull, ticks run, and an open sink keeps reading,
\* however slowly.  Nothing obliges a connection to fail or a signal to fire.
Spec == Init /\ [][Next]_vars /\ WF_vars(Encode) /\ WF_vars(Flush)
             /\ WF_vars(DrainTick) /\ WF_vars(ErrorTick)

-----------------------------------------------------------------------------
WriterTypeOK ==
    /\ fmt \in Formats /\ serving \in BOOLEAN /\ guarded \in BOOLEAN
    /\ items \in 0..MaxItems
    /\ ending \in {"exhausted", "source", "encode"}
    /\ pc \in Chunk \cup Settled \cup {"start", "pull"}
    /\ waiting \in BOOLEAN /\ waiting => pc \in Chunk
    /\ count \in 0..items /\ late \in 0..items + 1 /\ aborted \in BOOLEAN
    /\ held \in Nat
    /\ needDrain \in BOOLEAN /\ drainDue \in BOOLEAN
    /\ taken \in Nat /\ state \in {"open", "errored", "closed"} /\ ended \in BOOLEAN

\* Backpressure: a slow consumer throttles the producer.  The Writable never
\* holds more than one chunk above its mark, whatever the source's length.
BufferBounded ==
    \A bound \in {1} \cup ElementSizes :
        (\A n \in {1} \cup ElementSizes : n <= bound)
            => held < HighWaterMark + bound

\* No lost wake-up: an encoder that waits on an open Writable is owed the
\* 'drain' that will wake it.
NoLostWakeup ==
    waiting /\ state = "open" =>
        needDrain /\ (held > 0 \/ drainDue)

\* An encoder that returns has handed over every chunk of every value, and a
\* response is ended only then: no failed stream is ended as if complete.
Chunks == items + (IF fmt \in Opens THEN 2 ELSE 0)
            + (IF fmt \in Commas /\ items > 0 THEN items - 1 ELSE 0)
CompleteWhenReturned ==
    pc = "returned" \/ ended =>
        pc = "returned" /\ ending = "exhausted" /\ count = items /\ taken = Chunks

\* "flatwire checks the signal before each element, so an abort stops
\* production promptly" (docs/BACKPRESSURE.md).  Of the JSON encoder it holds:
\* at most one value is pulled after the abort.
AbortStopsProduction == late <= 1
AbortPrompt == fmt = "json" => AbortStopsProduction

\* An encoder settles as long as its Writable stays open.
SettlesWhileOpen == <>(pc \in Settled \/ state # "open")

\* The error of a Writable reaches a write that waits for it: the encoder
\* rejects, or in a checked stream goes on to its trailer.
WaitingErrorHandled == waiting /\ state = "errored" ~> pc \in Settled \cup {"trailer"}

\* "If the writer errors mid-stream (broken pipe, closed socket), flatwire's
\* Node encoders reject the encodeArray promise with the stream's error rather
\* than hanging" (docs/BACKPRESSURE.md).  Three cases: the
\* Writable is gone; an error comes while a write waits; and while none does.
GoneSettles         == state # "open" ~> pc \in Settled
WaitingErrorSettles == waiting /\ state = "errored" ~> pc \in Settled
ErrorsReject        == pc # "crashed"
=============================================================================
