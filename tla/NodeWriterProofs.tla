--------------------------- MODULE NodeWriterProofs ---------------------------
(***************************************************************************)
(* What the Node encoders guarantee on a Writable of any high-water mark,  *)
(* for sources of any length and elements of any size.                     *)
(***************************************************************************)
EXTENDS NodeWriter, TLAPS

-----------------------------------------------------------------------------
\* The types the other invariants need.
WriterTyped ==
    /\ fmt \in Encodings /\ serving \in BOOLEAN /\ items \in Nat
    /\ ending \in {"exhausted", "source", "encode"}
    /\ pc \in Chunk \cup Settled \cup {"start", "pull"}
    /\ waiting \in BOOLEAN /\ aborted \in BOOLEAN
    /\ waiting => pc \in Chunk
    /\ count \in 0..items
    /\ waiting /\ pc = "element" => count < items
    /\ held \in Nat
    /\ needDrain \in BOOLEAN /\ drainDue \in BOOLEAN
    /\ taken \in Nat /\ late \in Nat
    /\ state \in {"open", "errored", "closed"}

\* The chunks of the first k values and of what precedes them.
Opened    == IF fmt \in Opens THEN 1 ELSE 0
Before(k) == Opened + k + (IF fmt \in Commas /\ k > 0 THEN k - 1 ELSE 0)

\* How many chunks have been taken when control is at a point and no write is
\* pending.
Due ==
    CASE pc \in {"start", "open"} -> 0
      [] pc = "element"           -> IF fmt \in Commas THEN Opened + 2 * count
                                                       ELSE Opened + count
      [] pc = "returned"          -> Chunks
      [] OTHER                    -> Before(count)

OnTheWay == {"start", "open", "pull", "comma", "element", "close", "returned"}

\* The Writable has taken what is due and, when a write waits for its drain,
\* the chunk of that write.
Accounted ==
    /\ pc \in OnTheWay /\ ~waiting                  => taken = Due
    /\ pc \in OnTheWay /\ waiting /\ state = "open" => taken = Due + 1
    /\ pc \in {"start", "open"} => count = 0
    /\ pc = "open"  => fmt \in Opens
    /\ pc = "comma" => fmt \in Commas /\ count > 0
    /\ pc = "close" => fmt \in Opens
    /\ pc \in {"close", "returned"} => count = items /\ ending = "exhausted"
    /\ ended => pc = "returned"

\* The JSON encoder leaves its loop with the first value after the abort.
Prompt == fmt = "json" => late = 0 \/ (late = 1 /\ pc = "rejected")

\* While no write waits, an open Writable is below its mark.
Room == state = "open" /\ ~waiting => held < HighWaterMark

WriterInv ==
    WriterTyped /\ NoLostWakeup /\ Accounted /\ Prompt /\ Room /\ BufferBounded

-----------------------------------------------------------------------------
LEMMA SizesAreNumbers == Size \subseteq Nat \ {0} /\ Size \subseteq {1} \cup ElementSizes
BY WriterAssumption DEF Size

\* A Writable below its mark takes one chunk more.
LEMMA Taken ==
    ASSUME WriterTyped, NEW n \in Size, held' = held + n, held < HighWaterMark
    PROVE  held' \in Nat /\ held' > 0 /\ BufferBounded'
<1>1. n \in Nat /\ n > 0 /\ n \in {1} \cup ElementSizes
  BY SizesAreNumbers
<1>2. held \in Nat /\ HighWaterMark \in Nat
  BY WriterAssumption DEF WriterTyped
<1>3. held' \in Nat /\ held' > 0
  BY <1>1, <1>2
<1>4. BufferBounded'
  <2>. SUFFICES ASSUME NEW bound \in {1} \cup ElementSizes,
                       \A m \in {1} \cup ElementSizes : m <= bound
                PROVE  held' < HighWaterMark + bound
    BY DEF BufferBounded
  <2>1. n <= bound /\ bound \in Nat
    BY <1>1, WriterAssumption
  <2>. QED
    BY <1>1, <1>2, <2>1
<1>. QED
  BY <1>3, <1>4

\* What the Writable holds does not grow.
LEMMA StaysBounded ==
    ASSUME BufferBounded, held \in Nat, held' \in Nat, held' <= held
    PROVE  BufferBounded'
<1>. SUFFICES ASSUME NEW bound \in {1} \cup ElementSizes,
                     \A m \in {1} \cup ElementSizes : m <= bound
              PROVE  held' < HighWaterMark + bound
  BY DEF BufferBounded
<1>1. held < HighWaterMark + bound /\ bound \in Nat /\ HighWaterMark \in Nat
  BY WriterAssumption DEF BufferBounded
<1>. QED
  BY <1>1

\* Where control goes when a write has resolved the account is right again.
LEMMA AdvanceAccounts ==
    ASSUME WriterTyped, Accounted, Prompt, Advance, pc \in Chunk,
           pc = "element" => count < items,
           UNCHANGED <<config, late, aborted, ended>>,
           pc \in OnTheWay => taken' = Due + 1,
           waiting' = FALSE
    PROVE  /\ Accounted' /\ Prompt'
           /\ pc' \in Chunk \cup Settled \cup {"start", "pull"}
           /\ count' \in 0..items
<1>. USE DEF WriterTyped, Advance, Chunk, Settled, config, Encodings
<1>1. pc' \in Chunk \cup Settled \cup {"start", "pull"} /\ count' \in 0..items
  OBVIOUS
<1>2. Prompt'
  BY DEF Prompt
<1>3. ~ended
  BY DEF Accounted
<1>4. Accounted'
  <2>. USE DEF Accounted, OnTheWay, Due, Opened, Before, Chunks, Opens, Commas
  <2>1. CASE pc = "open"
    BY <2>1, <1>3
  <2>2. CASE pc = "comma"
    BY <2>2, <1>3
  <2>3. CASE pc = "element"
    BY <2>3, <1>3
  <2>4. CASE pc = "close"
    BY <2>4, <1>3
  <2>5. CASE pc = "trailer"
    BY <2>5, <1>3
  <2>. QED
    BY <2>1, <2>2, <2>3, <2>4, <2>5
<1>. QED
  BY <1>1, <1>2, <1>4

\* An exception leaves the way to a normal return.
LEMMA RejectAccounts ==
    ASSUME WriterTyped, Accounted, Prompt, Reject, pc # "returned",
           fmt = "json" => late = 0 \/ pc = "rejected",
           UNCHANGED <<config, late, ended>>
    PROVE  Accounted' /\ Prompt' /\ pc' \in {"trailer", "rejected"}
BY DEF Accounted, Prompt, Reject, OnTheWay, config

-----------------------------------------------------------------------------
LEMMA WriterInit == Init => WriterInv
<1>. SUFFICES ASSUME Init PROVE WriterInv
  OBVIOUS
<1>1. WriterTyped
  <2>1. serving \in BOOLEAN
    BY DEF Init
  <2>2. fmt \in Encodings /\ items \in Nat
    BY WriterAssumption DEF Init
  <2>3. /\ count = 0 /\ count \in 0..items /\ taken = 0 /\ late = 0 /\ held = 0
        /\ waiting = FALSE /\ aborted = FALSE /\ needDrain = FALSE /\ drainDue = FALSE
        /\ pc = "start" /\ state = "open"
    BY <2>2 DEF Init
  <2>4. ending \in {"exhausted", "source", "encode"}
    BY DEF Init
  <2>5. taken \in Nat /\ late \in Nat /\ held \in Nat
    BY <2>3
  <2>6. /\ pc \in Chunk \cup Settled \cup {"start", "pull"} /\ pc # "element"
        /\ waiting = FALSE /\ waiting \in BOOLEAN /\ aborted \in BOOLEAN
        /\ needDrain \in BOOLEAN /\ drainDue \in BOOLEAN
        /\ state \in {"open", "errored", "closed"}
    BY <2>3 DEF Chunk, Settled
  <2>. QED
    BY <2>1, <2>2, <2>3, <2>4, <2>5, <2>6, Zenon DEF WriterTyped
<1>2. Accounted
  BY DEF Init, Accounted, OnTheWay, Due
<1>3. Room /\ BufferBounded
  <2>1. held = 0 /\ HighWaterMark > 0 /\ HighWaterMark \in Nat
    BY WriterAssumption DEF Init
  <2>2. \A bound \in {1} \cup ElementSizes : bound \in Nat
    BY WriterAssumption
  <2>. QED
    BY <2>1, <2>2 DEF Room, BufferBounded
<1>. QED
  BY <1>1, <1>2, <1>3 DEF Init, WriterInv, NoLostWakeup, Prompt

LEMMA EncodeKeeps ==
    ASSUME WriterInv,
           Start \/ PullItem \/ PullEnds \/ PullFails \/ EncodeFails \/ EndResponse
    PROVE  WriterInv'
<1>. USE DEF WriterInv, config, writableVars
<1>1. WriterTyped'
  BY DEF WriterTyped, Start, PullItem, PullEnds, PullFails, EncodeFails, EndResponse,
         Reject, Chunk, Settled, Encodings, encoderVars
<1>2. ~waiting /\ waiting' = waiting
  BY DEF Start, PullItem, PullEnds, PullFails, EncodeFails, EndResponse, WriterTyped, Chunk,
         encoderVars
<1>3. NoLostWakeup'
  BY <1>2 DEF NoLostWakeup
<1>4. Prompt'
  BY DEF Prompt, Start, PullItem, PullEnds, PullFails, EncodeFails, EndResponse, Reject,
         Signals, WriterTyped, encoderVars
<1>5. Accounted'
  <2>. USE <1>2 DEF Accounted, OnTheWay, Due, Opened, Before, Chunks, Opens, Commas, WriterTyped,
                   Encodings
  <2>1. CASE Start
    BY <2>1 DEF Start
  <2>2. CASE PullItem
    BY <2>2 DEF PullItem
  <2>3. CASE PullEnds
    BY <2>3 DEF PullEnds
  <2>4. CASE PullFails \/ EncodeFails
    BY <2>4 DEF PullFails, EncodeFails, Reject
  <2>5. CASE EndResponse
    BY <2>5 DEF EndResponse, encoderVars
  <2>. QED
    BY <2>1, <2>2, <2>3, <2>4, <2>5
<1>6. held' = held /\ state' = state
  BY DEF Start, PullItem, PullEnds, PullFails, EncodeFails, EndResponse
<1>7. Room' /\ BufferBounded'
  BY <1>2, <1>6 DEF Room, BufferBounded
<1>. QED
  BY <1>1, <1>3, <1>4, <1>5, <1>7

LEMMA WriteKeeps ==
    ASSUME WriterInv, WriteTaken \/ WriteFull \/ WriteFails \/ WriteDropped
    PROVE  WriterInv'
<1>. USE DEF WriterInv
<1>1. /\ ~waiting /\ pc \in Chunk /\ (pc = "element" => count < items)
      /\ pc \in OnTheWay => taken = Due
  BY DEF WriteTaken, WriteFull, WriteFails, WriteDropped, HasChunk, Accounted
<1>2. UNCHANGED <<config, late, aborted, drainDue, ended>>
  BY DEF WriteTaken, WriteFull, WriteFails, WriteDropped, writableVars
<1>3. held' \in Nat /\ (WriteFull => held' > 0) /\ BufferBounded'
  <2>1. CASE WriteDropped
    <3>1. held' = held
      BY <2>1 DEF WriteDropped, writableVars
    <3>2. WriteFull => FALSE
      BY <2>1 DEF WriteDropped, WriteFull
    <3>. QED
      BY <3>1, <3>2 DEF WriterTyped, BufferBounded
  <2>2. CASE WriteTaken \/ WriteFull \/ WriteFails
    <3>1. state = "open" /\ held < HighWaterMark
      BY <1>1, <2>2 DEF WriteTaken, WriteFull, WriteFails, Room
    <3>2. \E n \in Size : held' = held + n
      BY <2>2 DEF WriteTaken, WriteFull, WriteFails
    <3>. QED
      BY <3>1, <3>2, Taken
  <2>. QED
    BY <2>1, <2>2
<1>4. CASE WriteTaken
  <2>1. /\ Advance /\ taken' = taken + 1 /\ waiting' = FALSE
        /\ UNCHANGED <<needDrain, state>>
    BY <1>1, <1>4 DEF WriteTaken
  <2>4. Room'
    <3>1. held' < HighWaterMark
      BY <1>4 DEF WriteTaken
    <3>. QED
      BY <3>1 DEF Room
  <2>2. /\ Accounted' /\ Prompt'
        /\ pc' \in Chunk \cup Settled \cup {"start", "pull"} /\ count' \in 0..items
    BY <1>1, <1>2, <2>1, AdvanceAccounts
  <2>3. WriterTyped'
    <3>1. taken' \in Nat /\ late' \in Nat /\ count' \in 0..items'
      BY <1>2, <2>1, <2>2 DEF WriterTyped, config
    <3>. QED
      BY <1>2, <1>3, <2>1, <2>2, <3>1 DEF WriterTyped, config
  <2>. QED
    BY <1>3, <2>1, <2>2, <2>3, <2>4 DEF NoLostWakeup
<1>5. CASE WriteFull \/ WriteFails \/ WriteDropped
  <2>1. /\ UNCHANGED <<pc, count>> /\ waiting' = TRUE
        /\ needDrain' \in BOOLEAN /\ taken' \in Nat
        /\ state' \in {"open", "errored", "closed"}
        /\ state' = "open" => WriteFull /\ taken' = taken + 1 /\ needDrain' = TRUE
    <3>1. CASE WriteFull
      BY <3>1 DEF WriteFull, WriterTyped
    <3>2. CASE WriteFails
      BY <3>2 DEF WriteFails, WriterTyped
    <3>3. CASE WriteDropped
      BY <3>3 DEF WriteDropped, writableVars, WriterTyped
    <3>. QED
      BY <1>5, <3>1, <3>2, <3>3
  <2>2. WriterTyped'
    BY <1>1, <1>2, <1>3, <2>1 DEF WriterTyped, config
  <2>3. NoLostWakeup'
    BY <1>3, <2>1 DEF NoLostWakeup
  <2>4. Due' = Due
    BY <1>2, <2>1 DEF Due, Before, Opened, Chunks, config
  <2>5. Accounted'
    BY <1>1, <1>2, <2>1, <2>4 DEF Accounted, config
  <2>6. Prompt'
    BY <1>2, <2>1 DEF Prompt, config
  <2>7. Room'
    BY <2>1 DEF Room
  <2>. QED
    BY <1>3, <2>2, <2>3, <2>5, <2>6, <2>7
<1>. QED
  BY <1>4, <1>5

\* Nothing but the Writable and the signal changes.
LEMMA OutsideKeeps ==
    ASSUME WriterInv, UNCHANGED <<config, encoderVars, taken, ended>>,
           WriterTyped', NoLostWakeup', held' \in Nat, held' <= held,
           state' = "open" => state = "open"
    PROVE  WriterInv'
<1>1. Due' = Due
  BY DEF Due, Before, Opened, Chunks, config, encoderVars
<1>2. Accounted'
  BY <1>1 DEF WriterInv, Accounted, config, encoderVars
<1>3. Prompt'
  BY DEF WriterInv, Prompt, config, encoderVars
<1>4. BufferBounded'
  BY StaysBounded DEF WriterInv, WriterTyped
<1>5. Room'
  <2>1. held \in Nat /\ HighWaterMark \in Nat /\ waiting' = waiting
    BY WriterAssumption DEF WriterInv, WriterTyped, encoderVars
  <2>. QED
    BY <2>1 DEF WriterInv, Room
<1>. QED
  BY <1>2, <1>3, <1>4, <1>5 DEF WriterInv

LEMMA FlushKeeps == ASSUME WriterInv, Flush PROVE WriterInv'
<1>1. held' \in Nat /\ held' <= held /\ (held' = 0 /\ needDrain => drainDue')
  BY DEF WriterInv, WriterTyped, Flush
<1>2. WriterTyped'
  BY <1>1 DEF WriterInv, WriterTyped, Flush, config, encoderVars
<1>3. NoLostWakeup'
  BY <1>1 DEF WriterInv, NoLostWakeup, Flush, encoderVars
<1>. QED
  BY <1>1, <1>2, <1>3, OutsideKeeps DEF Flush

LEMMA DrainKeeps == ASSUME WriterInv, DrainTick PROVE WriterInv'
<1>. USE DEF WriterInv
<1>1. /\ UNCHANGED <<config, late, aborted, held, taken, state, ended>>
      /\ drainDue' = FALSE /\ held \in Nat /\ held <= held
  BY DEF DrainTick, WriterTyped
<1>2. CASE state = "open" /\ held = 0 /\ needDrain /\ ~ended /\ waiting
  <2>1. waiting' = FALSE /\ Advance /\ needDrain' = FALSE
    BY <1>2 DEF DrainTick
  <2>2. /\ pc \in Chunk /\ (pc = "element" => count < items)
        /\ pc \in OnTheWay => taken' = Due + 1
    BY <1>1, <1>2 DEF WriterTyped, Accounted
  <2>3. /\ Accounted' /\ Prompt'
        /\ pc' \in Chunk \cup Settled \cup {"start", "pull"} /\ count' \in 0..items
    BY <1>1, <2>1, <2>2, AdvanceAccounts
  <2>4. WriterTyped'
    BY <1>1, <2>1, <2>3 DEF WriterTyped, config
  <2>5. BufferBounded'
    BY <1>1, StaysBounded
  <2>6. Room'
    <3>1. HighWaterMark \in Nat /\ HighWaterMark > 0 /\ held' = 0
      BY <1>1, <1>2, WriterAssumption
    <3>. QED
      BY <3>1 DEF Room
  <2>. QED
    BY <2>1, <2>3, <2>4, <2>5, <2>6 DEF NoLostWakeup
<1>3. CASE ~(state = "open" /\ held = 0 /\ needDrain /\ ~ended /\ waiting)
  <2>1. UNCHANGED <<waiting, pc, count>> /\ needDrain' \in BOOLEAN
        /\ (~waiting \/ UNCHANGED needDrain)
    BY <1>3 DEF DrainTick, WriterTyped
  <2>2. WriterTyped'
    BY <1>1, <2>1 DEF WriterTyped, config
  <2>3. waiting => ~ended
    BY DEF WriterTyped, Accounted, Chunk
  <2>4. NoLostWakeup'
    BY <1>1, <1>3, <2>1, <2>3 DEF NoLostWakeup
  <2>. QED
    BY <1>1, <2>1, <2>2, <2>4, OutsideKeeps DEF encoderVars
<1>. QED
  BY <1>2, <1>3

LEMMA ErrorKeeps == ASSUME WriterInv, ErrorTick PROVE WriterInv'
<1>. USE DEF WriterInv
<1>1. /\ UNCHANGED <<config, count, late, aborted, held, needDrain, drainDue, taken, ended>>
      /\ state' = "closed" /\ held \in Nat /\ held <= held
  BY DEF ErrorTick, WriterTyped
<1>2. NoLostWakeup' /\ Room' /\ BufferBounded'
  BY <1>1, StaysBounded DEF NoLostWakeup, Room
<1>3. CASE waiting
  <2>1. waiting' = FALSE /\ Reject
    BY <1>3 DEF ErrorTick
  <2>2. Accounted' /\ Prompt' /\ pc' \in {"trailer", "rejected"}
    BY <1>1, <1>3, <2>1, RejectAccounts DEF WriterTyped, Chunk, Prompt
  <2>3. WriterTyped'
    BY <1>1, <2>1, <2>2 DEF WriterTyped, config, Chunk, Settled
  <2>. QED
    BY <1>2, <2>2, <2>3
<1>4. CASE ~waiting
  <2>1. UNCHANGED waiting /\ (pc' = pc \/ (pc \notin Settled /\ pc' = "crashed"))
    BY <1>4 DEF ErrorTick
  <2>2. WriterTyped'
    BY <1>1, <1>4, <2>1 DEF WriterTyped, config, Settled
  <2>3. CASE pc' = pc
    BY <1>1, <1>2, <2>1, <2>2, <2>3, OutsideKeeps DEF encoderVars
  <2>4. CASE pc \notin Settled /\ pc' = "crashed"
    <3>1. Accounted' /\ Prompt'
      BY <1>1, <1>4, <2>1, <2>4
         DEF Accounted, Prompt, OnTheWay, Settled, config
    <3>. QED
      BY <1>2, <2>2, <3>1
  <2>. QED
    BY <2>1, <2>3, <2>4
<1>. QED
  BY <1>3, <1>4

\* The invariant, for every source, mark and order of events.
THEOREM WriterSafe == Spec => []WriterInv
<1>1. WriterInv /\ [Next]_vars => WriterInv'
  <2>. SUFFICES ASSUME WriterInv, [Next]_vars PROVE WriterInv'
    OBVIOUS
  <2>1. CASE SinkFails \/ Close \/ Abort \/ UNCHANGED vars
    <3>1. /\ UNCHANGED <<config, encoderVars, held, needDrain, drainDue, taken, ended>>
          /\ state' \in {state, "errored", "closed"}
          /\ aborted' \in {aborted, TRUE}
      BY <2>1 DEF SinkFails, Close, Abort, vars, writableVars
    <3>2. WriterTyped' /\ NoLostWakeup'
      BY <3>1, ZenonT(60) DEF WriterInv, WriterTyped, NoLostWakeup, config, encoderVars
    <3>3. held' \in Nat /\ held' <= held
      BY <3>1 DEF WriterInv, WriterTyped
    <3>. QED
      BY <3>1, <3>2, <3>3, OutsideKeeps
  <2>. QED
    BY <2>1, EncodeKeeps, WriteKeeps, FlushKeeps, DrainKeeps, ErrorKeeps
       DEF Next, Encode, Writable
<1>. QED
  BY <1>1, WriterInit, PTL DEF Spec

-----------------------------------------------------------------------------
\* An encoder that waits on an open Writable is owed the drain.
THEOREM WakeUpIsOwed == Spec => []NoLostWakeup
BY WriterSafe, PTL DEF WriterInv

\* The Writable never holds more than one chunk above its mark.
THEOREM MemoryIsBounded == Spec => []BufferBounded
BY WriterSafe, PTL DEF WriterInv

\* An encoder that returns has handed over every chunk of every value, and
\* only then is a response ended.
THEOREM ReturnMeansComplete == Spec => []CompleteWhenReturned
<1>1. WriterInv => CompleteWhenReturned
  BY DEF WriterInv, WriterTyped, Accounted, CompleteWhenReturned, Due, OnTheWay, Chunk
<1>. QED
  BY <1>1, WriterSafe, PTL

\* The JSON encoder takes one value more after the abort.
THEOREM AbortIsPrompt == Spec => []AbortPrompt
<1>1. WriterInv => AbortPrompt
  BY DEF WriterInv, Prompt, AbortPrompt, AbortStopsProduction
<1>. QED
  BY <1>1, WriterSafe, PTL
=============================================================================
