------------------------------ MODULE Response ------------------------------
(***************************************************************************)
(* A collection streamed as the body of an HTTP response.  In Python a     *)
(* server asks the generator of iter_encoded_array for one chunk after     *)
(* another and sends it; in Go ArrayHandler writes to the ResponseWriter.  *)
(* The client may leave, the source may fail, and an element may have no   *)
(* encoding.                                                               *)
(*                                                                         *)
(* The servers are external: Starlette sends the status before it asks for *)
(* the first chunk, stops asking once the client has left and breaks the   *)
(* connection when the generator raises; net/http sends 200 with the first *)
(* write or flush, and ends the body when the handler returns.             *)
(***************************************************************************)
EXTENDS Integers, SequencesExt

CONSTANTS
    Adapters,   \* the ports that may serve: "python", "go"
    Requested,  \* the formats asked for, some of them unknown
    MaxItems    \* the most elements in a collection

VARIABLES
    port, fmt, n,       \* the port, the format and the size of the collection
    bad, fails,         \* the element without encoding, and the one at which
                        \* the source fails; 0 if there is none
    place, pulled,      \* where the encoder is, and the elements it has taken
    suspended,          \* whether the generator waits to be asked
    status, body,       \* the status sent (0: none yet), the chunks sent
    conn,               \* "open", "ended" or "broken"
    gone, atLeave       \* whether the client has left, so that writes fail, and
                        \* the elements taken until then

request == <<port, fmt, n, bad, fails>>
vars    == <<request, place, pulled, suspended, status, body, conn,
             gone, atLeave>>

client  == <<gone, atLeave>>

Formats == {"json", "xml", "msgpack", "cbor"}

ASSUME ResponseAssumption ==
    /\ Adapters \subseteq {"python", "go"}
    /\ MaxItems \in Nat

-----------------------------------------------------------------------------
\* A chunk is an element, by its position, or one of these.
Opening   == 0
Closing   == -1
Comma     == -2
Piece     == -3     \* the beginning of an element that could not be finished
ErrorText == -4

Framed == fmt \in {"json", "xml"}

\* What encode_array writes for the first k elements of a collection, chunk by
\* chunk, and for the whole.
Elements(k) ==
    IF fmt = "json"
      THEN [j \in 1..(2 * k - 1) |-> IF j % 2 = 1 THEN (j + 1) \div 2 ELSE Comma]
      ELSE [j \in 1..k |-> j]
Opened == IF Framed THEN <<Opening>> ELSE <<>>
Wire == Opened \o Elements(n) \o (IF Framed THEN <<Closing>> ELSE <<>>)

-----------------------------------------------------------------------------
Init ==
    /\ port \in Adapters /\ fmt \in Requested /\ n \in 0..MaxItems
    /\ bad \in 0..n
    /\ fails \in IF port = "python" THEN 0..n + 1 ELSE {0}
    /\ place = "start" /\ pulled = 0
    /\ suspended = (port = "python")
    /\ status = IF port = "python" THEN 200 ELSE 0
    /\ body = <<>> /\ conn = "open" /\ gone = FALSE /\ atLeave = 0

Runs == conn = "open" /\ ~suspended

\* Fault: the handler does not look whether its write succeeded.
EmitUnchecked(c, next) ==
    /\ body' = IF gone THEN body ELSE Append(body, c)
    /\ status' = 200
    /\ suspended' = (port = "python")
    /\ place' = next

\* The generator yields a chunk and waits; the handler writes it and goes on,
\* unless the write fails.
Emit(c, next) ==
    IF port = "go" /\ gone
      THEN place' = "error" /\ UNCHANGED <<body, status, suspended>>
      ELSE /\ body' = Append(body, c)
           /\ status' = 200
           /\ suspended' = (port = "python")
           /\ place' = next

\* Fault: the exception is caught, and the element asked for again.
FailRetries == UNCHANGED <<conn, place>>

\* A generator that raises breaks the connection, an encoder returns its error.
Fail ==
    IF port = "python"
      THEN conn' = "broken" /\ UNCHANGED place
      ELSE place' = "error" /\ UNCHANGED conn

\* The server asks for the next chunk, or gives the generator up.
Ask ==
    /\ conn = "open" /\ suspended /\ ~gone
    /\ suspended' = FALSE
    /\ UNCHANGED <<request, place, pulled, status, body, conn, client>>
GiveUp ==
    /\ conn = "open" /\ suspended /\ gone
    /\ conn' = "broken"
    /\ UNCHANGED <<request, place, pulled, suspended, status, body, client>>

\* The first chunk.  Go returns its error before anything is sent, the
\* generator raises when it is first asked.
Begin ==
    /\ Runs /\ place = "start" /\ fmt \in Formats
    /\ IF Framed THEN Emit(Opening, "items")
                 ELSE place' = "items" /\ UNCHANGED <<body, status, suspended>>
    /\ UNCHANGED <<request, pulled, conn, client>>
UnknownFormat ==
    /\ Runs /\ place = "start" /\ fmt \notin Formats
    /\ IF port = "go" THEN place' = "refused" /\ UNCHANGED conn ELSE Fail
    /\ UNCHANGED <<request, pulled, suspended, status, body, client>>

PullItem ==
    /\ Runs /\ place = "items" /\ pulled < n /\ fails # pulled + 1
    /\ pulled' = pulled + 1
    /\ IF fmt = "json" /\ pulled > 0
         THEN Emit(Comma, "element")
         ELSE place' = "element" /\ UNCHANGED <<body, status, suspended>>
    /\ UNCHANGED <<request, conn, client>>

SourceFails ==
    /\ Runs /\ place = "items" /\ fails = pulled + 1
    /\ Fail
    /\ UNCHANGED <<request, pulled, suspended, status, body, client>>

Element ==
    /\ Runs /\ place = "element" /\ pulled # bad
    /\ Emit(pulled, "items")
    /\ UNCHANGED <<request, pulled, conn, client>>

\* Go writes all formats but JSON in pieces, some of them before it fails.
EncodeFails ==
    /\ Runs /\ place = "element" /\ pulled = bad
    /\ \/ UNCHANGED <<body, status>>
       \/ /\ port = "go" /\ fmt # "json" /\ ~gone
          /\ body' = Append(body, Piece) /\ status' = 200
    /\ Fail
    /\ UNCHANGED <<request, pulled, suspended, client>>

\* Fault: a collection that is empty is not closed.
ItemsEndUnclosed ==
    /\ Runs /\ place = "items" /\ pulled = n /\ fails # pulled + 1
    /\ IF Framed /\ n > 0
         THEN Emit(Closing, "end")
         ELSE place' = "end" /\ UNCHANGED <<body, status, suspended>>
    /\ UNCHANGED <<request, pulled, conn, client>>

ItemsEnd ==
    /\ Runs /\ place = "items" /\ pulled = n /\ fails # pulled + 1
    /\ IF Framed THEN Emit(Closing, "end")
                 ELSE place' = "end" /\ UNCHANGED <<body, status, suspended>>
    /\ UNCHANGED <<request, pulled, conn, client>>

\* The body ends.  WriteArray has flushed, and net/http sends 200 with that.
Finish ==
    /\ Runs /\ place = "end"
    /\ status' = 200 /\ conn' = "ended"
    /\ UNCHANGED <<request, place, pulled, suspended, body, client>>

\* ArrayHandler answers an error with http.Error, whose status counts only when
\* none is sent: WriteArray flushes before it returns the encoder's error.
HandleError ==
    /\ Runs /\ place \in {"error", "refused"}
    /\ status' = IF place = "refused" THEN 500 ELSE 200
    /\ body' = IF gone THEN body ELSE Append(body, ErrorText)
    /\ conn' = "ended"
    /\ UNCHANGED <<request, place, pulled, suspended, client>>

Leave ==
    /\ conn = "open" /\ ~gone
    /\ gone' = TRUE /\ atLeave' = pulled
    /\ UNCHANGED <<request, place, pulled, suspended, status, body, conn>>

-----------------------------------------------------------------------------
Serve ==
    \/ Ask \/ GiveUp \/ Begin \/ UnknownFormat \/ PullItem \/ SourceFails
    \/ Element \/ EncodeFails \/ ItemsEnd \/ Finish \/ HandleError

Next == Serve \/ Leave

\* The server goes on serving; the client need not leave.
Spec == Init /\ [][Next]_vars /\ WF_vars(Serve)

-----------------------------------------------------------------------------
\* The type invariant.
TypeOK ==
    /\ place \in {"start", "items", "element", "end", "error", "refused"}
    /\ pulled \in 0..n
    /\ status \in {0, 200, 500}
    /\ body \in Seq(-4..n)
    /\ conn \in {"open", "ended", "broken"} /\ atLeave \in 0..pulled
    /\ suspended => port = "python"

\* The body up to where the handler of Go gave up.
Collection == SelectSeq(body, LAMBDA c : c \notin {Piece, ErrorText})

\* The adapters send what encode_array writes, in order and from its start,
\* whatever the client, the source and the encoder do.
BodyIsPrefix == IsPrefix(Collection, Wire)

\* A response that ends normally is the whole collection.  In Go one whose
\* encoder failed ends so too, with the text of the error at the end, unless
\* the client has left.
EndedMeansWhole ==
    conn = "ended" /\ ~gone => body = Wire \/ (port = "go" /\ Last(body) = ErrorText)

\* No element is taken from the source before all those before it are sent.
Lazy == pulled <= Cardinality({i \in DOMAIN body : body[i] > 0}) + 1

\* A client that has left costs the source one element more.
StopsPulling == gone => pulled <= atLeave + 1

\* Every response ends or breaks.
Responds == <>(conn # "open")

\* The error of an encoder is answered with the status the handler gives it.
ErrorIs500 == conn = "ended" /\ place = "error" /\ ~gone => status = 500
=============================================================================
