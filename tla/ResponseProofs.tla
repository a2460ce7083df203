---------------------------- MODULE ResponseProofs ----------------------------
(***************************************************************************)
(* What a client that leaves costs the source, and what a response that    *)
(* ends normally carries, for collections of any size.                     *)
(***************************************************************************)
EXTENDS Response, SequenceTheorems, TLAPS

-----------------------------------------------------------------------------
\* Where the encoder of a client that has left can be: a generator waits and is
\* not asked again; whoever is still about to take an element has taken none
\* since; and the one that holds an element fails to send it, or waits.
GoneInv ==
    /\ port \in {"python", "go"}
    /\ suspended \in BOOLEAN
    /\ suspended => port = "python"
    /\ pulled \in Nat /\ atLeave \in Nat
    /\ gone \in BOOLEAN
    /\ gone => pulled <= atLeave + 1
    /\ gone /\ ~suspended /\ place \in {"start", "items"} => pulled = atLeave

-----------------------------------------------------------------------------
\* Sending takes no element.  It leaves a generator waiting, and a handler
\* whose client has left in its error.
LEMMA EmitKeeps ==
    ASSUME GoneInv, NEW c, NEW next, Emit(c, next),
           UNCHANGED <<port, pulled, gone, atLeave>>
    PROVE  GoneInv'
BY DEF GoneInv, Emit

LEMMA FailKeeps ==
    ASSUME GoneInv, Fail, UNCHANGED <<port, pulled, suspended, gone, atLeave>>
    PROVE  GoneInv'
BY DEF GoneInv, Fail

\* The invariant holds of every step of the server and of the client.
THEOREM LeavingIsNoticed == Spec => []GoneInv
<1>1. Init => GoneInv
  <2>. SUFFICES ASSUME Init PROVE GoneInv
    OBVIOUS
  <2>1. port \in {"python", "go"} /\ pulled = 0 /\ atLeave = 0 /\ gone = FALSE
    BY ResponseAssumption DEF Init
  <2>2. suspended \in BOOLEAN /\ (suspended => port = "python")
    BY DEF Init
  <2>. QED
    BY <2>1, <2>2 DEF GoneInv
<1>2. GoneInv /\ [Next]_vars => GoneInv'
  <2>. SUFFICES ASSUME GoneInv, [Next]_vars PROVE GoneInv'
    OBVIOUS
  <2>. USE DEF request, client
  <2>1. CASE Ask
    BY <2>1 DEF Ask, GoneInv
  <2>2. CASE GiveUp
    BY <2>2 DEF GiveUp, GoneInv
  <2>3. CASE Begin
    <3>1. CASE Framed
      BY <2>3, <3>1, EmitKeeps DEF Begin
    <3>2. CASE ~Framed
      BY <2>3, <3>2 DEF Begin, Runs, GoneInv
    <3>. QED
      BY <3>1, <3>2
  <2>4. CASE UnknownFormat
    <3>1. CASE port = "go"
      BY <2>4, <3>1 DEF UnknownFormat, GoneInv
    <3>2. CASE port # "go"
      BY <2>4, <3>2, FailKeeps DEF UnknownFormat
    <3>. QED
      BY <3>1, <3>2
  <2>5. CASE PullItem
    <3>1. /\ pulled' = pulled + 1 /\ UNCHANGED <<port, gone, atLeave>>
          /\ gone => pulled = atLeave
      BY <2>5 DEF PullItem, Runs, GoneInv
    <3>2. \/ suspended' = FALSE /\ place' \in {"element", "error"}
          \/ suspended' = TRUE /\ port = "python"
      BY <2>5 DEF PullItem, Runs, Emit, GoneInv
    <3>3. pulled' \in Nat /\ (gone' => pulled' <= atLeave' + 1)
      BY <3>1 DEF GoneInv
    <3>. QED
      BY <3>1, <3>2, <3>3, Zenon DEF GoneInv
  <2>6. CASE SourceFails
    BY <2>6, FailKeeps DEF SourceFails
  <2>7. CASE Element
    BY <2>7, EmitKeeps DEF Element
  <2>8. CASE EncodeFails
    BY <2>8, FailKeeps DEF EncodeFails
  <2>9. CASE ItemsEnd
    <3>1. CASE Framed
      BY <2>9, <3>1, EmitKeeps DEF ItemsEnd
    <3>2. CASE ~Framed
      BY <2>9, <3>2 DEF ItemsEnd, GoneInv
    <3>. QED
      BY <3>1, <3>2
  <2>10. CASE Finish
    BY <2>10 DEF Finish, GoneInv
  <2>11. CASE HandleError
    BY <2>11 DEF HandleError, GoneInv
  <2>12. CASE Leave
    BY <2>12 DEF Leave, GoneInv
  <2>13. CASE UNCHANGED vars
    BY <2>13 DEF vars, GoneInv
  <2>. QED
    BY <2>1, <2>2, <2>3, <2>4, <2>5, <2>6, <2>7, <2>8, <2>9, <2>10, <2>11, <2>12,
       <2>13 DEF Next, Serve
<1>. QED
  BY <1>1, <1>2, PTL DEF Spec

\* A client that has left costs the source one element more at most.
THEOREM SourceIsSpared == Spec => []StopsPulling
<1>1. GoneInv => StopsPulling
  BY DEF GoneInv, StopsPulling
<1>. QED
  BY <1>1, LeavingIsNoticed, PTL

-----------------------------------------------------------------------------
(***************************************************************************)
(* The body.                                                               *)
(***************************************************************************)
Upto(k) == Opened \o Elements(k)

\* Where the body stands at each place of the encoder.
BodyInv ==
    /\ port \in {"python", "go"} /\ n \in Nat /\ pulled \in 0..n
    /\ body \in Seq(Int)
    /\ place \in {"start", "items", "element", "end", "error", "refused"}
    /\ place = "start" => pulled = 0 /\ body = <<>>
    /\ place = "items" => body = Upto(pulled)
    /\ place = "element" =>
          /\ pulled > 0
          /\ body = IF fmt = "json" /\ pulled > 1
                      THEN Append(Upto(pulled - 1), Comma) ELSE Upto(pulled - 1)
    /\ place = "end" => body = Wire
    /\ place \in {"error", "refused"} => port = "go"
    /\ EndedMeansWhole

\* One element more on the wire, behind its comma.
LEMMA ElementsGrow ==
    ASSUME NEW k \in Nat
    PROVE  /\ Elements(k) \in Seq(Int)
           /\ Elements(k + 1) = Append(IF fmt = "json" /\ k > 0
                                         THEN Append(Elements(k), Comma)
                                         ELSE Elements(k), k + 1)
<1>. DEFINE E(i) == IF fmt = "json"
                      THEN [j \in 1..(2 * i - 1) |->
                              IF j % 2 = 1 THEN (j + 1) \div 2 ELSE Comma]
                      ELSE [j \in 1..i |-> j]
            L(i) == IF fmt = "json" THEN (IF i = 0 THEN 0 ELSE 2 * i - 1) ELSE i
<1>1. ASSUME NEW i \in Nat
      PROVE  /\ E(i) \in Seq(Int) /\ Len(E(i)) = L(i) /\ L(i) \in Nat
             /\ \A j \in 1..L(i) :
                   E(i)[j] = IF fmt = "json" /\ j % 2 = 0 THEN Comma
                             ELSE IF fmt = "json" THEN (j + 1) \div 2 ELSE j
  <2>1. CASE fmt = "json"
    <3>1. 1..(2 * i - 1) = 1..L(i) /\ L(i) \in Nat
      BY <2>1
    <3>2. E(i) = [j \in 1..L(i) |-> IF j % 2 = 1 THEN (j + 1) \div 2 ELSE Comma]
      BY <2>1, <3>1
    <3>. DEFINE l == L(i)
    <3>. HIDE DEF l
    <3>3. [j \in 1..l |-> IF j % 2 = 1 THEN (j + 1) \div 2 ELSE Comma] \in Seq(Int)
          /\ Len([j \in 1..l |-> IF j % 2 = 1 THEN (j + 1) \div 2 ELSE Comma]) = l
      BY <3>1 DEF l, Comma
    <3>4. E(i) \in Seq(Int) /\ Len(E(i)) = l
      BY <3>2, <3>3, Zenon DEF l
    <3>5. \A j \in 1..l :
              E(i)[j] = IF j % 2 = 1 THEN (j + 1) \div 2 ELSE Comma
      BY <3>2, Zenon DEF l
    <3>6. l \in Nat
      BY <3>1 DEF l
    <3>. HIDE DEF E
    <3>7. \A j \in 1..l :
              E(i)[j] = IF fmt = "json" /\ j % 2 = 0 THEN Comma
                        ELSE IF fmt = "json" THEN (j + 1) \div 2 ELSE j
      BY <2>1, <3>5, <3>6
    <3>. QED
      BY <3>4, <3>6, <3>7, Zenon DEF l
  <2>2. CASE fmt # "json"
    <3>1. E(i) = [j \in 1..i |-> j] /\ L(i) = i
      BY <2>2
    <3>. QED
      BY <2>2, <3>1
  <2>. QED
    BY <2>1, <2>2
<1>2. Elements(k) = E(k) /\ Elements(k + 1) = E(k + 1)
  BY DEF Elements
<1>. HIDE DEF E
<1>. DEFINE m == IF fmt = "json" /\ k > 0 THEN Append(E(k), Comma) ELSE E(k)
<1>3. /\ m \in Seq(Int) /\ Len(m) = L(k + 1) - 1 /\ Len(m) \in Nat
      /\ \A j \in 1..L(k + 1) - 1 : m[j] = E(k + 1)[j]
  <2>0. /\ E(k) \in Seq(Int) /\ Len(E(k)) = L(k) /\ L(k) \in Nat
        /\ \A j \in 1..L(k) :
              E(k)[j] = IF fmt = "json" /\ j % 2 = 0 THEN Comma
                        ELSE IF fmt = "json" THEN (j + 1) \div 2 ELSE j
    BY <1>1
  <2>00. /\ k + 1 \in Nat /\ L(k + 1) \in Nat
         /\ \A j \in 1..L(k + 1) :
               E(k + 1)[j] = IF fmt = "json" /\ j % 2 = 0 THEN Comma
                             ELSE IF fmt = "json" THEN (j + 1) \div 2 ELSE j
    BY <1>1
  <2>1. CASE fmt = "json" /\ k > 0
    <3>1. L(k) = 2 * k - 1 /\ L(k + 1) = 2 * k + 1 /\ (2 * k) % 2 = 0
      BY <2>1
    <3>2. /\ m \in Seq(Int) /\ Len(m) = L(k) + 1 /\ m[L(k) + 1] = Comma
          /\ \A j \in 1..L(k) : m[j] = E(k)[j]
      BY <2>0, <2>1, AppendProperties DEF Comma
    <3>3. E(k + 1)[2 * k] = Comma
      BY <2>00, <2>1, <3>1
    <3>4. Len(m) = 2 * k /\ m[2 * k] = Comma
      BY <2>0, <3>1, <3>2
    <3>5. ASSUME NEW j \in 1..2 * k PROVE m[j] = E(k + 1)[j]
      <4>1. CASE j = 2 * k
        BY <3>3, <3>4, <4>1
      <4>2. CASE j # 2 * k
        <5>1. j \in 1..L(k) /\ j \in 1..L(k + 1)
          BY <3>1, <4>2
        <5>2. E(k)[j] = E(k + 1)[j]
          BY <2>0, <2>00, <5>1, Zenon
        <5>. QED
          BY <3>2, <5>1, <5>2
      <4>. QED
        BY <4>1, <4>2
    <3>. HIDE DEF m, L
    <3>. QED
      BY <3>1, <3>2, <3>4, <3>5
  <2>2. CASE ~(fmt = "json" /\ k > 0)
    <3>1. L(k + 1) = L(k) + 1 /\ m = E(k)
      BY <2>2
    <3>. QED
      BY <2>0, <2>00, <3>1
  <2>. QED
    BY <2>1, <2>2
<1>4. E(k + 1)[L(k + 1)] = k + 1 /\ L(k + 1) > 0
  <2>1. L(k + 1) > 0 /\ L(k + 1) \in 1..L(k + 1)
    OBVIOUS
  <2>2. fmt = "json" => L(k + 1) = 2 * k + 1 /\ (2 * k + 1) % 2 = 1
                        /\ (2 * k + 1 + 1) \div 2 = k + 1
    OBVIOUS
  <2>3. E(k + 1)[L(k + 1)] =
          IF fmt = "json" /\ L(k + 1) % 2 = 0 THEN Comma
          ELSE IF fmt = "json" THEN (L(k + 1) + 1) \div 2 ELSE L(k + 1)
    <3>1. k + 1 \in Nat
      OBVIOUS
    <3>. QED
      BY <1>1, <2>1, <3>1, Zenon
  <2>4. fmt # "json" => L(k + 1) = k + 1
    OBVIOUS
  <2>. HIDE DEF L
  <2>. QED
    BY <2>1, <2>2, <2>3, <2>4
<1>. HIDE DEF m
<1>5. Append(m, k + 1) = E(k + 1)
  <2>1. /\ Append(m, k + 1) \in Seq(Int) /\ Len(Append(m, k + 1)) = Len(m) + 1
        /\ Append(m, k + 1)[Len(m) + 1] = k + 1
        /\ \A j \in 1..Len(m) : Append(m, k + 1)[j] = m[j]
    BY <1>3, AppendProperties
  <2>2. E(k + 1) \in Seq(Int) /\ Len(E(k + 1)) = L(k + 1) /\ L(k + 1) \in Nat
    BY <1>1, SMTT(40)
  <2>. HIDE DEF L
  <2>3. Len(m) + 1 = L(k + 1) /\ Len(m) \in Nat
    BY <1>3, <2>2
  <2>4. ASSUME NEW j \in 1..Len(m) + 1 PROVE Append(m, k + 1)[j] = E(k + 1)[j]
    <3>1. CASE j = Len(m) + 1
      BY <1>4, <2>1, <2>3, <3>1
    <3>2. CASE j # Len(m) + 1
      <4>1. j \in 1..Len(m) /\ j \in 1..L(k + 1) - 1
        BY <2>3, <3>2
      <4>. QED
        BY <1>3, <2>1, <4>1
    <3>. QED
      BY <3>1, <3>2
  <2>5. Len(Append(m, k + 1)) = Len(E(k + 1))
    BY <2>1, <2>2, <2>3
  <2>6. \A j \in 1..Len(Append(m, k + 1)) : Append(m, k + 1)[j] = E(k + 1)[j]
    BY <2>1, <2>4, Zenon
  <2>. QED
    BY <2>1, <2>2, <2>5, <2>6, SeqEqual
<1>. QED
  BY <1>1, <1>2, <1>5 DEF m

\* What is appended to a part of the wire is appended to the wire.
LEMMA AppendBehind ==
    ASSUME NEW s \in Seq(Int), NEW t \in Seq(Int), NEW c \in Int
    PROVE  s \o Append(t, c) = Append(s \o t, c) /\ s \o <<c>> = Append(s, c)
<1>1. /\ <<c>> \in Seq(Int) /\ Append(t, c) = t \o <<c>>
      /\ s \o t \in Seq(Int) /\ Append(s \o t, c) = (s \o t) \o <<c>>
      /\ Append(s, c) = s \o <<c>>
  BY AppendProperties, ConcatProperties, AppendIsConcat, SMTT(40)
<1>. QED
  BY <1>1, ConcatAssociative

LEMMA UptoGrows ==
    ASSUME NEW k \in Nat
    PROVE  /\ Upto(k) \in Seq(Int) /\ Upto(0) = Opened
           /\ Upto(k + 1) = Append(IF fmt = "json" /\ k > 0
                                     THEN Append(Upto(k), Comma) ELSE Upto(k),
                                   k + 1)
<1>1. Opened \in Seq(Int) /\ Comma \in Int /\ k + 1 \in Int
  BY DEF Opened, Opening, Comma
<1>2. Elements(k) \in Seq(Int)
  BY ElementsGrow
<1>3. Upto(k) \in Seq(Int)
  BY <1>1, <1>2, ConcatProperties DEF Upto
<1>4. Upto(0) = Opened
  <2>1. Elements(0) = <<>>
    BY DEF Elements
  <2>. QED
    BY <1>1, <2>1, ConcatEmptySeq DEF Upto
<1>5. CASE fmt = "json" /\ k > 0
  <2>1. Elements(k + 1) = Append(Append(Elements(k), Comma), k + 1)
    BY <1>5, ElementsGrow
  <2>2. Append(Elements(k), Comma) \in Seq(Int)
    BY <1>1, <1>2, AppendProperties
  <2>3. Opened \o Append(Append(Elements(k), Comma), k + 1)
          = Append(Opened \o Append(Elements(k), Comma), k + 1)
    BY <1>1, <2>2, AppendBehind
  <2>4. Opened \o Append(Elements(k), Comma) = Append(Opened \o Elements(k), Comma)
    BY <1>1, <1>2, AppendBehind
  <2>. QED
    BY <1>3, <1>4, <1>5, <2>1, <2>3, <2>4 DEF Upto
<1>6. CASE ~(fmt = "json" /\ k > 0)
  <2>1. Elements(k + 1) = Append(Elements(k), k + 1)
    BY <1>6, ElementsGrow
  <2>2. Opened \o Append(Elements(k), k + 1) = Append(Opened \o Elements(k), k + 1)
    BY <1>1, <1>2, AppendBehind
  <2>. QED
    BY <1>3, <1>4, <1>6, <2>1, <2>2 DEF Upto
<1>. QED
  BY <1>5, <1>6

\* A chunk is sent, or the handler's write has failed.
LEMMA EmitGrows ==
    ASSUME BodyInv, NEW c \in Int, NEW next, Emit(c, next), conn = "open",
           UNCHANGED <<request, conn, client>>
    PROVE  \/ /\ place' = "error" /\ port' = "go"
              /\ body' = body /\ body' \in Seq(Int)
           \/ place' = next /\ body' = Append(body, c) /\ body' \in Seq(Int)
<1>1. body \in Seq(Int) /\ Append(body, c) \in Seq(Int)
  BY AppendProperties DEF BodyInv
<1>. QED
  BY <1>1 DEF Emit, request

\* Wire is the last thing sent.
LEMMA WireIsUpto ==
    ASSUME n \in Nat
    PROVE  Wire = IF Framed THEN Append(Upto(n), Closing) ELSE Upto(n)
<1>1. Upto(n) \in Seq(Int) /\ Closing \in Int
  BY UptoGrows DEF Closing
<1>2. Wire = Upto(n) \o (IF Framed THEN <<Closing>> ELSE <<>>)
  BY ConcatAssociative DEF Wire, Upto
<1>3. Upto(n) \o <<Closing>> = Append(Upto(n), Closing) /\ Upto(n) \o <<>> = Upto(n)
  BY <1>1, AppendIsConcat, ConcatEmptySeq
<1>. QED
  BY <1>2, <1>3

\* The request stays as it is.
LEMMA SameRequest ==
    ASSUME UNCHANGED request
    PROVE  /\ \A k : Upto(k)' = Upto(k)
           /\ Wire' = Wire /\ Opened' = Opened /\ (Framed' <=> Framed)
BY DEF request, Upto, Opened, Elements, Wire, Framed

\* The request, the connection and the client stay as they are.
LEMMA BodyKeeps ==
    ASSUME BodyInv, UNCHANGED <<request, conn, client>>, conn = "open",
           pulled' \in 0..n, body' \in Seq(Int),
           place' \in {"start", "items", "element", "end", "error", "refused"},
           place' = "start" => pulled' = 0 /\ body' = <<>>,
           place' = "items" => body' = Upto(pulled'),
           place' = "element" =>
              /\ pulled' > 0
              /\ body' = IF fmt = "json" /\ pulled' > 1
                           THEN Append(Upto(pulled' - 1), Comma)
                           ELSE Upto(pulled' - 1),
           place' = "end" => body' = Wire,
           place' \in {"error", "refused"} => port = "go"
    PROVE  BodyInv'
<1>1. /\ port' = port /\ n' = n /\ fmt' = fmt /\ conn' = "open"
  BY DEF request
<1>2. EndedMeansWhole'
  BY <1>1 DEF EndedMeansWhole
<1>3. Upto(pulled)' = Upto(pulled') /\ Upto(pulled - 1)' = Upto(pulled' - 1)
      /\ Wire' = Wire
  BY <1>1, SameRequest DEF Upto, Opened, Elements, Framed
<1>. QED
  BY <1>1, <1>2, <1>3 DEF BodyInv

\* The body is what its place says, after every step of the server and of the
\* client.
THEOREM BodyIsPlaced == Spec => []BodyInv
<1>1. Init => BodyInv
  <2>. SUFFICES ASSUME Init PROVE BodyInv
    OBVIOUS
  <2>1. port \in {"python", "go"} /\ n \in Nat /\ pulled = 0 /\ body = <<>>
        /\ place = "start" /\ conn = "open"
    BY ResponseAssumption DEF Init
  <2>. QED
    BY <2>1 DEF BodyInv, EndedMeansWhole
<1>2. BodyInv /\ [Next]_vars => BodyInv'
  <2>. SUFFICES ASSUME BodyInv, [Next]_vars PROVE BodyInv'
    OBVIOUS
  <2>1. /\ n \in Nat /\ pulled \in 0..n /\ pulled \in Nat /\ body \in Seq(Int)
        /\ place \in {"start", "items", "element", "end", "error", "refused"}
        /\ port \in {"python", "go"}
    BY DEF BodyInv
  <2>2. CASE UNCHANGED <<request, place, pulled, body>>
             /\ (conn' = "ended" /\ ~gone' => conn = "ended" /\ ~gone)
    <3>1. Upto(pulled)' = Upto(pulled) /\ Upto(pulled - 1)' = Upto(pulled - 1)
          /\ Wire' = Wire
      BY <2>2, SameRequest DEF Upto, Opened, Elements, Framed, request
    <3>2. EndedMeansWhole'
      BY <2>2, <3>1 DEF EndedMeansWhole, BodyInv, request
    <3>. QED
      BY <2>2, <3>1, <3>2 DEF BodyInv, request
  <2>3. CASE Ask \/ GiveUp \/ Leave \/ UNCHANGED vars
    BY <2>2, <2>3 DEF Ask, GiveUp, Leave, vars, client
  <2>4. CASE Begin
    <3>1. /\ place = "start" /\ pulled = 0 /\ body = <<>> /\ conn = "open"
          /\ pulled' = pulled /\ UNCHANGED <<request, conn, client>>
      BY <2>4 DEF Begin, Runs, BodyInv
    <3>2. Upto(0) = Opened
      BY UptoGrows
    <3>3. CASE Framed
      <4>1. Emit(Opening, "items") /\ Opening \in Int
        BY <2>4, <3>3 DEF Begin, Opening
      <4>2. Append(<<>>, Opening) = Opened
        BY <3>3 DEF Opened
      <4>3. \/ place' = "error" /\ port' = "go" /\ body' \in Seq(Int)
            \/ place' = "items" /\ body' = Append(body, Opening) /\ body' \in Seq(Int)
        BY <3>1, <4>1, EmitGrows
      <4>. QED
        BY <2>1, <3>1, <3>2, <4>2, <4>3, BodyKeeps DEF request
    <3>4. CASE ~Framed
      <4>1. place' = "items" /\ body' = body
        BY <2>4, <3>4 DEF Begin
      <4>2. Opened = <<>>
        BY <3>4 DEF Opened
      <4>. QED
        BY <2>1, <3>1, <3>2, <4>1, <4>2, BodyKeeps
    <3>. QED
      BY <3>3, <3>4
  <2>5. CASE UnknownFormat \/ SourceFails
    <3>1. UNCHANGED <<request, pulled, body, client>> /\ conn = "open"
      BY <2>5 DEF UnknownFormat, SourceFails, Runs
    <3>2. \/ place' = place /\ conn' = "broken"
          \/ place' \in {"refused", "error"} /\ conn' = conn /\ port = "go"
      BY <2>1, <2>5 DEF UnknownFormat, SourceFails, Fail
    <3>3. CASE place' = place /\ conn' = "broken"
      BY <2>2, <3>1, <3>3
    <3>4. CASE place' \in {"refused", "error"} /\ conn' = conn /\ port = "go"
      BY <2>1, <3>1, <3>4, BodyKeeps
    <3>. QED
      BY <3>2, <3>3, <3>4
  <2>6. CASE PullItem
    <3>1. /\ place = "items" /\ pulled < n /\ body = Upto(pulled) /\ conn = "open"
          /\ pulled' = pulled + 1 /\ UNCHANGED <<request, conn, client>>
      BY <2>6 DEF PullItem, Runs, BodyInv
    <3>2. pulled' \in 0..n /\ pulled' > 0 /\ pulled' - 1 = pulled
          /\ (pulled' > 1 <=> pulled > 0)
      BY <2>1, <3>1
    <3>3. CASE fmt = "json" /\ pulled > 0
      <4>1. Emit(Comma, "element") /\ Comma \in Int
        BY <2>6, <3>3 DEF PullItem, Comma
      <4>2. \/ place' = "error" /\ port' = "go" /\ body' \in Seq(Int)
            \/ /\ place' = "element" /\ body' = Append(body, Comma)
               /\ body' \in Seq(Int)
        BY <3>1, <4>1, EmitGrows
      <4>. QED
        BY <3>1, <3>2, <3>3, <4>2, BodyKeeps DEF request
    <3>4. CASE ~(fmt = "json" /\ pulled > 0)
      <4>1. place' = "element" /\ body' = body
        BY <2>6, <3>4 DEF PullItem
      <4>. QED
        BY <2>1, <3>1, <3>2, <3>4, <4>1, BodyKeeps
    <3>. QED
      BY <3>3, <3>4
  <2>7. CASE Element
    <3>1. /\ place = "element" /\ pulled > 0 /\ conn = "open"
          /\ Emit(pulled, "items") /\ pulled \in Int
          /\ pulled' = pulled /\ UNCHANGED <<request, conn, client>>
          /\ body = IF fmt = "json" /\ pulled > 1
                      THEN Append(Upto(pulled - 1), Comma) ELSE Upto(pulled - 1)
      BY <2>7 DEF Element, Runs, BodyInv
    <3>2. Append(body, pulled) = Upto(pulled)
      <4>. DEFINE k == pulled - 1
      <4>1. k \in Nat /\ k + 1 = pulled /\ (k > 0 <=> pulled > 1)
        BY <2>1, <3>1
      <4>2. Upto(k + 1) = Append(IF fmt = "json" /\ k > 0
                                   THEN Append(Upto(k), Comma) ELSE Upto(k), k + 1)
        BY <4>1, UptoGrows
      <4>. QED
        BY <3>1, <4>1, <4>2
    <3>3. \/ place' = "error" /\ port' = "go" /\ body' \in Seq(Int)
          \/ /\ place' = "items" /\ body' = Append(body, pulled)
             /\ body' \in Seq(Int)
      BY <3>1, EmitGrows
    <3>. QED
      BY <2>1, <3>1, <3>2, <3>3, BodyKeeps DEF request
  <2>8. CASE EncodeFails
    <3>1. UNCHANGED <<request, pulled, client>> /\ conn = "open" /\ Fail
      BY <2>8 DEF EncodeFails, Runs
    <3>2. body' \in Seq(Int) /\ (body' = body \/ port = "go")
      <4>1. Append(body, Piece) \in Seq(Int)
        BY <2>1, AppendProperties DEF Piece
      <4>. QED
        BY <2>1, <2>8, <4>1 DEF EncodeFails
    <3>3. CASE port = "python"
      BY <2>2, <3>1, <3>2, <3>3 DEF Fail
    <3>4. CASE port = "go"
      <4>1. place' = "error" /\ conn' = conn
        BY <3>1, <3>4 DEF Fail
      <4>. QED
        BY <2>1, <3>1, <3>2, <3>4, <4>1, BodyKeeps
    <3>. QED
      BY <2>1, <3>3, <3>4
  <2>9. CASE ItemsEnd
    <3>1. /\ place = "items" /\ pulled = n /\ body = Upto(n) /\ conn = "open"
          /\ pulled' = pulled /\ UNCHANGED <<request, conn, client>>
      BY <2>9 DEF ItemsEnd, Runs, BodyInv
    <3>2. Wire = IF Framed THEN Append(Upto(n), Closing) ELSE Upto(n)
      BY <2>1, WireIsUpto
    <3>3. CASE Framed
      <4>1. Emit(Closing, "end") /\ Closing \in Int
        BY <2>9, <3>3 DEF ItemsEnd, Closing
      <4>2. \/ place' = "error" /\ port' = "go" /\ body' \in Seq(Int)
            \/ place' = "end" /\ body' = Append(body, Closing) /\ body' \in Seq(Int)
        BY <3>1, <4>1, EmitGrows
      <4>. QED
        BY <2>1, <3>1, <3>2, <3>3, <4>2, BodyKeeps DEF request
    <3>4. CASE ~Framed
      <4>1. place' = "end" /\ body' = body
        BY <2>9, <3>4 DEF ItemsEnd
      <4>. QED
        BY <2>1, <3>1, <3>2, <3>4, <4>1, BodyKeeps
    <3>. QED
      BY <3>3, <3>4
  <2>10. CASE Finish
    <3>1. /\ place = "end" /\ body = Wire
          /\ UNCHANGED <<request, place, pulled, body, client>>
      BY <2>10 DEF Finish, BodyInv
    <3>2. Wire' = Wire
      BY <3>1, SameRequest
    <3>3. EndedMeansWhole'
      BY <3>1, <3>2 DEF EndedMeansWhole
    <3>. QED
      BY <3>1, <3>2, <3>3 DEF BodyInv, request
  <2>11. CASE HandleError
    <3>1. /\ place \in {"error", "refused"} /\ port = "go"
          /\ UNCHANGED <<request, place, pulled, client>>
          /\ body' = IF gone THEN body ELSE Append(body, ErrorText)
      BY <2>11 DEF HandleError, BodyInv
    <3>2. /\ Append(body, ErrorText) \in Seq(Int)
          /\ Last(Append(body, ErrorText)) = ErrorText
      BY <2>1, AppendProperties DEF Last, ErrorText
    <3>3. EndedMeansWhole'
      BY <3>1, <3>2 DEF EndedMeansWhole, request, client
    <3>4. body' \in Seq(Int)
      BY <2>1, <3>1, <3>2
    <3>. QED
      BY <3>1, <3>3, <3>4 DEF BodyInv, request
  <2>. QED
    BY <2>3, <2>4, <2>5, <2>6, <2>7, <2>8, <2>9, <2>10, <2>11 DEF Next, Serve
<1>. QED
  BY <1>1, <1>2, PTL DEF Spec

\* A response that ends normally, of a client that is still there, is the whole
\* collection or says that it is not.
THEOREM EndIsWhole == Spec => []EndedMeansWhole
<1>1. BodyInv => EndedMeansWhole
  BY DEF BodyInv
<1>. QED
  BY <1>1, BodyIsPlaced, PTL
=============================================================================
