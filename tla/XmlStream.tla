------------------------------ MODULE XmlStream ------------------------------
(***************************************************************************)
(* The typed XML of Python, Node, Rust and Go: an encoder, a cut of what   *)
(* it wrote, and a decoder.  Node and Rust look for the text of one item   *)
(* in what they have read; Python and Go follow the tags their platform's  *)
(* parser reports (expat under iterparse, encoding/xml).                   *)
(*                                                                         *)
(* A value is a record whose field t is its type: "object" (fields, a      *)
(* function from keys to values), "array" (items), or a scalar with its    *)
(* text, a sequence of characters.  Characters are words: "lt", "quote",   *)
(* "apos", "nl", "cr", "tab", "backslash" stand for themselves,            *)
(* "unprintable" for one that XML allows and Go's %q does not print,       *)
(* "illegal" for one that no XML document may hold (U+0000 to U+001F but   *)
(* for the three above, U+FFFE, U+FFFF).  A number is one word: "past53"   *)
(* is an integer that no double holds, "past63" one that no int64 holds,   *)
(* "infinite" and "nan" are the floats that are not finite.                *)
(***************************************************************************)
EXTENDS Integers, SequencesExt

CONSTANTS
    Encoders, Decoders, \* the ports that may run
    Values, MaxNodes,   \* the values, and every value inside one; how many
                        \* tags one takes, at most
    Streams,            \* the collections they stream
    ChunkSize           \* the most symbols one read returns

VARIABLES
    enc, items,         \* the port that encodes, and what it streams
    wire, input,        \* what it writes, and how much of it arrives
    dec, dpc,           \* the port that decodes, and where it is
    read, buf,          \* symbols read; the text Node and Rust hold
    depth, mark,        \* open tags, and where the current item began
    tree,               \* the children iterparse has hung on the root
    taken, outcome,     \* texts of the items handed over, and how the
                        \* iteration ended
    arrived, whole      \* items that arrive readable, and whether the
                        \* iteration may end normally after them

sentVars == <<enc, items, wire, input, dec, arrived, whole>>
scanVars == <<read, buf>>
tagVars  == <<depth, mark, tree>>
vars     == <<sentVars, dpc, scanVars, tagVars, taken, outcome>>

Scanners == {"node", "rust"}

ASSUME XmlAssumption ==
    /\ Encoders \subseteq {"python", "node", "rust", "go"}
    /\ Decoders \subseteq {"python", "node", "rust", "go"}
    /\ Streams \subseteq Seq(Values)
    /\ MaxNodes \in Nat /\ ChunkSize \in Nat \ {0}

-----------------------------------------------------------------------------
(***************************************************************************)
(* The wire: names of tags, the start of an attribute with its opening     *)
(* quote, and characters as they are, as an entity or by their number.     *)
(* "<items" begins like "<item": the s that tells them apart is a symbol.  *)
(***************************************************************************)
Sym(c, v)   == [c |-> c, v |-> v]
Open(tag)   == Sym("open", tag)
Close(tag)  == Sym("close", tag)
Attr(name)  == Sym("attr", name)
Raw(char)   == Sym("raw", char)
Entity(ch)  == Sym("entity", ch)
Number(ch)  == Sym("number", ch)
Gt          == Sym("gt", "")
Slash       == Sym("slash", "")
Prolog      == Sym("prolog", "")
Plural      == Sym("plural", "")
Quote       == Raw("quote")

EscapeText(text) ==
    [i \in DOMAIN text |-> IF text[i] \in {"lt", "gt", "amp"}
                             THEN Entity(text[i]) ELSE Raw(text[i])]

\* Fault: the quote is left to the caller in Node, Rust and Go as well.
EscapeAttrNoQuote(port, key) == EscapeText(key)

\* The key of a field.  Python takes what quoteattr puts between its quotes,
\* and quoteattr changes to single quotes rather than escape a double one,
\* unless the key holds both.  Go quotes the key as a literal of its own, %q,
\* with a backslash before all that it does not print and before backslashes.
EscapeAttr(port, key) ==
    LET both == {"quote", "apos"} \subseteq Range(key)
        Char(c) ==
            CASE c \in {"lt", "gt", "amp"} -> Entity(c)
              [] c = "quote" -> IF port = "python" /\ ~both THEN Raw(c) ELSE Entity(c)
              [] port = "python" /\ c \in {"nl", "cr", "tab"} -> Number(c)
              [] port = "go" /\ c \in {"nl", "cr", "tab", "backslash", "unprintable",
                                      "illegal"} -> Raw("escaped")
              [] OTHER -> Raw(c)
    IN  [i \in DOMAIN key |-> Char(key[i])]

TypeAttr(t) == <<Attr("type"), Raw(t), Quote>>
KeyAttr(port, key) ==
    IF port = "go" /\ key = <<>> THEN <<>>
    ELSE <<Attr("k")>> \o EscapeAttr(port, key) \o <<Quote>>

Attributes(port, t, keyAttr) ==
    IF port \in {"rust", "go"} THEN keyAttr \o TypeAttr(t)
                               ELSE TypeAttr(t) \o keyAttr

-----------------------------------------------------------------------------
(***************************************************************************)
(* What write_value writes, tag by tag.  The stack of its recursion        *)
(* appears as the elements that are open, the innermost last, each with    *)
(* its children yet to be written; at the bottom is the root.              *)
(***************************************************************************)
\* A value under its tag, and the end of an element.
Node(tag, key, v) == [tag |-> tag, key |-> key, v |-> v]
Closing(tag)      == Node(tag, <<>>, [t |-> "end"])

Opening(port, n) ==
    <<Open(n.tag)>>
        \o Attributes(port, n.v.t, IF n.tag = "f" THEN KeyAttr(port, n.key) ELSE <<>>)

\* Infinity has a name in Node of its own.
Spelling(port, v) ==
    IF v.t = "float" /\ v.text = <<"infinite">>
      THEN IF port = "node" THEN <<"Infinity">> ELSE <<"inf">>
      ELSE v.text

\* What is written for a node before its children.
WriteValue(port, n) ==
    CASE n.v.t = "end"  -> <<Close(n.tag), Gt>>
      [] n.v.t = "null" -> Opening(port, n) \o <<Slash, Gt>>
      [] n.v.t \in {"object", "array"} -> Opening(port, n) \o <<Gt>>
      [] OTHER -> Opening(port, n) \o <<Gt>> \o EscapeText(Spelling(port, n.v))

Children(v) ==
    CASE v.t = "object" ->
           LET keys == SetToSeq(DOMAIN v.fields)
           IN  [i \in DOMAIN keys |-> Node("f", keys[i], v.fields[keys[i]])]
      [] v.t = "array" -> [i \in DOMAIN v.items |-> Node("e", <<>>, v.items[i])]
      [] OTHER -> <<>>

\* One step: the next child of the innermost element, or its end.
Visit(w) ==
    LET top  == Len(w.open)
        due  == w.open[top].due
        next == Head(due)
        rest == [w.open EXCEPT ![top].due = Tail(due)]
    IN  IF due # <<>>
          THEN [done |-> Append(w.done, next),
                open |-> IF next.v.t = "null" THEN rest
                         ELSE Append(rest, [tag |-> next.tag, due |-> Children(next.v)])]
        ELSE IF top > 1
          THEN [done |-> Append(w.done, Closing(w.open[top].tag)), open |-> Front(w.open)]
        ELSE w

Walk(v) ==
    LET walk[i \in 0..MaxNodes] ==
            IF i = 0
              THEN [done |-> <<>>,
                    open |-> <<[tag |-> "items", due |-> <<Node("item", <<>>, v)>>]>>]
              ELSE LET w == walk[i - 1] IN Visit(w)
    IN  walk
Nodes(v) == Walk(v)[MaxNodes].done

\* What an application streams.
Streamable(v) ==
    CASE v.t = "null"   -> TRUE
      [] v.t = "object" -> /\ IsFiniteSet(DOMAIN v.fields)
                           /\ v.fields \in [DOMAIN v.fields -> Values]
                           /\ DOMAIN v.fields \subseteq Seq(STRING)
      [] v.t = "array"  -> v.items \in Seq(Values)
      [] v.t \in {"bool", "int", "float", "str"} -> v.text \in Seq(STRING)
      [] OTHER -> FALSE

ASSUME ValuesAssumption ==
    \A v \in Values :
        /\ Streamable(v)
        /\ LET open == Walk(v)[MaxNodes].open IN Len(open) = 1 /\ open[1].due = <<>>

Item(v) == LET nodes == Nodes(v)
           IN  FlattenSeq([j \in DOMAIN nodes |-> WriteValue(enc, nodes[j])])
RootStart == <<Prolog, Open("item"), Plural, Gt>>
RootEnd   == <<Close("item"), Plural, Gt>>
Written   == RootStart \o FlattenSeq([i \in DOMAIN items |-> Item(items[i])]) \o RootEnd

Truncated == Len(input) < Len(wire)

-----------------------------------------------------------------------------
(***************************************************************************)
(* What a decoder makes of the text of an element.                         *)
(***************************************************************************)
\* The first of some positions, 0 if there is none.
First(S) == IF S = {} THEN 0 ELSE Min(S)

\* The platform's parsers resolve every reference and normalise line ends,
\* and expat turns line ends and tabs in attributes into spaces; Node and Rust
\* know four entities and leave everything else.
Seen(port, inAttr, s) ==
    CASE s.c = "number" -> IF port \in Scanners THEN "reference" ELSE s.v
      [] s = Raw("cr") /\ port \notin Scanners ->
           IF inAttr /\ port = "python" THEN "space" ELSE "nl"
      [] s \in {Raw("nl"), Raw("tab")} /\ port = "python" /\ inAttr -> "space"
      [] OTHER -> s.v
Unescape(port, inAttr, text) ==
    [i \in DOMAIN text |-> Seen(port, inAttr, text[i])]

\* An attribute extends to the next quote.
AttrOf(head, name) ==
    LET i == First({k \in DOMAIN head : head[k] = Attr(name)})
        j == First({k \in i + 1..Len(head) : head[k] = Quote})
    IN  IF i = 0 THEN <<>> ELSE SubSeq(head, i + 1, j - 1)

\* A field without its key.
NoKey(port) == IF port \in {"rust", "go"} THEN <<>> ELSE <<"none">>
KeyOf(port, head) ==
    IF Attr("k") \in Range(head) THEN Unescape(port, TRUE, AttrOf(head, "k"))
                                 ELSE NoKey(port)

\* An integer past a double (Node) or an int64 (Go, Rust) is another one, null in
\* Rust, whose floats are finite; parseFloat knows Node's name of infinity only.
Scalar(port, t, text) ==
    LET infinity == t = "float" /\ text \in {<<"inf">>, <<"Infinity">>}
        past     == t = "int" /\ text \in (CASE port = "node"   -> {<<"past53">>, <<"past63">>}
                                             [] port = "python" -> {}
                                             [] OTHER           -> {<<"past63">>})
        none     == infinity \/ past \/ (t = "float" /\ text = <<"nan">>)
    IN  IF port = "rust" /\ none THEN [t |-> "null", text |-> <<>>]
        ELSE [t |-> t, text |-> IF past THEN <<"other">>
                                ELSE IF ~infinity THEN text
                                ELSE IF port = "node" /\ text = <<"inf">> THEN <<"nan">>
                                ELSE <<"infinite">>]

\* The value of an element of type t whose tag ends at gt, and where its text
\* ends; inner is what stands behind the tag, side by side.
ParseElement(port, s, gt, t, inner) ==
    LET kids == inner.children
        lt   == First({j \in gt..Len(s) : s[j].c \in {"open", "close"}})
    IN  CASE s[gt - 1] = Slash ->
               [value |-> [t |-> "null", text |-> <<>>], next |-> gt + 1]
          [] t = "object" ->
               [value |-> [t |-> t,
                           fields |-> FoldLeft(LAMBDA f, c : (c.key :> c.value) @@ f,
                                               <<>>, kids)],
                next |-> inner.next + 2]
          [] t = "array" ->
               [value |-> [t |-> t, items |-> [n \in DOMAIN kids |-> kids[n].value]],
                next |-> inner.next + 2]
          [] OTHER ->
               [value |-> Scalar(port, t, Unescape(port, FALSE, SubSeq(s, gt + 1, lt - 1))),
                next |-> lt + 2]

\* The elements that stand side by side in s, their keys and values.
Parsed(port, s) ==
    LET side[i \in 1..Len(s) + 1] ==
        IF i > Len(s) \/ s[i].c # "open" THEN [children |-> <<>>, next |-> i]
        ELSE LET gt    == First({j \in i..Len(s) : s[j] = Gt})
                 head  == SubSeq(s, i, gt - 1)
                 type  == AttrOf(head, "type")
                 child == ParseElement(port, s, gt, IF type = <<>> THEN "str" ELSE type[1].v,
                                       side[gt + 1])
                 rest  == side[child.next]
             IN  [children |-> <<[key |-> KeyOf(port, head), value |-> child.value]>>
                                   \o rest.children,
                  next |-> rest.next]
    IN  side[1].children

\* What the caller has been handed: each item's text, parsed.
Accept(text) == taken' = Append(taken, text)
Yielded == [i \in DOMAIN taken |-> Parsed(dec, taken[i])[1].value]

Stop(v) == outcome' = v /\ dpc' = "done"

-----------------------------------------------------------------------------
(***************************************************************************)
(* What arrives.  Node and Rust may end normally wherever the input does,  *)
(* the others on the closed root only.                                     *)
(***************************************************************************)
\* Everything in a value that some pair of ports changes or cannot carry: its
\* keys, the characters of its texts, its integers.
Begun(v) == {n \in Range(Nodes(v)) : n.v.t # "end"}
Parts(v) ==
    {<<"key", n.key>> : n \in {n \in Begun(v) : n.tag = "f"}}
        \cup UNION {{<<n.v.t, <<c>>>> : c \in Range(n.v.text)} :
                       n \in {n \in Begun(v) : n.v.t \notin {"null", "object", "array"}}}

\* What an application can hold: a number of Node's is a double, one of
\* serde_json's is finite.
Unheld(port) == CASE port = "node" -> {<<"int", <<"past53">>>>, <<"int", <<"past63">>>>}
                  [] port = "rust" -> {<<"float", <<"infinite">>>>, <<"float", <<"nan">>>>}
                  [] OTHER         -> {}
CanStream(port, v) == Parts(v) \cap Unheld(port) = {}

\* A key with a double quote and no single one, written by Python.
Unquoted(k) == enc = "python" /\ "quote" \in Range(k) /\ "apos" \notin Range(k)

\* A character that XML forbids, which only Go's %q keeps from the wire.
Foul(k) == enc # "go" /\ "illegal" \in Range(k)

IsScalar(v) == v.t \in {"bool", "int", "float", "str"}

\* What expat and encoding/xml refuse.
Malformed(v) ==
    \E n \in Begun(v) :
        \/ n.tag = "f" /\ (Unquoted(n.key) \/ Foul(n.key))
        \/ IsScalar(n.v) /\ "illegal" \in Range(n.v.text)

Readable(n) == dec \in Scanners \/ \A i \in 1..n : ~Malformed(items[i])
Extent(n)   == Len(RootStart) + Len(FlattenSeq([i \in 1..n |-> Item(items[i])]))
Arrived(n)  == Extent(n) <= Len(input) /\ Readable(n)

-----------------------------------------------------------------------------
Init ==
    /\ enc \in Encoders /\ items \in Streams
    /\ \A i \in DOMAIN items : CanStream(enc, items[i])
    /\ wire = Written
    /\ \E cut \in 0..Len(wire) : input = SubSeq(wire, 1, cut)
    /\ dec \in Decoders /\ dpc = "read"
    /\ arrived = Max({0} \cup {n \in DOMAIN items : Arrived(n)})
    /\ whole = (dec \in Scanners \/ (~Truncated /\ Readable(Len(items))))
    /\ read = 0 /\ buf = <<>>
    /\ depth = 0 /\ mark = 0 /\ tree = <<>>
    /\ taken = <<>> /\ outcome = "none"

AtEnd == read = Len(input)

-----------------------------------------------------------------------------
(***************************************************************************)
(* Node and Rust: the first complete item in the text held.                *)
(***************************************************************************)
\* Fault: the root's tag begins like an item's.
StartsItemByPrefix(s, i) == s[i] = Open("item")

StartsItem(s, i) ==
    s[i] = Open("item") /\ i < Len(s) /\ s[i + 1].c \in {"attr", "gt", "slash"}

ClosesItem(s, i) == s[i] = Gt /\ s[i - 1] = Close("item")

\* Fault: every item is taken to have a closing tag.
ItemEndNoSelfClose(s, start) ==
    First({i \in start + 1..Len(s) : ClosesItem(s, i)})

\* Where the item that starts there ends: with its tag, or with "</item>".
ItemEnd(s, start) ==
    LET gt == First({i \in start..Len(s) : s[i] = Gt})
    IN  IF gt = 0 THEN 0
        ELSE IF s[gt - 1] = Slash THEN gt
        ELSE First({i \in gt + 1..Len(s) : ClosesItem(s, i)})

\* The first item in the text held, when all of it is there.
ItemStarts == {i \in DOMAIN buf : StartsItem(buf, i)}
Spans == {<<i, ItemEnd(buf, i)>> : i \in {i \in ItemStarts : \A j \in ItemStarts : i <= j}}
Waiting  == \E span \in Spans : span[2] > 0
Scanning == dec \in Scanners /\ dpc = "read"

\* Fault: the next read is taken while an item waits.
RefillEager ==
    /\ Scanning
    /\ \E n \in 1..ChunkSize :
          /\ read + n <= Len(input)
          /\ read' = read + n
          /\ buf' = buf \o SubSeq(input, read + 1, read + n)
    /\ UNCHANGED <<sentVars, dpc, tagVars, taken, outcome>>

Refill ==
    /\ Scanning /\ ~Waiting
    /\ \E n \in 1..ChunkSize :
          /\ read + n <= Len(input)
          /\ read' = read + n
          /\ buf' = buf \o SubSeq(input, read + 1, read + n)
    /\ UNCHANGED <<sentVars, dpc, tagVars, taken, outcome>>

TakeItem ==
    /\ Scanning
    /\ \E span \in Spans :
          /\ span[2] > 0
          /\ Accept(SubSeq(buf, span[1], span[2]))
          /\ buf' = SubSeq(buf, span[2] + 1, Len(buf))
    /\ UNCHANGED <<sentVars, dpc, read, tagVars, outcome>>

\* Fault: the items held at the end of the stream are forgotten.
ScanEndsEager ==
    /\ Scanning /\ AtEnd
    /\ Stop("complete")
    /\ UNCHANGED <<sentVars, scanVars, tagVars, taken>>

\* Whatever is left, the end of the stream is the end of the collection.
ScanEnds ==
    /\ Scanning /\ ~Waiting /\ AtEnd
    /\ Stop("complete")
    /\ UNCHANGED <<sentVars, scanVars, tagVars, taken>>

-----------------------------------------------------------------------------
(***************************************************************************)
(* Python and Go: the next tag of the input.                               *)
(***************************************************************************)
Parsing  == dec \notin Scanners /\ dpc = "read"
TagStart == First({i \in read + 1..Len(input) : input[i].c \in {"open", "close"}})
TagEnd   == First({i \in read + 1..Len(input) : input[i] = Gt})
Tag      == SubSeq(input, TagStart, TagEnd)
Opens    == TagEnd > 0 /\ Tag[1].c = "open"
Closes   == TagEnd > 0 /\ Tag[1].c = "close"
IsEmpty  == Tag[Len(Tag) - 1] = Slash

\* Behind the quote that ends an attribute comes another one or the tag's end.
WellFormed(tag) ==
    \A i \in 1..Len(tag) - 1 :
        tag[i] = Quote => tag[i + 1].c \in {"attr", "slash", "gt"}

\* No character up to the tag's end, of the text before it or of its own, is
\* one that XML forbids.
Legal == \A i \in read + 1..TagEnd : input[i] # Raw("illegal")

\* An item is whole: Python's iteration hands it over and has yet to clear
\* it, Go calls its caller's function, which may stop.
Deliver(text) ==
    /\ Accept(text)
    /\ IF dec = "python" THEN dpc' = "yielded" /\ UNCHANGED outcome
       ELSE \/ UNCHANGED <<dpc, outcome>>
            \/ Stop("stopped")

Hang == IF dec = "python" THEN Append(tree, "whole") ELSE tree

StartTag ==
    /\ Parsing /\ Opens /\ WellFormed(Tag) /\ Legal
    /\ read' = TagEnd
    /\ depth' = IF IsEmpty THEN depth ELSE depth + 1
    /\ IF depth = 1 THEN tree' = Hang /\ mark' = TagStart
                    ELSE UNCHANGED <<tree, mark>>
    /\ IF depth = 1 /\ IsEmpty THEN Deliver(Tag)
                               ELSE UNCHANGED <<dpc, taken, outcome>>
    /\ UNCHANGED <<sentVars, buf>>

EndTag ==
    /\ Parsing /\ Closes /\ Legal
    /\ read' = TagEnd
    /\ depth' = depth - 1
    /\ IF depth' = 1 THEN Deliver(SubSeq(input, mark, TagEnd))
                     ELSE UNCHANGED <<dpc, taken, outcome>>
    /\ UNCHANGED <<sentVars, buf, mark, tree>>

\* elem.clear() empties the element and leaves it where it hangs.
Clear ==
    /\ dpc = "yielded"
    /\ tree' = [tree EXCEPT ![Len(tree)] = "cleared"]
    /\ dpc' = "read"
    /\ UNCHANGED <<sentVars, scanVars, depth, mark, taken, outcome>>

\* The elements before it have been handed over.
BadTag ==
    /\ Parsing /\ TagEnd > 0
    /\ ~Legal \/ (Opens /\ ~WellFormed(Tag))
    /\ Stop("malformed")
    /\ UNCHANGED <<sentVars, scanVars, tagVars, taken>>

\* What is malformed in a tag that is cut, or before it, counts as the cut.
InputEnds ==
    /\ Parsing /\ TagEnd = 0
    /\ Stop(IF depth = 0 /\ read > 0 THEN "complete" ELSE "truncated")
    /\ UNCHANGED <<sentVars, scanVars, tagVars, taken>>

-----------------------------------------------------------------------------
Next ==
    \/ Refill \/ TakeItem \/ ScanEnds
    \/ StartTag \/ EndTag \/ Clear \/ BadTag \/ InputEnds

\* The decoder's caller goes on asking for elements, and reads return.
Spec == Init /\ [][Next]_vars /\ WF_vars(Next)

-----------------------------------------------------------------------------
\* The type invariant.
TypeOK ==
    /\ enc \in Encoders /\ dec \in Decoders
    /\ dpc \in {"read", "yielded", "done"}
    /\ read \in 0..Len(input) /\ depth \in Nat /\ mark \in 0..Len(input)
    /\ tree \in Seq({"whole", "cleared"})
    /\ outcome \in {"none", "complete", "truncated", "malformed", "stopped"}
    /\ outcome = "none" <=> dpc # "done"

KeySurvives(k) ==
    /\ ~Unquoted(k)
    /\ k = <<>> => enc # "go" \/ dec \in {"rust", "go"}
    /\ Range(k) \cap {"nl", "tab"} # {} => CASE enc = "python" -> dec \notin Scanners
                                             [] enc = "go"     -> FALSE
                                             [] OTHER          -> dec # "python"
    /\ "cr" \in Range(k) => CASE enc = "python" -> dec \notin Scanners
                              [] enc = "go"     -> FALSE
                              [] OTHER          -> dec \in Scanners
    /\ Range(k) \cap {"backslash", "unprintable", "illegal"} # {} => enc # "go"
PartSurvives(part) ==
    CASE part[1] = "key"          -> KeySurvives(part[2])
      [] part[2] = <<"cr">>       -> dec \in Scanners
      [] part[2] = <<"past53">>   -> dec # "node"
      [] part[2] = <<"past63">>   -> dec = "python"
      [] part[2] = <<"infinite">> -> dec # "rust" /\ (dec = "node" => enc = "node")
      [] part[2] = <<"nan">>      -> dec # "rust"
      [] OTHER                    -> TRUE
Survives(v) == \A part \in Parts(v) : PartSurvives(part)

\* What is handed over is what was streamed, in order, whatever the reads,
\* the cut and the two ports; only keys, carriage returns and numbers that
\* PartSurvives excludes come out as others.
Faithful ==
    /\ Len(taken) <= Len(items)
    /\ \A i \in DOMAIN taken : Survives(items[i]) => Yielded[i] = items[i]

\* A document that arrives whole yields all its items, in Python and Go up to
\* the first that is malformed.
IntactDecodes ==
    ~Truncated /\ outcome \in {"complete", "malformed", "truncated"} =>
        \/ outcome = "complete" /\ Len(taken) = Len(items)
        \/ outcome = "malformed" /\ \E i \in DOMAIN items : Malformed(items[i])

\* Node and Rust hold one item, the root's tag, and one read.
Longest == Max({Len(RootEnd)} \cup {Len(Item(items[i])) : i \in DOMAIN items})
BufferBounded == Len(buf) < Len(RootStart) + Longest + ChunkSize

\* The abstract promise.
Delivery == INSTANCE ArrayDelivery WITH
    handed  <- Len(taken),
    verdict <- IF outcome \in {"truncated", "malformed"} THEN "failed" ELSE outcome

\* All that arrived is handed over before the iteration ends, and it ends.
DeliverySpec == Delivery!Spec

\* The documents: round-tripping returns exactly the same object; the end of
\* the stream is the clean end, the root closed; what iterparse has built is
\* cleared, so that it stays with the largest element.
RoundTrips   == ~Truncated /\ outcome \in {"complete", "malformed"} => Yielded = items
CleanEnd     == outcome = "complete" => ~Truncated
TreeBounded  == Len(tree) <= 1
=============================================================================
