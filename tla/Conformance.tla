---------------------------- MODULE Conformance ----------------------------
(***************************************************************************)
(* The conformance suite: each language's runner tries every case of the   *)
(* corpus in every format and leaves a file of results, and the aggregator *)
(* makes RESULTS.md of the files it finds.  A runner that does not get to  *)
(* its end leaves the file of an earlier run, or none; meanwhile cases are *)
(* added to the corpus and taken out of it.                                *)
(*                                                                         *)
(* A result is the bytes a port wrote, when what it read back equals what  *)
(* it was given, or "fails", when it does not or something was raised.     *)
(***************************************************************************)
EXTENDS Integers, FiniteSets

CONSTANTS
    Languages,  \* the ports that have a runner
    Cases,      \* the cases that the corpus may hold
    Identical,  \* those whose tier is "identical"
    Formats,    \* the formats
    Bytes       \* the encodings of one case that ports may produce

VARIABLES
    corpus,     \* the cases of corpus.json
    reporting,  \* the languages that have a file of results
    file,       \* what it holds, a function on the cases the runner knew
    report,     \* the claims of RESULTS.md
    current     \* whether they are made of the files and the corpus there are

vars == <<corpus, reporting, file, report, current>>

Canonical == {"msgpack", "cbor"}

ASSUME ConformanceAssumption ==
    /\ Identical \subseteq Cases
    /\ Formats \subseteq {"json", "xml", "msgpack", "cbor"}
    /\ IsFiniteSet(Cases) /\ IsFiniteSet(Languages)
    /\ {"none", "fails"} \cap Bytes = {}

-----------------------------------------------------------------------------
Results == Bytes \cup {"fails"}

\* What the files hold for a case, "none" if the runner did not know it.
Result(l, c, f) == IF c \in DOMAIN file[l] THEN file[l][c][f] ELSE "none"

\* A cell of the round-trip matrix.
Cell(l, c, f) ==
    CASE Result(l, c, f) = "none"  -> "blank"
      [] Result(l, c, f) = "fails" -> "fails"
      [] OTHER                     -> "trips"

\* The different bytes of a case, in the languages in which it round-trips.
Shared(c, f) == {Result(l, c, f) : l \in reporting} \ {"none", "fails"}

\* Fault: the tier is not looked at.
CountedAll(f) == {c \in corpus : Shared(c, f) # {}}

\* Byte-identity: the cases counted, and those whose bytes are the same.
Counted(f) == {c \in corpus \cap Identical : Shared(c, f) # {}}

\* Fault: the bytes of one language stand for those of all.
AgreeingAny(f) == {c \in Counted(f) : Cardinality(Shared(c, f)) >= 1}

Agreeing(f) == {c \in Counted(f) : Cardinality(Shared(c, f)) = 1}

\* All of a file counts, also a case that the corpus no longer has.
AllTrip ==
    \A l \in reporting : \A c \in DOMAIN file[l] : \A f \in Formats :
        file[l][c][f] # "fails"

\* The summary.  Of the text formats it says that they round-trip everywhere,
\* as long as some case counts.
Claims == [
    allTrip   |-> AllTrip,
    identical |-> {f \in Formats \cap Canonical :
                      Counted(f) # {} /\ Agreeing(f) = Counted(f)},
    trips     |-> {f \in Formats \ Canonical : Counted(f) # {}}]

\* No claim is made before the first report.
Silent == [allTrip |-> FALSE, identical |-> {}, trips |-> {}]

-----------------------------------------------------------------------------
Init ==
    /\ corpus = Cases \cap Identical
    /\ reporting = {} /\ file = [l \in Languages |-> <<>>]
    /\ report = Silent /\ current = FALSE

\* A runner has tried every case; what came out is whatever its port does.
Run(l) ==
    /\ \E results \in [corpus -> [Formats -> Results]] :
          file' = [file EXCEPT ![l] = results]
    /\ reporting' = reporting \cup {l}
    /\ current' = FALSE
    /\ UNCHANGED <<corpus, report>>

\* A case is added to the corpus.
Extend ==
    /\ \E c \in Cases \ corpus : corpus' = corpus \cup {c}
    /\ current' = FALSE
    /\ UNCHANGED <<reporting, file, report>>

\* A case is taken out of it, or renamed: the files keep its results.
Retire ==
    /\ \E c \in corpus : corpus' = corpus \ {c}
    /\ current' = FALSE
    /\ UNCHANGED <<reporting, file, report>>

\* Without any file there is nothing to aggregate.
Aggregate ==
    /\ reporting # {}
    /\ report' = Claims /\ current' = TRUE
    /\ UNCHANGED <<corpus, reporting, file>>

Next == (\E l \in Languages : Run(l)) \/ Extend \/ Retire \/ Aggregate

Spec == Init /\ [][Next]_vars

-----------------------------------------------------------------------------
\* The type invariant.
TypeOK ==
    /\ corpus \subseteq Cases
    /\ reporting \subseteq Languages
    /\ \A l \in Languages :
          /\ DOMAIN file[l] \subseteq Cases
          /\ \A c \in DOMAIN file[l] : file[l][c] \in [Formats -> Results]
    /\ report \in [allTrip : BOOLEAN, identical : SUBSET Formats,
                   trips : SUBSET Formats]
    /\ current => reporting # {}

\* The runners that report have all run on the corpus there is.
UpToDate == \A l \in reporting : DOMAIN file[l] = corpus

\* A failure in the matrix, and one of a case that no table has a row for.
Shown == \E l \in reporting, c \in corpus, f \in Formats : Cell(l, c, f) = "fails"
Unshown ==
    \E l \in reporting : \E c \in DOMAIN file[l] \ corpus, f \in Formats :
        file[l][c][f] = "fails"

\* The summary against the tables above it, in whatever order runners, edits of
\* the corpus and the aggregator took turns: that all cases round-trip is never
\* said over a failure in the matrix; that some fail is said without one only
\* when a file still has a failure of a case that has left the corpus; and a
\* format is not called identical when some case of the tier shows different
\* bytes.
SummaryAgrees ==
    current =>
        /\ report.allTrip => ~Shown
        /\ ~report.allTrip => Shown \/ Unshown
        /\ \A f \in report.identical, c \in corpus \cap Identical :
              Cardinality(Shared(c, f)) <= 1

\* When every runner has run on the corpus and nothing fails, the summary is
\* exact: a canonical format is claimed where every language writes the same
\* bytes for every case of the tier, and only there.
ExactWhenSound ==
    current /\ UpToDate /\ report.allTrip /\ corpus \cap Identical # {} =>
        \A f \in Formats \cap Canonical :
            f \in report.identical <=>
                \A c \in corpus \cap Identical : \A l, m \in reporting :
                    Result(l, c, f) = Result(m, c, f)

\* The claims in words: the same bytes in every reporting language, for every
\* case of the tier, and round trips everywhere.
NoOverclaiming ==
    current =>
        /\ \A f \in report.identical : \A c \in corpus \cap Identical :
              \E b \in Bytes : \A l \in reporting : Result(l, c, f) = b
        /\ \A f \in report.trips : \A c \in corpus : \A l \in reporting :
              Result(l, c, f) # "fails"

\* "some cases fail - see matrix above": there is a failure to be seen.
FailureIsShown == current /\ ~report.allTrip => Shown
=============================================================================
