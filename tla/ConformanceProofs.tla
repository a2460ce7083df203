-------------------------- MODULE ConformanceProofs --------------------------
(***************************************************************************)
(* What the conformance report says, for any number of languages, cases    *)
(* and formats, and any files of results.                                  *)
(***************************************************************************)
EXTENDS Conformance, FiniteSetTheorems, TLAPS

-----------------------------------------------------------------------------
\* What the files and a report that is current are related by.
ReportInv ==
    /\ corpus \subseteq Cases
    /\ reporting \subseteq Languages
    /\ file = [l \in Languages |-> file[l]]
    /\ \A l \in Languages :
          /\ DOMAIN file[l] \subseteq Cases
          /\ file[l] \in [DOMAIN file[l] -> [Formats -> Results]]
    /\ current => reporting # {} /\ report = Claims

-----------------------------------------------------------------------------
THEOREM ReportIsCurrent == Spec => []ReportInv
<1>1. Init => ReportInv
  <2>. SUFFICES ASSUME Init PROVE ReportInv
    OBVIOUS
  <2>1. <<>> \in [{} -> [Formats -> Results]]
    OBVIOUS
  <2>. QED
    BY <2>1 DEF Init, ReportInv
<1>2. ReportInv /\ [Next]_vars => ReportInv'
  <2>. SUFFICES ASSUME ReportInv, [Next]_vars PROVE ReportInv'
    OBVIOUS
  <2>. USE DEF ReportInv
  <2>1. ASSUME NEW l \in Languages, Run(l) PROVE ReportInv'
    <3>1. PICK results \in [corpus -> [Formats -> Results]] :
              file' = [file EXCEPT ![l] = results]
      BY <2>1 DEF Run
    <3>. QED
      BY <2>1, <3>1 DEF Run
  <2>2. CASE Extend
    BY <2>2 DEF Extend
  <2>3. CASE Retire
    BY <2>3 DEF Retire
  <2>4. CASE Aggregate
    <3>1. Claims' = Claims
      BY <2>4 DEF Aggregate, Claims, AllTrip, Agreeing, Counted, Shared, Result
    <3>. QED
      BY <2>4, <3>1 DEF Aggregate
  <2>5. CASE UNCHANGED vars
    <3>1. Claims' = Claims
      BY <2>5 DEF vars, Claims, AllTrip, Agreeing, Counted, Shared, Result
    <3>. QED
      BY <2>5, <3>1 DEF vars
  <2>. QED
    BY <2>1, <2>2, <2>3, <2>4, <2>5 DEF Next
<1>. QED
  BY <1>1, <1>2, PTL DEF Spec

-----------------------------------------------------------------------------
\* The bytes that the tables compare are finitely many.
LEMMA SharedFinite ==
    ASSUME reporting \subseteq Languages, NEW c, NEW f
    PROVE  IsFiniteSet(Shared(c, f))
<1>. DEFINE result == [l \in reporting |-> Result(l, c, f)]
            all    == {Result(l, c, f) : l \in reporting}
<1>1. IsFiniteSet(reporting)
  BY FS_Subset, ConformanceAssumption
<1>2. result \in Surjection(reporting, all)
  BY DEF Surjection
<1>3. IsFiniteSet(all)
  BY <1>1, <1>2, FS_Surjection
<1>. QED
  BY <1>3, FS_Subset DEF Shared

\* A format that the summary calls identical has one encoding, at most, of
\* every case of the tier.
LEMMA IdenticalIsShared ==
    ASSUME ReportInv, current, NEW f \in report.identical,
           NEW c \in corpus \cap Identical
    PROVE  Cardinality(Shared(c, f)) <= 1
<1>1. Counted(f) = Agreeing(f)
  BY DEF ReportInv, Claims
<1>2. CASE c \in Counted(f)
  BY <1>1, <1>2 DEF Agreeing
<1>3. CASE c \notin Counted(f)
  BY <1>3, FS_EmptySet DEF Counted
<1>. QED
  BY <1>2, <1>3

\* The summary agrees with the tables above it, but for the failures of cases
\* that have left the corpus, whatever files it is made of.
THEOREM SummaryMatchesTables == Spec => []SummaryAgrees
<1>1. ReportInv => SummaryAgrees
  <2>. SUFFICES ASSUME ReportInv, current
                PROVE  /\ report.allTrip => ~Shown
                       /\ ~report.allTrip => Shown \/ Unshown
                       /\ \A f \in report.identical, c \in corpus \cap Identical :
                             Cardinality(Shared(c, f)) <= 1
    BY DEF SummaryAgrees
  <2>1. report.allTrip <=> AllTrip
    BY DEF ReportInv, Claims
  <2>2. \A l \in reporting, c \in corpus, f \in Formats :
            Cell(l, c, f) = "fails" <=> c \in DOMAIN file[l] /\ file[l][c][f] = "fails"
    BY DEF Cell, Result
  <2>3. ASSUME AllTrip PROVE ~Shown
    BY <2>2, <2>3 DEF AllTrip, Shown
  <2>4. ASSUME ~AllTrip PROVE Shown \/ Unshown
    <3>. PICK l \in reporting :
             \E c \in DOMAIN file[l], f \in Formats : file[l][c][f] = "fails"
      BY <2>4 DEF AllTrip
    <3>1. PICK c \in DOMAIN file[l], f \in Formats : file[l][c][f] = "fails"
      OBVIOUS
    <3>2. CASE c \in corpus
      BY <2>2, <3>1, <3>2 DEF Shown
    <3>3. CASE c \notin corpus
      BY <3>1, <3>3 DEF Unshown
    <3>. QED
      BY <3>2, <3>3
  <2>. QED
    BY <2>1, <2>3, <2>4, IdenticalIsShared
<1>. QED
  BY <1>1, ReportIsCurrent, PTL

-----------------------------------------------------------------------------
\* Where every runner knows the case and succeeds, what it wrote is compared.
LEMMA ResultShared ==
    ASSUME ReportInv, current, UpToDate, report.allTrip,
           NEW l \in reporting, NEW c \in corpus, NEW f \in Formats
    PROVE  Result(l, c, f) \in Shared(c, f)
<1>1. AllTrip
  BY DEF ReportInv, Claims
<1>2. l \in Languages /\ c \in DOMAIN file[l]
  BY DEF ReportInv, UpToDate
<1>3. file[l][c][f] \in Results
  BY <1>2 DEF ReportInv
<1>4. Result(l, c, f) = file[l][c][f]
  BY <1>2 DEF Result
<1>5. Result(l, c, f) \notin {"none", "fails"}
  BY <1>1, <1>2, <1>3, <1>4, ConformanceAssumption DEF AllTrip, Results
<1>. QED
  BY <1>5 DEF Shared

\* When every runner has run on the corpus and nothing fails, the summary
\* calls a format identical exactly where all languages write the same bytes.
THEOREM SummaryIsExact == Spec => []ExactWhenSound
<1>1. ReportInv => ExactWhenSound
  <2>. SUFFICES ASSUME ReportInv, current, UpToDate, report.allTrip,
                       corpus \cap Identical # {}, NEW f \in Formats \cap Canonical
                PROVE  f \in report.identical <=>
                           \A c \in corpus \cap Identical : \A l, m \in reporting :
                               Result(l, c, f) = Result(m, c, f)
    BY DEF ExactWhenSound
  <2>. DEFINE tier == corpus \cap Identical
  <2>1. reporting # {} /\ reporting \subseteq Languages
    BY DEF ReportInv
  <2>2. Counted(f) = tier
    BY <2>1, ResultShared DEF Counted
  <2>3. f \in report.identical <=> Agreeing(f) = tier
    <3>1. report.identical = {g \in Formats \cap Canonical :
                                Counted(g) # {} /\ Agreeing(g) = Counted(g)}
      BY DEF ReportInv, Claims
    <3>. QED
      BY <2>2, <3>1
  <2>4. ASSUME NEW c \in tier
        PROVE  Cardinality(Shared(c, f)) = 1 <=>
                   \A l, m \in reporting : Result(l, c, f) = Result(m, c, f)
    <3>1. \A l \in reporting : Result(l, c, f) \in Shared(c, f)
      BY ResultShared
    <3>2. Shared(c, f) \subseteq {Result(l, c, f) : l \in reporting}
      BY DEF Shared
    <3>3. Cardinality(Shared(c, f)) = 1 <=> \E b : Shared(c, f) = {b}
      BY <2>1, SharedFinite, FS_Singleton
    <3>4. (\E b : Shared(c, f) = {b}) <=>
              \A l, m \in reporting : Result(l, c, f) = Result(m, c, f)
      <4>1. PICK l \in reporting : TRUE
        BY <2>1
      <4>2. ASSUME \A m, n \in reporting : Result(m, c, f) = Result(n, c, f)
            PROVE  Shared(c, f) = {Result(l, c, f)}
        BY <3>1, <3>2, <4>1, <4>2
      <4>. QED
        BY <3>1, <4>2
    <3>. QED
      BY <3>3, <3>4
  <2>. QED
    BY <2>2, <2>3, <2>4 DEF Agreeing
<1>. QED
  BY <1>1, ReportIsCurrent, PTL
=============================================================================
