--------------------------- MODULE MCConformance ---------------------------
(***************************************************************************)
(* Instances for the runs of the conformance suite: a case of each tier, a *)
(* binary and a text format.                                               *)
(***************************************************************************)
EXTENDS Conformance, TLC

Symmetry == Permutations(Languages) \cup Permutations(Bytes)
=============================================================================
