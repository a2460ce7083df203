\* Every outcome of every case, runners that run again and an edited corpus.
SPECIFICATION Spec
CONSTANTS
    Languages = {go, node}
    Cases     = {nulls, floats}
    Identical = {nulls}
    Formats   = {"cbor", "json"}
    Bytes     = {x, y}
SYMMETRY Symmetry
INVARIANTS
    SummaryAgrees
    ExactWhenSound
