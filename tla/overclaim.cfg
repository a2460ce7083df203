\* What the summary claims, against the results it is made of.
SPECIFICATION Spec
CONSTANTS
    Languages = {go, node}
    Cases     = {nulls, floats}
    Identical = {nulls}
    Formats   = {"cbor", "json"}
    Bytes     = {x, y}
SYMMETRY Symmetry
INVARIANTS
    NoOverclaiming
    FailureIsShown
