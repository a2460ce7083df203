\* An element without encoding, in Go.
SPECIFICATION Spec
CONSTANTS
    Adapters  = {"go"}
    Requested <- MCRequested
    MaxItems  = 1
INVARIANT ErrorIs500
CHECK_DEADLOCK FALSE
