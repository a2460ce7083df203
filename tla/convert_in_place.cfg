\* A conversion whose output is its input.
SPECIFICATION Spec
CONSTANTS
    Formats    = {"json", "cbor"}
    MaxItems   = 2
    Limits     <- MCLimits
    BufferSize = 2
INVARIANT ConvertsInput
CHECK_DEADLOCK FALSE
