\* Every command, format, document and destination, and a break at any time.
SPECIFICATION Spec
CONSTANTS
    Formats    = {"json", "xml", "msgpack", "cbor"}
    MaxItems   = 4
    Limits     <- MCLimits
    BufferSize = 2
INVARIANTS
    ZeroMeansDone
    ClosedMeansWhole
    StopsReading
PROPERTY Exits
CHECK_DEADLOCK FALSE
