\* MessagePack and CBOR between all ports: every cut, every chunking.
SPECIFICATION Spec
CONSTANTS
    Base      = 4
    NonFinite = {5}
    Values    <- MCValues
    MaxAtoms  = 17
    PosFix    = 1
    NegFix    = 1
    FixStr    = 1
    FixLen    = 1
    Immediate = 1
    Readers   = {"python", "node", "go", "rust", "java", "dotnet"}
    Encoders  = {"python", "node", "go", "rust", "java", "dotnet"}
    Streams   <- MCStreams
    ChunkSize = 2
INVARIANTS
    Faithful
    RefusedForCause
    BufferBounded
    SameBytes
PROPERTY DeliverySpec
CHECK_DEADLOCK FALSE
