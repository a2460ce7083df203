\* MessagePack of one collection from two ports.
SPECIFICATION Spec
CONSTANTS
    Base      = 4
    NonFinite = {5}
    Values    <- MCValues
    MaxAtoms  = 17
    PosFix    = 1
    NegFix    = 1
    FixStr    = 1
    FixLen    = 1
    Immediate = 1
    Readers   = {"python"}
    Encoders  = {"python", "node"}
    Streams   <- MCMaps
    ChunkSize = 2
INVARIANT ByteIdentical
CHECK_DEADLOCK FALSE
