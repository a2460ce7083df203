\* The typed XML between four ports: every cut, every chunking.
SPECIFICATION Spec
CONSTANTS
    Encoders  = {"python", "node", "rust", "go"}
    Decoders  = {"python", "node", "rust", "go"}
    Values    <- MCValues
    MaxNodes  = 9
    Streams   <- MCStreams
    ChunkSize = 2
INVARIANTS
    Faithful
    IntactDecodes
    BufferBounded
PROPERTY DeliverySpec
CHECK_DEADLOCK FALSE
