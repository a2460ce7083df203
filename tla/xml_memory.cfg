\* What iterparse keeps: "memory stays proportional to the largest element
\* rather than the whole document".
SPECIFICATION Spec
CONSTANTS
    Encoders  = {"python"}
    Decoders  = {"python"}
    Values    <- MCValues
    MaxNodes  = 9
    Streams   <- MCThree
    ChunkSize = 1
INVARIANT TreeBounded
CHECK_DEADLOCK FALSE
