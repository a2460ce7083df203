\* The end of the stream as a clean end: "return None; // clean end (root closed)".
SPECIFICATION Spec
CONSTANTS
    Encoders  = {"rust"}
    Decoders  = {"node", "rust"}
    Values    <- MCValues
    MaxNodes  = 9
    Streams   <- MCThree
    ChunkSize = 2
INVARIANT CleanEnd
CHECK_DEADLOCK FALSE
