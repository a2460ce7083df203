\* Python to Python: "round-tripping an object through XML returns exactly the
\* same object".  A key with a double quote, or any character that XML forbids,
\* does not.
SPECIFICATION Spec
CONSTANTS
    Encoders  = {"python"}
    Decoders  = {"python"}
    Values    <- MCValues
    MaxNodes  = 9
    Streams   <- MCObjects
    ChunkSize = 1
INVARIANT RoundTrips
CHECK_DEADLOCK FALSE
