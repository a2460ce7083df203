\* A failing stream of one port read by another, on a connection that does not break.
SPECIFICATION Spec
CONSTANTS
    Element   = {"one"}
    Foreign   <- MCForeign
    Plain     <- MCPlain
    Digit     <- MCDigit
    Text      <- MCText
    ParserDepth <- MCParserDepth
    Encoders  = {"python"}
    Decoders  = {"go", "java"}
    MaxItems  = 2
    ChunkSize = 1
    MaxDepth  = 1
    Faults    = {}
INVARIANT IntactVerdict
CHECK_DEADLOCK FALSE
