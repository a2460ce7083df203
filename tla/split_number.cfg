\* A read that ends inside a number, in Python.
SPECIFICATION Spec
CONSTANTS
    Element   = {"one", "twelve"}
    Foreign   <- MCForeign
    Plain     <- MCPlain
    Digit     <- MCDigit
    Text      <- MCText
    ParserDepth <- MCParserDepth
    Encoders  = {"python"}
    Decoders  = {"python"}
    MaxItems  = 2
    ChunkSize = 2
    CompactAt = 3
    MaxDepth  = 1
INVARIANT ChunkingInvisible
CHECK_DEADLOCK FALSE
