\* Bare JSON arrays: every encoder, every decoder, every cut and chunking.
SPECIFICATION Spec
CONSTANTS
    Element   = {"twelve", "text", "pair", "deep", "deeper", "nan"}
    Foreign   <- MCForeign
    Plain     <- MCPlain
    Digit     <- MCDigit
    Text      <- MCText
    ParserDepth <- MCParserDepth
    Encoders  = {"python", "java", "dotnet"}
    Decoders  = {"python", "node", "rust", "go", "java"}
    MaxItems  = 2
    ChunkSize = 2
    CompactAt = 3
    MaxDepth  = 2
INVARIANTS
    Faithful
    CompleteMeansWhole
    IntactDecodes
    BufferBounded
PROPERTY EventuallyEnds
CHECK_DEADLOCK FALSE
