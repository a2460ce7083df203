\* Bare arrays of values that no read can split: what every decoder promises.
SPECIFICATION Spec
CONSTANTS
    Element   = {"one", "text", "deep", "deeper", "nan"}
    Foreign   <- MCForeign
    Plain     <- MCPlain
    Digit     <- MCDigit
    Text      <- MCText
    ParserDepth <- MCParserDepth
    Encoders  = {"python", "java", "dotnet"}
    Decoders  = {"python", "node", "rust", "go", "java"}
    MaxItems  = 2
    ChunkSize = 2
    CompactAt = 3
    MaxDepth  = 2
PROPERTY DeliverySpec
CHECK_DEADLOCK FALSE
