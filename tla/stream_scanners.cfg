\* The four scanners, end to end: lexing across chunks, faults at every symbol.
SPECIFICATION Spec
CONSTANTS
    Element   = {"text", "pair", "deep"}
    Foreign   <- MCForeign
    Plain     <- MCPlain
    Digit     <- MCDigit
    Text      <- MCText
    ParserDepth <- MCParserDepth
    Encoders  = {"python"}
    Decoders  = {"python", "node", "dotnet", "rust"}
    MaxItems  = 2
    ChunkSize = 2
    MaxDepth  = 1
    Faults    = {"eof", "reset"}
INVARIANTS
    VerdictSound
    BufferBounded
    IntactVerdict
PROPERTY DeliverySpec
CHECK_DEADLOCK FALSE
