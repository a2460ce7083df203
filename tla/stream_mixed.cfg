\* The token readers, and two scanners, behind encoders of both kinds.
SPECIFICATION Spec
CONSTANTS
    Element   = {"one", "twelve", "deep", "undef"}
    Foreign   <- MCForeign
    Plain     <- MCPlain
    Digit     <- MCDigit
    Text      <- MCText
    ParserDepth <- MCParserDepth
    Encoders  = {"go", "node"}
    Decoders  = {"python", "rust", "go", "java"}
    MaxItems  = 2
    ChunkSize = 1
    MaxDepth  = 1
    Faults    = {"eof", "reset"}
INVARIANT VerdictSound
PROPERTY EventuallyJudged
CHECK_DEADLOCK FALSE
