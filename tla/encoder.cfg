\* Every port's encoder against every way its source can end.  The encoder
\* ends, so a terminal state is not a deadlock.
SPECIFICATION EncSpec
CONSTANTS
    Element  = {"one", "word", "undef"}
    Foreign  = {"undef"}
    Digit    = {"1"}
    Plain    <- MCPlain
    Text     <- MCText
    ParserDepth <- MCParserDepth
    Encoders <- MCEncoders
    MaxItems = 3
INVARIANTS
    EncTypeOK
    StatusLast
    ElementsInOrder
    StatusTruthful
    FailureSignalled
PROPERTY EncoderSettles
CHECK_DEADLOCK FALSE
