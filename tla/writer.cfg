\* Every encoder, values below and above the mark, every way to go away.
CONSTANTS
    Formats = {"json", "xml", "msgpack", "cbor", "checked"}
    ElementSizes <- MCElementSizes
    HighWaterMark = 3
    MaxItems = 3
    AppListens = TRUE
SPECIFICATION Spec
INVARIANTS BufferBounded CompleteWhenReturned AbortPrompt
PROPERTIES SettlesWhileOpen WaitingErrorHandled
CHECK_DEADLOCK FALSE
