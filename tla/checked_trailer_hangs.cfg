CONSTANTS
    Formats = {"checked"}
    ElementSizes <- MCElementSizes
    HighWaterMark = 1
    MaxItems = 2
    AppListens = TRUE
SPECIFICATION Spec
PROPERTY WaitingErrorSettles
CHECK_DEADLOCK FALSE
