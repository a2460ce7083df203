CONSTANTS
    Formats = {"json"}
    ElementSizes <- MCElementSizes
    HighWaterMark = 3
    MaxItems = 2
    AppListens = TRUE
SPECIFICATION Spec
PROPERTY GoneSettles
CHECK_DEADLOCK FALSE
