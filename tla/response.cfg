\* Both adapters, every format, every failure, a client that may leave.
SPECIFICATION Spec
CONSTANTS
    Adapters  = {"python", "go"}
    Requested <- MCRequested
    MaxItems  = 3
INVARIANTS
    EndedMeansWhole
    StopsPulling
PROPERTY Responds
CHECK_DEADLOCK FALSE
