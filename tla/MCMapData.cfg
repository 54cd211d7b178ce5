SPECIFICATION MCSpec
CONSTANTS
    Wires <- MCWires
    Undefined = Undefined
    MaxSegments = 8
    Window = 4
    PendingLimit = 2
    MessageLimit = 6
    MowerWindow = 5
    MaxDuplicates = 2
    Inputs <- MCInputs
    Absent = Absent
    MaxPoints = 3
    MaxTime = 3
INVARIANTS
    StreamOK
    HistoryOK
PROPERTIES
    PathSteps
CHECK_DEADLOCK FALSE
