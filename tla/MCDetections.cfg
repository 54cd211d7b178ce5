SPECIFICATION DetectionsSpec
CONSTANTS
    cam = cam
    person = person
    other = other
    third = third
    p1 = p1
    p2 = p2
    o1 = o1
    ann = ann
    Nothing = Nothing
    Serials = {cam}
    Pushes <- MCPushes
    Reports <- MCReports
    Settle = 2
    Suppress = 3
    Near = 1
    Keep = 3
    PendingLimit = 2
    SeenLimit = 2
    Spread = 1
    MaxTime = 5
    MaxInputs = 4
INVARIANTS
    DetectionsOK
    NoRepeat
    OnePerOccurrence
CHECK_DEADLOCK FALSE
