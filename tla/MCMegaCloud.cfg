SPECIFICATION Spec
CONSTANTS
    Calls = {c1, c2}
    None = None
    MaxLogins = 2
    MaxCalls = 2
    MaxForgets = 1
    MaxFailures = 1
    MaxCrashes = 1
INVARIANTS
    CloudOK
PROPERTIES
    SentForCaller
    NoSecondCode
    CallsEnd
CHECK_DEADLOCK FALSE
