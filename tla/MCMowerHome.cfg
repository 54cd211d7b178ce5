SPECIFICATION Spec
CONSTANTS
    Calls = {c1, c2}
    None = None
    MapProvisioning = TRUE
    MaxCalls = 4
    MaxLogins = 2
INVARIANTS
    HomeOK
PROPERTIES
    LeaseIsCurrent
    CallsEnd
CHECK_DEADLOCK FALSE
