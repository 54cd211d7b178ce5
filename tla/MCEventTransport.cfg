SPECIFICATION Spec
CONSTANTS
    Messages = {m1}
    None = None
    MaxStarts = 3
    MaxConnects = 2
    MaxCrashes = 1
INVARIANTS
    TransportOK
PROPERTIES
    NoReplay
    SavedInOrder
    CallsEnd
CHECK_DEADLOCK FALSE
