SPECIFICATION Spec
CONSTANTS
    Files = {f1, f2}
    None = None
    MaxDemands = 2
    MaxSends = 3
    MaxDrops = 1
INVARIANTS
    SessionOK
PROPERTIES
    PublishedInDemand
    UnknownIsFinal
    DemandEnds
CHECK_DEADLOCK FALSE
