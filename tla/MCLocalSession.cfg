SPECIFICATION Spec
CONSTANTS
    MaxOps = 3
    MaxArrivals = 4
    MaxSkipped = 2
    MaxReports = 1
INVARIANTS
    TypeOK
    OwnAnswer
    ClosedMeansReleased
PROPERTIES
    SessionEnds
CHECK_DEADLOCK FALSE
