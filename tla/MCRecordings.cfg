SPECIFICATION Spec
CONSTANTS
    Rows = {r1, r2, r3}
    Listing = {r1}
    None = None
    Limits <- MCLimits
    Caps <- MCCaps
    MaxReferences = 1
    MaxBytes = 2
    MaxOperations = 2
    Frames <- MCFrames
    MaxChanges = 1
INVARIANTS
    OwnResults
PROPERTIES
    WholeResults
    OperationEnds
CHECK_DEADLOCK FALSE
