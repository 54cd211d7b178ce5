SPECIFICATION Spec
CONSTANTS
  MaxAttempts = 2
  MaxQueries = 1
INVARIANTS
    StreamOwned
    AcknowledgementsCover
PROPERTIES
    Handle
    AttemptsEnd
