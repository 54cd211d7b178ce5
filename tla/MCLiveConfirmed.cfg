SPECIFICATION Spec
CONSTANTS
  MaxAttempts = 2
  MaxQueries = 0
INVARIANT ConfirmedMeansStopped
