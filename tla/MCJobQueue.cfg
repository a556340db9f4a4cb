SPECIFICATION FairSpec
CONSTANTS
  j1 = j1  j2 = j2  w1 = w1  w2 = w2
  Jobs = {j1, j2}
  Workers = {w1, w2}
  MaxAttempts = 2
  BatchLimit = 2
  StaleAfter = 1
  Backoff = 1
INVARIANT
  RowsMatchWorkers
PROPERTIES
  SuccessIsFinal
  Settles
  ImplementsLease
