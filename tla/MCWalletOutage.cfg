SPECIFICATION Spec
CONSTANTS
  w1 = w1  w2 = w2  m1 = m1  m2 = m2  apple = apple  google = google
  Workers = {w1, w2}
  Jobs <- MCJobs
  MaxAttempts = 2
  Providers = {apple, google}
  Fetching = {apple}
  Minutes <- MCMinutes
  RetryKey <- MCRetryKey
  ProvidersOf <- MCProvidersOf
  MaxSyncAttempts = 3
  MaxChanges = 2
  MaxFaults = 3
CHECK_DEADLOCK FALSE
INVARIANT FailureIsAState
SYMMETRY Symmetry
