SPECIFICATION Spec
CONSTANTS
  w1 = w1  w2 = w2  b1 = b1  b2 = b2
  ana = ana  ben = ben
  Workers = {w1, w2}
  Batches = {b1, b2}
  Jobs = {"dispatch", b1, b2}
  MaxAttempts = 2
  Keys = {ana, ben}
  CustomerOf <- MCCustomerOf
  Channels <- MCChannels
  Audiences <- MCAudiences
  WeeklyCap = 1
  MaxUncounted = 0
  MaxRequests = 2
  MaxFaults = 1
CHECK_DEADLOCK FALSE
INVARIANTS
  DeliveredOnce
  CompletedIsOver
  FanOutResumes
SYMMETRY Symmetry
