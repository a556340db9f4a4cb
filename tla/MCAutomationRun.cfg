SPECIFICATION AutoSpec
CONSTANTS
  w1 = w1  w2 = w2  r1 = r1  r2 = r2  t1 = t1  t2 = t2
  Workers = {w1, w2}
  Jobs = {r1, r2}
  Keys = {r1, r2}
  Runs = {r1, r2}
  Triggers = {t1, t2}
  MaxAttempts = 2
  CustomerOf <- MCCustomerOf
  Channels <- MCChannels
  WeeklyCap = 1
  MaxUncounted = 1
  MaxMishaps = 1
  MaxUnmarked = 1
CHECK_DEADLOCK FALSE
INVARIANTS
  ActsOnce
  CooldownKept
  WithinCap
  RunsEnd
SYMMETRY Symmetry
