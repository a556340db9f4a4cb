SPECIFICATION Spec
CONSTANTS
  a1 = a1  a2 = a2
  r1 = r1  r2 = r2  r3 = r3
  c1 = c1  c2 = c2  w1 = w1  w2 = w2
  Accounts = {a1, a2}
  Requests = {r1, r2, r3}
  Op <- MCOp
  None = None
  Callers = {c1, c2}
  Sweepers = {w1, w2}
  Lifetimes = {1}
  Never = 9
  Horizon = 2
  MaxEntries = 4
SYMMETRY MCSymmetry
INVARIANTS
  OnceAndCovered
  BooksBalance
  CachesExact
PROPERTIES
  EarliestFirst
  AppliesRequestsOnce
CHECK_DEADLOCK FALSE
