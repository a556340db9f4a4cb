SPECIFICATION Spec
CONSTANTS
  w1 = w1  w2 = w2  c1 = c1  c2 = c2  s1 = s1  k1 = k1  k2 = k2  t1 = t1  t2 = t2
  Workers = {w1, w2}
  Cards = {c1, c2}
  Sales = {s1}
  Jobs = {s1, c1, c2}
  Taps = {k1, k2}
  Asked <- MCAsked
  Value = 2
  Tills = {t1, t2}
  Sweep = sweep
  Scheduled = TRUE
  MaxAttempts = 2
  MaxFaults = 1
  MaxMails = 2
CHECK_DEADLOCK FALSE
INVARIANTS
  CardsAddUp
  SpentIsPaid
  MailedOnce
  PaidArrives
SYMMETRY Symmetry
