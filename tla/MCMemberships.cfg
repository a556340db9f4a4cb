SPECIFICATION PlanSpec
CONSTANTS
  m1 = m1  m2 = m2  s1 = s1  s2 = s2  d1 = d1
  Members = {m1, m2}
  Sweeps = {s1, s2}
  Staff = {d1}
  Seats = 1
  Period = 1
  Horizon = 2
  MaxBilled = 2
INVARIANTS
  PeriodsGranted
  SeatsCovered
PROPERTY
  LeaversLeftAlone
SYMMETRY Symmetry
