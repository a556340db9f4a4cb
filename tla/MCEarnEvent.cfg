SPECIFICATION Spec
CONSTANTS
  e1 = e1  e2 = e2  e3 = e3  stamps = stamps  points = points
  h1 = h1  h2 = h2  h3 = h3
  Events = {e1, e2, e3}
  Programs = {stamps, points}
  Awards <- MCAwards
  Capped = {points}
  Cap <- MCCap
  Handlers = {h1, h2, h3}
SYMMETRY Interchangeable
INVARIANTS
  FollowedOnce
  WithinCap
PROPERTY
  RecordedOnce
