SPECIFICATION ScanFairSpec
CONSTANTS
  s1 = s1  s2 = s2  stamps = stamps
  f1 = f1  f2 = f2  h1 = h1
  Events = {s1, s2}
  Programs = {stamps}
  Awards <- MCAwards
  Capped = {}
  Cap <- MCCap
  Handlers = {h1}
  Flushers = {f1, f2}
  MaxAttempts = 2
  Cached = {s1}
  None = None
INVARIANTS
  SavedIsKept
  ShownIsRecorded
PROPERTIES
  LeavesInOrder
  QueueDrains
CHECK_DEADLOCK FALSE
