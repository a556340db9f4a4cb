SPECIFICATION RewardSpec
CONSTANTS
  c1 = c1  paid = paid  gift = gift  k1 = k1  k2 = k2  e1 = e1
  t1 = t1  t2 = t2  g1 = g1  s1 = s1  s2 = s2
  Customers = {c1}
  Rewards = {paid, gift}
  Cost <- MCCost
  Stocked = {paid, gift}
  Stock0 <- MCStock0
  Limit <- MCLimit
  Keys = {k1, k2}
  Tap <- MCTap
  Earnings = {e1}
  Credits <- MCCredits
  Tills = {t1, t2}
  Granters = {g1}
  Staff = {s1, s2}
  NoKey = NoKey
  Valid = 0
  Horizon = 1
  MaxClaims = 2
  MaxUnmarked = 1
SYMMETRY MCSymmetry
INVARIANTS
  DebitsMatchRedemptions
  LimitsKept
  ReplaysRedeemOnce
  HandedOverOnce
CHECK_DEADLOCK FALSE
