SPECIFICATION FairSpec
CONSTANTS
  h1 = h1  h2 = h2
  Handlers = {h1, h2}
  NumEvents = 3
  Scripts <- MCScripts
  Losses = {TRUE, FALSE}
INVARIANTS
  ClaimedOnce
  WarnedBeforeLapsed
  FollowsStripe
PROPERTIES
  EventuallyAcked
CHECK_DEADLOCK FALSE
