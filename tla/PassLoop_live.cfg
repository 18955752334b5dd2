SPECIFICATION FairSpec
CONSTANTS
  Workloads = {w1, w2}
  Prunes = {}
  Limit = 1
  MaxCallers = 0
  MaxOpen = 2
  Followed = {}
PROPERTY ClaimsReleased
PROPERTY Stops
