SPECIFICATION Spec
CONSTANTS
  Workloads = {w1, w2}
  Prunes = {prune}
  Limit = 1
  MaxCallers = 1
  MaxOpen = 2
  Followed = {w1, w2}
INVARIANT NoNewsLost
INVARIANT CountMeansDone
INVARIANT SubscriberTold
INVARIANT ClaimIsCounted
