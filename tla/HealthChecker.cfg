SPECIFICATION FairSpec
CONSTANTS
  Workloads = {w1}
  Instances = {1, 2}
  quick = quick
  slow = slow
  Checks <- MCChecks
  Interval <- MCInterval
  StartPeriod <- MCStartPeriod
  Retries <- MCRetries
  IdleWait = 1
  Ids = {1, 2}
  NoCheck = NoCheck
INVARIANT ProbeOwnership
INVARIANT NoLostVerdict
PROPERTY StaleAnswerIgnored
PROPERTY KeepsProbing
