SPECIFICATION FairSpec
CONSTANTS
  MaxSlot = 2
  TTL = 3
  MaxVersion = 2
  MaxTime = 3
  MaxEvents = 1
  MaxFaults = 1
INVARIANT HeldTokensValid
PROPERTY NewsArrives
CHECK_DEADLOCK FALSE
