SPECIFICATION Spec
CONSTANTS
  Names = {n1}
  Values = {v1, v2}
  Labels = {l1, l2}
  Clients = {c1, c2}
  NoRow = NoRow
  Unnamed = Unnamed
  MaxKeys = 3
  MaxArchives = 1
  MaxCalls = 3
  MaxLosses = 1
  MaxCrashes = 1
  MaxFaults = 1
PROPERTY ImplementsVault
CHECK_DEADLOCK FALSE
PROPERTY CallsReturn
