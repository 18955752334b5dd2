SPECIFICATION MCSpec
CONSTANTS
  a = a
  b = b
  s = s
  v = v
  NoRow = NoRow
  Names <- MCNames
  Secrets <- MCSecrets
  Variables <- MCVariables
  Manifests <- MCManifests
  Offset <- MCOffset
  Values = {1, 2}
  Hosts = {1, 2, 3}
  Clients = {c1, c2}
  Attempts = 2
  MaxCalls = 2
  MaxFaults = 1
  MaxTag = 1
INVARIANT HashFollows
INVARIANT SpecNamesItsPorts
PROPERTY MarkedStays
PROPERTY NoLostUpdate
CHECK_DEADLOCK FALSE
