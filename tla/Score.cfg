SPECIFICATION Spec
CONSTANTS
  Clients = {c1, c2}
  Installs = {"blog", "shop"}
  Releases = {1, 2}
  Volumes <- MCVolumes
  Variables <- MCVariables
  Workloads <- MCWorkloads
  Rank <- MCRank
  Direct <- MCDirect
  Expands <- MCExpands
  Inside <- MCInside
  Varies <- MCVariables
  Rendered <- MCRendered
  MaxCalls = 3
  MaxFaults = 1
SYMMETRY MCSymmetry
INVARIANT RefusalsHaveCause ApplyMakesWhole
PROPERTY NoTakeover
CHECK_DEADLOCK FALSE
