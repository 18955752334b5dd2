SPECIFICATION Spec
CONSTANTS
  NoRecord = NoRecord
  Cgroups = FALSE
  MaxVersion = 2
  MaxProcs = 2
  MaxCrashes = 1
  MaxFaults = 1
  MaxReuse = 1
  MaxCalls = 1
INVARIANT ProcessesAccounted
INVARIANT ExitIsItsOwn
INVARIANT OutputOfOne
INVARIANT OnlyItsOwn
PROPERTY Settles
CHECK_DEADLOCK FALSE
