SPECIFICATION Spec
CONSTANTS
  NoRow = NoRow
  Specs <- MCSpecs
  MaxCount = 2
  SettlePeriod = 1
  ReadinessWait = 1
  Width = 8
  Shifts = 1
  BaseBackoff = 1
  MaxBackoff = 2
  MaxCalls = 2
  MaxAttempts = 2
  MaxFaults = 1
PROPERTY RollsOneByOne
INVARIANT RunsAccounted
PROPERTY ReclaimKeepsReaders
PROPERTY Converges
PROPERTY RestartReplaces
CHECK_DEADLOCK FALSE
