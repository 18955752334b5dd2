SPECIFICATION FairSpec
CONSTANTS
  Names = {w1}
  Specs = {s1, s2}
  OneShot = {s2}
  NoRow = NoRow
  PruneEvery = 2
  MaxIds = 2
  MaxAttempt = 9
  MaxOps = 3
  MaxFaults = 2
INVARIANT OneInstance
INVARIANT NoFilesWithoutRow
PROPERTY RowGoesLast
PROPERTY ReadersKeepFiles
PROPERTY Converges
