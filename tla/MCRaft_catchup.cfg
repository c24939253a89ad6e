\* A stable leader brings a server with a conflicting log up to date.
\* The bounds stop the last proposals, so behaviours end.
SPECIFICATION FairSplitSpec
CONSTANTS
  n1 = n1
  n2 = n2
  n3 = n3
  v1 = v1
  v2 = v2
  v3 = v3
  v4 = v4
  None = None
  Server = {n1, n2, n3}
  Value = {v1}
  UsePreVote = FALSE
  MaxBatch = 7
  SimRestart = FALSE
  AutoSnapshotEvery = 0
  Partitioned = {{n1, n2}}
  Timers = {}
  Isolatable = {n1, n3}
  Restartable = {}
  Snapshotters = {}
  Reconfigurable = {}
  Targets = {}
  MaxTerm = 4
  MaxLog = 3
CHECK_DEADLOCK FALSE
PROPERTIES StableLeaderReplicates
