\* Batches of one entry: a follower commits beyond what it has matched.
SPECIFICATION LeaderSpec
CONSTANTS
  n1 = n1
  n2 = n2
  n3 = n3
  v1 = v1
  v2 = v2
  v3 = v3
  v4 = v4
  None = None
  Server = {n1, n2, n3}
  Value = {}
  UsePreVote = FALSE
  MaxBatch = 1
  SimRestart = FALSE
  AutoSnapshotEvery = 0
  Partitioned = {}
  Timers = {n1, n2}
  Isolatable = {}
  Restartable = {}
  Snapshotters = {}
  Reconfigurable = {}
  Targets = {}
  MaxTerm = 3
  MaxLog = 3
CHECK_DEADLOCK FALSE
INVARIANTS CommittedOnMajority
