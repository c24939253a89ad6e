\* PreVote while leadership is being transferred.
\* The bounds stop the last elections and proposals, so behaviours end.
SPECIFICATION VotedSpec
CONSTANTS
  n1 = n1
  n2 = n2
  n3 = n3
  v1 = v1
  v2 = v2
  v3 = v3
  v4 = v4
  None = None
  Server = {n1, n2, n3}
  Value = {}
  UsePreVote = TRUE
  MaxBatch = 5
  SimRestart = FALSE
  AutoSnapshotEvery = 0
  Partitioned = {{n1, n2}}
  Timers = {n2, n3}
  Isolatable = {}
  Restartable = {}
  Snapshotters = {}
  Reconfigurable = {}
  Targets = {n3}
  MaxTerm = 2
  MaxLog = 1
CHECK_DEADLOCK FALSE
INVARIANTS TypeOK ElectionSafety LeaderCompleteness
