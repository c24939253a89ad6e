\* Two servers that cannot reach each other, and restarts of the TCP server.
\* The bounds stop the last elections and proposals, so behaviours end.
SPECIFICATION Spec
CONSTANTS
  n1 = n1
  n2 = n2
  n3 = n3
  v1 = v1
  v2 = v2
  v3 = v3
  v4 = v4
  None = None
  Server = {n1, n2, n3}
  Value = {v1}
  UsePreVote = FALSE
  MaxBatch = 6
  SimRestart = FALSE
  AutoSnapshotEvery = 0
  Partitioned = {{n1, n2}}
  Timers = {n1, n2}
  Isolatable = {}
  Restartable = {n1, n3}
  Snapshotters = {}
  Reconfigurable = {}
  Targets = {}
  MaxTerm = 2
  MaxLog = 4
CHECK_DEADLOCK FALSE
INVARIANTS ElectionSafety LeaderCompleteness CommittedOnMajority
PROPERTIES CommittedNeverLost
