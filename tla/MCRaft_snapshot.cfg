\* A server lacks what the leader has compacted, and installs its snapshots; or a
\* server alone compacts its log.
\* The bounds stop the last proposals, so behaviours end.
SPECIFICATION SnapshotSpec
CONSTANTS
  n1 = n1
  n2 = n2
  n3 = n3
  v1 = v1
  v2 = v2
  v3 = v3
  v4 = v4
  None = None
  Server = {n1, n2, n3}
  Value = {v1, v2, v3, v4}
  UsePreVote = FALSE
  MaxBatch = 6
  SimRestart = FALSE
  AutoSnapshotEvery = 3
  Partitioned = {}
  Timers = {n1}
  Isolatable = {}
  Restartable = {}
  Snapshotters = {n1}
  Reconfigurable = {}
  Targets = {}
  MaxTerm = 2
  MaxLog = 4
CHECK_DEADLOCK FALSE
INVARIANTS StateMachineSafety SnapshotSound LogContiguous
PROPERTIES CommittedNeverLost
