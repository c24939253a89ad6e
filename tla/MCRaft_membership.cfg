\* Servers are removed and added while leaders change.
\* The bounds stop the last elections and proposals, so behaviours end.
SPECIFICATION Spec
CONSTANTS
  n1 = n1
  n2 = n2
  n3 = n3
  v1 = v1
  v2 = v2
  v3 = v3
  v4 = v4
  None = None
  Server = {n1, n2, n3}
  Value = {}
  UsePreVote = FALSE
  MaxBatch = 6
  SimRestart = FALSE
  AutoSnapshotEvery = 0
  Partitioned = {{n1, n2}}
  Timers = {n1, n2}
  Isolatable = {}
  Restartable = {}
  Snapshotters = {}
  Reconfigurable = {n1, n2, n3}
  Targets = {}
  MaxTerm = 2
  MaxLog = 4
SYMMETRY Symmetry
CHECK_DEADLOCK FALSE
INVARIANTS ConfigAgreement ElectionSafety CommittedOnMajority LeaderCompleteness
