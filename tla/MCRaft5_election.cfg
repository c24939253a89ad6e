\* Pre-votes and votes are counted together in a cluster of five.
SPECIFICATION Spec
CONSTANTS
  n1 = n1
  n2 = n2
  n3 = n3
  n4 = n4
  n5 = n5
  None = None
  Server = {n1, n2, n3, n4, n5}
  Value = {}
  UsePreVote = TRUE
  MaxBatch = 6
  SimRestart = FALSE
  AutoSnapshotEvery = 0
  Partitioned = {{n1, n2}}
  Timers = {n1, n2}
  Isolatable = {}
  Restartable = {}
  Snapshotters = {}
  Reconfigurable = {}
  Targets = {}
  MaxTerm = 2
  MaxLog = 4
SYMMETRY Symmetry
CHECK_DEADLOCK FALSE
INVARIANTS ElectionSafety
