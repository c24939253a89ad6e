\* A deposed leader's log conflicts with its successor's.
\* The bounds stop the last elections and proposals, so behaviours end.
SPECIFICATION SplitSpec
CONSTANTS
  n1 = n1
  n2 = n2
  n3 = n3
  v1 = v1
  v2 = v2
  v3 = v3
  v4 = v4
  None = None
  Server = {n1, n2, n3}
  Value = {v1}
  UsePreVote = FALSE
  MaxBatch = 7
  SimRestart = FALSE
  AutoSnapshotEvery = 0
  Partitioned = {{n1, n2}}
  Timers = {n2}
  Isolatable = {n1, n3}
  Restartable = {}
  Snapshotters = {}
  Reconfigurable = {}
  Targets = {}
  MaxTerm = 4
  MaxLog = 3
CHECK_DEADLOCK FALSE
INVARIANTS LogMatching StateMachineSafety LeaderCompleteness MatchIndexSound
PROPERTIES CommitMonotonic
