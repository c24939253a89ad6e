SPECIFICATION Spec
CONSTANTS
  MaxTerm = 3
  MaxLog = 3
INVARIANTS   MergeAgrees SnapshotsTrue
CONSTRAINT StillClaimed
VIEW View
