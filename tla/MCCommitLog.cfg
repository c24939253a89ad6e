\* Small segments, a sparse index, crashes inside appends and retention.
SPECIFICATION Spec
CONSTANTS
  Payload = {1, 2}
  MaxSegmentBytes = 5
  IndexInterval = 2
  Faults = {"append", "retention"}
  MaxBatch = 3
  MaxOffset = 7
INVARIANTS TypeOK ReadCorrect RecoveryExact NoGap
PROPERTIES OnlyRequestsRemove ImplementsOrderedLog
