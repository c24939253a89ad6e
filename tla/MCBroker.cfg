\* A consumer, producers, sweeps and a crash on a topic of two partitions.
SPECIFICATION FairSpec
CONSTANTS
  k1 = k1
  k2 = k2
  c1 = c1
  g1 = g1
  Topic = {"t1"}
  Key = {k1, k2}
  NoKey = NoKey
  Hash <- MCHash
  Consumer = {c1}
  GroupOf <- MCGroupOf
  DefaultPartitions = 2
  SegmentRecords = 1
  Limit = 2
  MaxTotal = 2
  Posted = {0, 2}
  MaxRecords = 3
  MaxCrashes = 1
INVARIANTS TypeOK KeyOrder CommitDurable NothingSkipped
PROPERTY ConsumerCatchesUp
