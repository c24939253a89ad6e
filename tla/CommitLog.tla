----------------------------- MODULE CommitLog -----------------------------
(***************************************************************************)
(* The segmented commit log of pylog (classes Segment and CommitLog of     *)
(* pylog/log.py): files of records on disk, and for each of them what the  *)
(* process keeps in memory, its size, next offset and sparse index.        *)
(*                                                                         *)
(* A payload is the length of its framed record, so that positions are     *)
(* those of the bytes.  A file is its valid records and whether invalid    *)
(* bytes follow them (a torn write, a failed checksum).  Writes are        *)
(* unbuffered and survive the process.  The sidecar files are only         *)
(* written, never read; timestamps, file handles and the mmap are left     *)
(* out.                                                                    *)
(*                                                                         *)
(* An operation is atomic unless the process dies in it: then the disk is  *)
(* left after any of the operation's writes or deletions, and recover      *)
(* starts from there.                                                      *)
(***************************************************************************)
EXTENDS Integers, Sequences, FiniteSets

CONSTANTS
  Payload,            \* the lengths of framed records
  MaxSegmentBytes,    \* max_segment_bytes
  IndexInterval,      \* index_interval_bytes
  Faults,             \* the operations a crash may interrupt, "damage" of records
  MaxBatch,           \* bound on the records of one append_many
  MaxOffset           \* bound on the next offset of an append

ASSUME CommitLogAssumption ==
  /\ Payload \subseteq Nat \ {0}
  /\ MaxSegmentBytes \in Nat \ {0}
  /\ IndexInterval \in Nat \ {0}
  /\ Faults \subseteq {"append", "truncate", "retention", "damage"}
  /\ MaxBatch \in Nat
  /\ MaxOffset \in Nat

VARIABLES
  disk,          \* base offset of a segment file -> its contents
  segments,      \* the Segment objects, << >> while the log is closed
  next_offset

vars == <<disk, segments, next_offset>>

Last(s) == s[Len(s)]
MaxIn(S) == CHOOSE x \in S : \A y \in S : y <= x
MinIn(S) == CHOOSE x \in S : \A y \in S : x <= y

\* The numbers of a set in increasing order, and what a sequence has at those places.
InOrder(S) ==
  [k \in 1..Cardinality(S) |-> CHOOSE x \in S : Cardinality({y \in S : y < x}) = k - 1]
Chosen(s, S) == [k \in 1..Cardinality(S) |-> s[InOrder(S)[k]]]

-----------------------------------------------------------------------------
(* Segments *)

Record == [offset : Nat, position : Nat, length : Payload]

\* An index entry is a relative offset and the position of its record.
Entry == Nat \X Nat
Segment == [base_offset : Nat, size : Nat, next_offset : Nat, index : Seq(Entry),
            last_indexed_position : Int]

EmptyFile == [records |-> << >>, torn |-> FALSE]

\* The position where the next write to a file lands.
FileSize(file) ==
  IF file.records = << >> THEN 0 ELSE Last(file.records).position + Last(file.records).length

Put(d, base, file) == [b \in DOMAIN d \cup {base} |-> IF b = base THEN file ELSE d[b]]
Delete(d, bases) == [b \in DOMAIN d \ bases |-> d[b]]

FreshSegment(base) ==
  [base_offset |-> base, size |-> 0, next_offset |-> base, index |-> << >>,
   last_indexed_position |-> -1]

\* Mutant of MaybeIndex: the entry points behind the record.
BugIndexNextRecord(seg, offset, position) ==
  IF seg.index = << >> \/ position - seg.last_indexed_position >= IndexInterval
  THEN [seg EXCEPT !.index = Append(@, <<offset - seg.base_offset, position + 1>>),
                   !.last_indexed_position = position]
  ELSE seg

MaybeIndex(seg, offset, position) ==
  IF seg.index = << >> \/ position - seg.last_indexed_position >= IndexInterval
  THEN [seg EXCEPT !.index = Append(@, <<offset - seg.base_offset, position>>),
                   !.last_indexed_position = position]
  ELSE seg

\* The segment after the record has been written at position.
Extended(seg, offset, position, length) ==
  [MaybeIndex(seg, offset, position) EXCEPT
     !.size = position + length, !.next_offset = offset + 1]

\* Mutant of RecoveredSegment: the next offset counts the records.
BugRecoversCount(base, file) ==
  LET replay[k \in 0..Len(file.records)] ==
        IF k = 0 THEN FreshSegment(base)
        ELSE LET r == file.records[k] IN Extended(replay[k - 1], r.offset, r.position, r.length)
  IN  [replay[Len(file.records)] EXCEPT !.next_offset = Len(file.records)]

\* Segment.recover: replay the valid records; the rest of the file is cut off.
RecoveredSegment(base, file) ==
  LET replay[k \in 0..Len(file.records)] ==
        IF k = 0 THEN FreshSegment(base)
        ELSE LET r == file.records[k] IN Extended(replay[k - 1], r.offset, r.position, r.length)
  IN  replay[Len(file.records)]

\* Mutant of RecoveredFile: the good size is where the last record starts.
BugCutsLastRecord(file) ==
  IF file.torn /\ file.records # << >>
  THEN [records |-> SubSeq(file.records, 1, Len(file.records) - 1), torn |-> FALSE]
  ELSE file

RecoveredFile(file) == [file EXCEPT !.torn = FALSE]

\* The byte position of the last index entry at or below the offset.
StartPosition(seg, offset) ==
  LET below == {k \in 1..Len(seg.index) : seg.index[k][1] <= offset - seg.base_offset}
  IN  IF below = {} THEN 0 ELSE seg.index[MaxIn(below)][2]

\* Segment.read and position_of: the record, as a set of at most one.  A scan
\* that does not start at a record fails its validation; it ends at the first
\* record that is not below the offset.
SegmentRead(seg, file, offset) ==
  LET start == StartPosition(seg, offset)
      scanned == {k \in 1..Len(file.records) :
                    file.records[k].position >= start /\ file.records[k].offset >= offset}
      first == file.records[MinIn(scanned)]
  IN  IF /\ offset >= seg.base_offset /\ offset < seg.next_offset
         /\ \E k \in 1..Len(file.records) : file.records[k].position = start
         /\ scanned # {}
         /\ first.offset = offset
      THEN {first} ELSE {}

\* Mutant of TruncatedSegment: the index keeps its entries.
BugIndexKept(seg, file, offset) ==
  LET found == SegmentRead(seg, file, offset)
      cut == CHOOSE r \in found : TRUE
  IN  IF offset <= seg.base_offset THEN FreshSegment(seg.base_offset)
      ELSE IF found = {} THEN seg
      ELSE [seg EXCEPT !.size = cut.position, !.next_offset = offset]

\* Segment.truncate_from, on the segment and on its file.
TruncatedSegment(seg, file, offset) ==
  LET found == SegmentRead(seg, file, offset)
      cut == CHOOSE r \in found : TRUE
      index == Chosen(seg.index,
                      {j \in 1..Len(seg.index) : seg.index[j][1] < offset - seg.base_offset})
  IN  IF offset <= seg.base_offset THEN FreshSegment(seg.base_offset)
      ELSE IF found = {} THEN seg
      ELSE [seg EXCEPT !.size = cut.position, !.next_offset = offset, !.index = index,
                       !.last_indexed_position = IF index = << >> THEN -1 ELSE Last(index)[2]]

TruncatedFile(seg, file, offset) ==
  LET found == SegmentRead(seg, file, offset)
      cut == CHOOSE r \in found : TRUE
  IN  IF offset <= seg.base_offset THEN EmptyFile
      ELSE IF found = {} THEN file
      ELSE [file EXCEPT !.records = Chosen(@, {j \in 1..Len(@) : @[j].position < cut.position})]

-----------------------------------------------------------------------------
(* CommitLog: functions of a store, the disk and the segments together *)

Store == [disk |-> disk, segments |-> segments]

\* Mutant of Rolled: the new segment does not become the active one.
BugRollNotListed(s, offset) ==
  [s EXCEPT !.disk = Put(s.disk, offset, EmptyFile)]

\* _new_segment, which recovers a file that already has the name.
Rolled(s, offset) ==
  LET file == IF offset \in DOMAIN s.disk THEN RecoveredFile(s.disk[offset]) ELSE EmptyFile
  IN  [disk |-> Put(s.disk, offset, file),
       segments |-> Append(s.segments, RecoveredSegment(offset, file))]

\* Segment.append of the record to the active segment.
Written(s, offset, length) ==
  LET active == Last(s.segments)
      file == s.disk[active.base_offset]
      record == [offset |-> offset, position |-> FileSize(file), length |-> length]
  IN  [disk |-> Put(s.disk, active.base_offset, [file EXCEPT !.records = Append(@, record)]),
       segments |-> [s.segments EXCEPT ![Len(s.segments)] =
                       Extended(active, offset, active.size, length)]]

\* append rolls a segment that is full, append_many one that a record after
\* the first of the batch would overfill.
RollsBefore(s, k, length, many) ==
  IF many THEN k > 1 /\ Last(s.segments).size + length > MaxSegmentBytes
  ELSE Last(s.segments).size >= MaxSegmentBytes

\* Ready to write the k-th record of a batch that starts at next_offset.
Prepared(s, k, length, many) ==
  IF RollsBefore(s, k, length, many) THEN Rolled(s, next_offset + k - 1) ELSE s

\* The store after the first k records of a batch, for every k.
Appended(batch, many) ==
  LET after[k \in 0..Len(batch)] ==
        IF k = 0 THEN Store
        ELSE Written(Prepared(after[k - 1], k, batch[k], many), next_offset + k - 1, batch[k])
  IN  after

Torn(s) ==
  LET base == Last(s.segments).base_offset
  IN  Put(s.disk, base, [s.disk[base] EXCEPT !.torn = TRUE])

\* The last segment whose base is not above the offset, 0 if there is none.
SegmentOf(offset) ==
  LET below == {k \in 1..Len(segments) : segments[k].base_offset <= offset}
  IN  IF below = {} THEN 0 ELSE MaxIn(below)

\* CommitLog.read tries the segment before as well.
Read(offset) ==
  LET at(k) == SegmentRead(segments[k], disk[segments[k].base_offset], offset)
      k == SegmentOf(offset)
  IN  IF k = 0 THEN {}
      ELSE IF at(k) = {} /\ k > 1 THEN at(k - 1) ELSE at(k)

Bases(ks) == {segments[k].base_offset : k \in ks}

\* truncate_segments_before: what it deletes of all but the active segment.
Expired(min_base_offset) ==
  {k \in 1..(Len(segments) - 1) :
     segments[k].size = 0 \/ segments[k].base_offset < min_base_offset}

-----------------------------------------------------------------------------

Opened == segments # << >>

Batches == UNION {[1..n -> Payload] : n \in 1..MaxBatch}

Init ==
  /\ disk = [b \in {0} |-> EmptyFile]
  /\ segments = <<FreshSegment(0)>>
  /\ next_offset = 0

AppendRecord(length) ==
  /\ Opened
  /\ next_offset < MaxOffset
  /\ disk' = Appended(<<length>>, FALSE)[1].disk
  /\ segments' = Appended(<<length>>, FALSE)[1].segments
  /\ next_offset' = next_offset + 1

AppendMany(batch) ==
  /\ Opened
  /\ next_offset + Len(batch) <= MaxOffset
  /\ disk' = Appended(batch, TRUE)[Len(batch)].disk
  /\ segments' = Appended(batch, TRUE)[Len(batch)].segments
  /\ next_offset' = next_offset + Len(batch)

\* Mutant of TruncateFrom: the later segments stay on disk.
BugKeepsLaterFiles(offset) ==
  LET k == SegmentOf(offset)
      seg == segments[k]
      file == disk[seg.base_offset]
  IN  /\ Opened
      /\ k # 0
      /\ disk' = Put(disk, seg.base_offset, TruncatedFile(seg, file, offset))
      /\ segments' = [SubSeq(segments, 1, k) EXCEPT ![k] = TruncatedSegment(seg, file, offset)]
      /\ next_offset' = Last(segments').next_offset

\* Later segments are deleted, oldest first, then the one that holds the
\* offset is cut.
TruncateFrom(offset) ==
  LET k == SegmentOf(offset)
      seg == segments[k]
      file == disk[seg.base_offset]
  IN  /\ Opened
      /\ k # 0
      /\ disk' = Put(Delete(disk, Bases((k + 1)..Len(segments))), seg.base_offset,
                     TruncatedFile(seg, file, offset))
      /\ segments' = [SubSeq(segments, 1, k) EXCEPT ![k] = TruncatedSegment(seg, file, offset)]
      /\ next_offset' = Last(segments').next_offset

TruncateSegmentsBefore(min_base_offset) ==
  /\ Opened
  /\ disk' = Delete(disk, Bases(Expired(min_base_offset)))
  /\ segments' = Chosen(segments, (1..Len(segments)) \ Expired(min_base_offset))
  /\ UNCHANGED next_offset

-----------------------------------------------------------------------------
(* Crashes: the disks that an interrupted operation leaves *)

\* After every record, before it in a file already rolled, and within it.
AppendCrashes(batch, many) ==
  LET after == Appended(batch, many)
      ready(k) == Prepared(after[k - 1], k, batch[k], many)
  IN  {after[k].disk : k \in 1..Len(batch)}
        \cup {ready(k).disk : k \in 1..Len(batch)}
        \cup {Torn(ready(k)) : k \in 1..Len(batch)}

TruncateCrashes(offset) ==
  IF SegmentOf(offset) = 0 THEN {}
  ELSE {Delete(disk, Bases((SegmentOf(offset) + 1)..j)) : j \in SegmentOf(offset)..Len(segments)}

RetentionCrashes(min_base_offset) ==
  {Delete(disk, Bases({k \in Expired(min_base_offset) : k <= j})) : j \in 0..Len(segments)}

\* A record goes bad: it and what follows it in the file are lost.
Damaged ==
  UNION {{Put(disk, b, [records |-> SubSeq(disk[b].records, 1, n - 1), torn |-> TRUE]) :
            n \in 1..Len(disk[b].records)} : b \in DOMAIN disk}

CrashDisks ==
  LET fitting == {batch \in Batches : next_offset + Len(batch) <= MaxOffset}
      single == {batch \in fitting : Len(batch) = 1}
      left == [append    |-> (UNION {AppendCrashes(batch, TRUE) : batch \in fitting})
                               \cup (UNION {AppendCrashes(batch, FALSE) : batch \in single}),
               truncate  |-> UNION {TruncateCrashes(offset) : offset \in 0..MaxOffset},
               retention |-> UNION {RetentionCrashes(offset) : offset \in 0..MaxOffset},
               damage    |-> Damaged]
  IN  UNION {left[fault] : fault \in Faults}

\* The process is gone, by close or by a crash, and leaves its disk.
Crash ==
  /\ Opened
  /\ disk' \in {disk} \cup CrashDisks
  /\ segments' = << >>
  /\ next_offset' = 0

\* CommitLog.recover: every file in the order of its base offset.
Open ==
  /\ ~Opened
  /\ disk' = [b \in DOMAIN disk |-> RecoveredFile(disk[b])]
  /\ segments' = [k \in 1..Cardinality(DOMAIN disk) |->
                    RecoveredSegment(InOrder(DOMAIN disk)[k], disk'[InOrder(DOMAIN disk)[k]])]
  /\ next_offset' = Last(segments').next_offset

Next ==
  \/ \E length \in Payload : AppendRecord(length)
  \/ \E batch \in Batches : AppendMany(batch)
  \/ \E offset \in 0..MaxOffset : TruncateFrom(offset) \/ TruncateSegmentsBefore(offset)
  \/ Crash
  \/ Open

Spec == Init /\ [][Next]_vars

-----------------------------------------------------------------------------
(* Properties *)

Records(d) == UNION {{d[b].records[k] : k \in 1..Len(d[b].records)} : b \in DOMAIN d}

\* Files hold records and segments have the attributes of the class, index entries
\* of numbers included; an open log has one segment for each file, in the order of
\* their base offsets, which is what the search for a segment relies on.
TypeOK ==
  /\ \A b \in DOMAIN disk : b \in Nat /\ disk[b].records \in Seq(Record) /\ disk[b].torn \in BOOLEAN
  /\ next_offset \in Nat
  /\ segments \in Seq(Segment)
  /\ Opened => Bases(1..Len(segments)) = DOMAIN disk
  /\ \A k, l \in 1..Len(segments) : k < l => segments[k].base_offset < segments[l].base_offset

\* read finds a record exactly when a file holds it, through the sparse index,
\* after any rolls, truncations, batches and restarts (Segment.read).
ReadCorrect ==
  Opened => \A offset \in 0..MaxOffset :
    Read(offset) = {r \in Records(disk) : r.offset = offset}

\* A restart would rebuild exactly what the process has in memory: sizes, next
\* offsets and index entries (Segment.recover against append and truncate_from).
RecoveryExact ==
  Opened => /\ \A k \in 1..Len(segments) :
                 segments[k] = RecoveredSegment(segments[k].base_offset,
                                                disk[segments[k].base_offset])
            /\ next_offset = Last(segments).next_offset

\* The offsets of an open log have no gap: every file continues the one before
\* it and only the last may be empty (CommitLog.recover takes the next offset
\* from the last file alone).  A crash inside truncate_from (between the deletions of
\* segments, log.py:445-449) and a record gone bad do leave gaps: this is so as long
\* as neither "truncate" nor "damage" is among the Faults.
NoGap ==
  Opened => \A b \in DOMAIN disk :
    LET records_of == disk[b].records
    IN  /\ \A k \in 1..Len(records_of) : records_of[k].offset = b + k - 1
        /\ b = MaxIn(DOMAIN disk) \/ b + Len(records_of) \in DOMAIN disk \ {b}

\* Only truncation and retention remove records: appends, crashes in them,
\* closing and recovery keep every finished record (Segment.recover cuts a torn
\* tail and nothing else).
OnlyRequestsRemove ==
  [][\/ Records(disk) \subseteq Records(disk')
     \/ \E offset \in 0..MaxOffset :
          \/ TruncateFrom(offset) \/ TruncateSegmentsBefore(offset)
          \/ Crash /\ disk' \in TruncateCrashes(offset) \cup RetentionCrashes(offset)]_vars

FirstOnDisk == MinIn(DOMAIN disk)
RecordsOnDisk ==
  LET bases == InOrder(DOMAIN disk)
      upto[k \in 0..Len(bases)] ==
        IF k = 0 THEN << >> ELSE upto[k - 1] \o disk[bases[k]].records
  IN  [n \in 1..Len(upto[Len(bases)]) |-> upto[Len(bases)][n].length]
Abstract == INSTANCE OrderedLog WITH first <- FirstOnDisk, records <- RecordsOnDisk

\* The segmented files implement the one log their users rely on: rolling,
\* crashes, recovery and the deletion of segments never reorder, repeat or skip
\* a record of it (CommitLog.recover, append_many, truncate_from).
ImplementsOrderedLog == Abstract!Spec
=============================================================================
