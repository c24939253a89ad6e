--------------------------- MODULE DurableRaftLog ---------------------------
(***************************************************************************)
(* The durable Raft log of pylog (class DurableRaftLog of                  *)
(* pylog/durable_log.py) in a server that crashes and restarts: the mirror *)
(* in memory, the commit log on disk and the snapshot files beside it      *)
(* (pylog/raft.py).  The rest of the cluster is what Raft makes of it: one *)
(* leader at a time, whose log keeps every committed entry.                *)
(*                                                                         *)
(* The commit log is the ordered log that CommitLog implements, raft index *)
(* i being record i, except for a crash inside truncate_from: as in        *)
(* CommitLog.TruncateCrashes it may leave segments behind a gap, or records *)
(* that were to be cut.  Reads stop at the gap and next_offset lies behind *)
(* it, so that nothing behind a gap is ever read again, whatever is        *)
(* written there: disk holds the records before the first gap.  Where      *)
(* segments begin is left open.                                            *)
(*                                                                         *)
(* The payload of an entry is the index it was created with, so that an    *)
(* entry that is renumbered can be told.                                   *)
(***************************************************************************)
EXTENDS RaftLog

CONSTANTS
  MaxTerm,   \* bound on the term of a leader
  MaxLog     \* bound on the log of a leader that takes a proposal

ASSUME BoundAssumption == MaxTerm \in Nat \ {0} /\ MaxLog \in Nat

VARIABLES
  \* the server: its log in memory, commit_index and applied_index
  up, log, commit_index, applied_index,
  \* its files: the records <<term, payload>> that reads of the disk reach,
  \* disk.next_offset, the snapshots written
  disk, next_offset, snapshots,
  \* the cluster: who leads ("self", "other", or "none" after this server has
  \* crashed as leader), its term and log, and how far the log is committed
  leader, leader_term, leader_log, committed,
  \* history: what the server has acknowledged, and which of the code's defects
  \* its log has met (Defects)
  acked, defects

memory == <<up, log, commit_index, applied_index>>
files == <<disk, next_offset, snapshots>>
cluster == <<leader, leader_term, leader_log, committed>>
history == <<acked, defects>>
vars == <<memory, files, cluster, history>>

-----------------------------------------------------------------------------
(* Functions of the class *)

Record(e) == <<e.term, e.payload>>
Records(entries) == [k \in 1..Len(entries) |-> Record(entries[k])]

\* Mutant of TruncateDisk: the record at the offset stays.
BugTruncatesAfter(d, next, offset) ==
  {<<SubSeq(d, 1, MinOf(Len(d), offset + 1)), MinOf(next, offset + 1)>>}

\* CommitLog.truncate_from: the records before the offset stay.  Behind a gap
\* the log may end anywhere up to the offset.
TruncateDisk(d, next, offset) ==
  IF offset >= next THEN {<<d, next>>}
  ELSE IF offset <= Len(d) THEN {<<SubSeq(d, 1, offset), offset>>}
  ELSE {<<d, n>> : n \in Len(d)..offset}

\* The disks that a crash inside truncate_from leaves.  The segment that holds
\* the offset ends at a and is not cut; of the later ones, deleted from the
\* oldest on, some or none are left.
TruncateCrashes(d, next, offset) ==
  {<<d, next>>}
    \cup {<<SubSeq(d, 1, a), a>> : a \in MaxOf(offset, 1)..Len(d)}
    \cup {<<SubSeq(d, 1, a), next>> : a \in MaxOf(offset, 1)..Len(d)}
    \cup {<<d, n>> : n \in IF Len(d) < offset /\ offset < next THEN Len(d)..next ELSE {}}

\* append_many writes at next_offset, where reads come only if there is no gap.
AppendDisk(d, next, batch) ==
  <<IF next = Len(d) THEN d \o batch ELSE d, next + Len(batch)>>

\* The mirror that __init__ rebuilds.
Loaded(d) ==
  [EmptyLog EXCEPT !.entries =
     [k \in 1..Len(d) |-> [index |-> k, term |-> d[k][1], payload |-> d[k][2]]]]

\* Mutant of KeepBelow: the entry at cut stays.
BugKeepsThrough(entries, cut) ==
  SubSeq(entries, 1, Least({k \in 1..Len(entries) : entries[k].index > cut},
                           Len(entries) + 1) - 1)

\* The entries with an index below cut, a prefix of the array.
KeepBelow(entries, cut) ==
  SubSeq(entries, 1, Least({k \in 1..Len(entries) : entries[k].index >= cut},
                           Len(entries) + 1) - 1)

\* Mutant of Cut: everything after prev is rewritten.
BugCutsAll(l, prev, incoming) == IF incoming = << >> THEN 0 ELSE prev + 1

\* The index of the first incoming entry that the log lacks or contradicts, 0
\* if it has them all.
Cut(l, prev, incoming) ==
  LET k == InsertAt(l, prev, incoming) IN IF k = 0 THEN 0 ELSE prev + k

\* What merge adds after the entries it has kept: those of the leader with a
\* greater index, which are a suffix, numbered on from the last one.
Added(kept, incoming) ==
  LET last == LastIndex([entries |-> kept])
      new == DropThrough(incoming, last)
  IN  [k \in 1..Len(new) |-> [new[k] EXCEPT !.index = last + k]]

\* merge: the answer, the mirror, where the disk is cut (0: nowhere) and the batch
\* that append_many then writes.
DurableMerge(l, prev, prevTerm, incoming) ==
  LET cut == Cut(l, prev, incoming)
      kept == IF cut = 0 THEN l.entries ELSE KeepBelow(l.entries, cut)
      refused(hint) == [ok |-> FALSE, match |-> 0, conflict |-> hint, log |-> l,
                        cut |-> 0, batch |-> << >>]
  IN  IF prev > LastIndex(l) THEN refused(LastIndex(l) + 1)
      ELSE IF TermAt(l, prev) # prevTerm
      THEN refused(ConflictTermFirstIndex(l, TermAt(l, prev), prev))
      ELSE [ok |-> TRUE, match |-> prev + Len(incoming), conflict |-> 0,
            log |-> [l EXCEPT !.entries = kept \o Added(kept, incoming)],
            cut |-> cut,
            batch |-> Records(Added(kept, incoming))]

\* The disk after the truncation of a merge, if it has one.
TruncatedFor(m) == IF m.cut = 0 THEN {<<disk, next_offset>>}
                   ELSE TruncateDisk(disk, next_offset, m.cut - 1)

\* The offset of the first record that a merge writes, if it is to be its index.
BatchOffset(m) == LastIndex(m.log) - Len(m.batch)

\* What _apply_committed reaches.
Reached(l, applied, commit) ==
  IF applied < commit /\ Present(l, applied + 1)
  THEN MinOf(commit, LastPosition(l)) ELSE applied

\* The snapshot file that _load_snapshot_file takes: the highest index.
LatestSnapshot == CHOOSE s \in snapshots : \A r \in snapshots : r.index <= s.index

DiskBecomes(t) == disk' = t[1] /\ next_offset' = t[2]

-----------------------------------------------------------------------------
(* The defects of the code that a log may meet, each when it does harm:
   "torn"       a crash inside truncate_from has left a gap,
   "buried"     a record is written behind a gap,
   "cut"        a re-sync to a snapshot has removed records that can be read,
   "overtaken"  an append from index 0 is merged above a snapshot,
   "misplaced"  a record is written at an offset that is not its index,
   "behind"     a restart goes on from a snapshot that the log does not have. *)

Note(kind, happens) == IF happens THEN {kind} ELSE {}

\* None of the defects that lose records has been met.
Sound == defects \cap {"buried", "cut", "overtaken"} = {}

-----------------------------------------------------------------------------
(* The cluster *)

TermOf(k) == IF k = 0 THEN 0 ELSE leader_log[k].term

NewEntry(k) == [index |-> k, term |-> leader_term, payload |-> k]

\* Another server logs a proposal.
LeaderAppends ==
  /\ leader = "other"
  /\ Len(leader_log) < MaxLog
  /\ leader_log' = Append(leader_log, NewEntry(Len(leader_log) + 1))
  /\ UNCHANGED <<memory, files, leader, leader_term, committed, history>>

\* An entry of the leader's term is stored by a majority.
Commit(k) ==
  /\ leader # "none"
  /\ k > committed
  /\ TermOf(k) = leader_term
  /\ committed' = k
  /\ UNCHANGED <<memory, files, leader, leader_term, leader_log, history>>

\* Another server is elected: it has the committed entries and perhaps more.
NewLeader(k) ==
  /\ leader_term < MaxTerm
  /\ leader_term' = leader_term + 1
  /\ leader_log' = SubSeq(leader_log, 1, k)
  /\ leader' = "other"
  /\ UNCHANGED <<memory, files, committed, history>>

\* This server is elected: its log has the committed entries.  (A log that is
\* not sound is only followed in a follower.)
Lead ==
  /\ up
  /\ Sound
  /\ leader_term < MaxTerm
  /\ LastIndex(log) >= committed
  /\ \A k \in log.first_index..committed : Get(log, k) = leader_log[k]
  /\ leader_term' = leader_term + 1
  /\ leader_log' = SubSeq(leader_log, 1, log.first_index - 1) \o log.entries
  /\ leader' = "self"
  /\ UNCHANGED <<memory, files, committed, history>>

-----------------------------------------------------------------------------
(* The server *)

Init ==
  /\ up = TRUE /\ log = EmptyLog /\ commit_index = 0 /\ applied_index = 0
  /\ disk = << >> /\ next_offset = 0 /\ snapshots = {}
  /\ leader = "other" /\ leader_term = 1 /\ leader_log = << >> /\ committed = 0
  /\ acked = {} /\ defects = {}

\* append_entry, and the leader's count of itself.
AppendEntryDurably ==
  LET e == NewEntry(Len(leader_log) + 1)
  IN  /\ up /\ leader = "self"
      /\ Len(leader_log) < MaxLog
      /\ log' = AppendEntry(log, e.term, e.payload)
      /\ DiskBecomes(AppendDisk(disk, next_offset, <<Record(e)>>))
      /\ leader_log' = Append(leader_log, e)
      /\ acked' = acked \cup {<<e.index, e.term>>}
      /\ defects' = defects \cup Note("buried", next_offset # Len(disk))
                             \cup Note("misplaced", next_offset # LastIndex(log))
      /\ UNCHANGED <<up, commit_index, applied_index, snapshots, leader, leader_term,
                     committed>>

\* The commit index of a leader reaches what a majority has.
LeaderApplies ==
  /\ up /\ leader = "self"
  /\ commit_index < committed
  /\ commit_index' = committed
  /\ applied_index' = Reached(log, applied_index, committed)
  /\ UNCHANGED <<up, log, files, cluster, history>>

\* An append from the sentinel on passes the check of merge also when a snapshot
\* has overtaken it: its entries then replace those above the snapshot.
Overtaken(m, prev) == m.ok /\ m.batch # << >> /\ prev < log.first_index - 1

AppendDefects(m, prev, written, t) ==
  Note("overtaken", Overtaken(m, prev))
    \cup Note("buried", written > 0 /\ t[2] # Len(t[1]))
    \cup Note("misplaced", written > 0 /\ t[2] # BatchOffset(m))

\* _on_append of the n entries after prev that the leader had when it sent them,
\* with a commit index it had then (a batch takes them all: max_batch is 256).
OnAppend(prev, n, commit) ==
  LET m == DurableMerge(log, prev, TermOf(prev), SubSeq(leader_log, prev + 1, prev + n))
      advance == m.ok /\ commit > commit_index
  IN  /\ up /\ leader = "other"
      /\ log' = m.log
      /\ \E t \in TruncatedFor(m) :
           /\ DiskBecomes(AppendDisk(t[1], t[2], m.batch))
           /\ defects' = defects \cup AppendDefects(m, prev, Len(m.batch), t)
      /\ commit_index' = IF advance THEN MinOf(commit, LastIndex(m.log)) ELSE commit_index
      /\ applied_index' = IF advance THEN Reached(m.log, applied_index, commit_index')
                          ELSE applied_index
      /\ acked' = acked \cup {<<k, TermOf(k)>> : k \in 1..m.match}
      /\ UNCHANGED <<up, snapshots, cluster>>

\* What a crash leaves of memory.
LoseMemory == up' = FALSE /\ log' = EmptyLog /\ commit_index' = 0 /\ applied_index' = 0

\* The process dies inside truncate_from.
CrashTruncating(offset, noted) ==
  \E t \in TruncateCrashes(disk, next_offset, offset) :
    /\ DiskBecomes(t)
    /\ defects' = defects \cup noted \cup Note("torn", next_offset' # Len(disk'))

\* The process dies inside the truncation of a merge, or in append_many, when a
\* prefix of the batch is on disk.
CrashInAppend(prev, n) ==
  LET m == DurableMerge(log, prev, TermOf(prev), SubSeq(leader_log, prev + 1, prev + n))
  IN  /\ up /\ leader = "other"
      /\ LoseMemory
      /\ \/ /\ m.cut # 0
            /\ CrashTruncating(m.cut - 1, Note("overtaken", Overtaken(m, prev)))
         \/ \E t \in TruncatedFor(m) : \E written \in 0..Len(m.batch) :
              /\ DiskBecomes(AppendDisk(t[1], t[2], SubSeq(m.batch, 1, written)))
              /\ defects' = defects \cup AppendDefects(m, prev, written, t)
      /\ UNCHANGED <<snapshots, cluster, acked>>

\* _write_snapshot_file: a file is named after its index.
WriteSnapshot(index, term) ==
  {s \in snapshots : s.index # index} \cup {[index |-> index, term |-> term]}

\* Mutant of TakeSnapshot: the snapshot is named after the end of the log.
BugSnapshotOfWholeLog ==
  /\ up
  /\ applied_index > 0
  /\ snapshots' = WriteSnapshot(LastIndex(log), TermAt(log, LastIndex(log)))
  /\ UNCHANGED <<memory, disk, next_offset, cluster, history>>

\* take_snapshot: the file, then the mirror; the disk keeps the whole log.
TakeSnapshot ==
  LET index == applied_index
      term == IF TermAt(log, index) < 0 /\ log.snapshot_last_index = index
              THEN log.snapshot_last_term ELSE TermAt(log, index)
  IN  /\ up
      /\ index > 0
      /\ snapshots' = WriteSnapshot(index, term)
      /\ log' = Compact(log, index, term)
      /\ UNCHANGED <<up, commit_index, applied_index, disk, next_offset, cluster, history>>

\* truncate_disk_through.  What it removes are records above the snapshot.
Resync(index, noted) ==
  \E t \in TruncateDisk(disk, next_offset, index) :
    /\ DiskBecomes(t)
    /\ defects' = defects \cup noted \cup Note("cut", Len(disk') < Len(disk))

CrashInResync(index) ==
  CrashTruncating(index, Note("cut", Len(disk') < Len(disk)))

AlreadyHas(index) ==
  \/ TermAt(log, index) = TermOf(index)
  \/ log.snapshot_last_index >= index

\* _on_install_snapshot of the leader's snapshot up to index.
InstallSnapshot(index) ==
  /\ up /\ leader = "other"
  /\ commit_index' = MaxOf(commit_index, index)
  /\ \/ /\ AlreadyHas(index)
        /\ UNCHANGED <<log, applied_index, files, defects>>
     \/ /\ ~AlreadyHas(index)
        /\ log' = ResetTo(log, index, TermOf(index))
        /\ applied_index' = MaxOf(applied_index, index)
        /\ snapshots' = WriteSnapshot(index, TermOf(index))
        /\ Resync(index, {})
  /\ acked' = acked \cup {<<k, TermOf(k)>> : k \in 1..index}
  /\ UNCHANGED <<up, cluster>>

\* The process dies between two operations.
Crash ==
  /\ up
  /\ LoseMemory
  /\ leader' = IF leader = "self" THEN "none" ELSE leader
  /\ UNCHANGED <<files, leader_term, leader_log, committed, history>>

\* It dies in an install, with the snapshot written and the disk not yet cut, or
\* cut in part.
CrashInInstall(index) ==
  /\ up /\ leader = "other"
  /\ ~AlreadyHas(index)
  /\ LoseMemory
  /\ snapshots' = WriteSnapshot(index, TermOf(index))
  /\ CrashInResync(index)
  /\ UNCHANGED <<cluster, acked>>

\* compact has refused the snapshot, and the log has another entry there or none.
Behind(l, s) == l.snapshot_last_index # s.index /\ TermAt(l, s.index) # s.term

\* __init__ of the log, then _load_snapshot_file.
Restart ==
  /\ ~up
  /\ up' = TRUE
  /\ \/ /\ snapshots = {}
        /\ log' = Loaded(disk)
        /\ commit_index' = 0
        /\ applied_index' = 0
        /\ UNCHANGED <<disk, next_offset, defects>>
     \/ /\ snapshots # {}
        /\ log' = Compact(Loaded(disk), LatestSnapshot.index, LatestSnapshot.term)
        /\ Resync(LatestSnapshot.index, Note("behind", Behind(log', LatestSnapshot)))
        /\ commit_index' = LatestSnapshot.index
        /\ applied_index' = LatestSnapshot.index
  /\ UNCHANGED <<snapshots, cluster, acked>>

\* It dies in the truncation of a restart.
CrashInRestart ==
  /\ ~up
  /\ snapshots # {}
  /\ CrashInResync(LatestSnapshot.index)
  /\ UNCHANGED <<memory, snapshots, cluster, acked>>

Next ==
  \/ LeaderAppends \/ Lead \/ AppendEntryDurably \/ LeaderApplies
  \/ \E k \in 1..Len(leader_log) : Commit(k)
  \/ \E k \in committed..Len(leader_log) : NewLeader(k)
  \/ \E prev \in 0..Len(leader_log) : \E n \in 0..(Len(leader_log) - prev) :
       \/ \E commit \in 0..MinOf(committed, prev + n) : OnAppend(prev, n, commit)
       \/ CrashInAppend(prev, n)
  \/ TakeSnapshot
  \/ \E index \in 1..committed : InstallSnapshot(index) \/ CrashInInstall(index)
  \/ Crash
  \/ Restart
  \/ CrashInRestart

Spec == Init /\ [][Next]_vars

\* A log that has met other defects than these says nothing for any property below,
\* and keeps what it has met: TLC need not follow it.
StillClaimed == Sound \/ defects \subseteq {"torn", "cut"}

\* The state as far as the properties tell: what was acknowledged matters as long as
\* the log is sound, the leader has the entry and no snapshot covers it, and none
\* of these is ever true again once it is false.
View ==
  <<memory, files, cluster, defects,
    IF Sound THEN {a \in acked : /\ a[1] <= Len(leader_log) /\ TermOf(a[1]) = a[2]
                                 /\ \A s \in snapshots : s.index < a[1]}
    ELSE {}>>

-----------------------------------------------------------------------------
(* Properties *)

\* An entry that is committed and that the server has acknowledged is on its
\* disk, where a restart reads it, or in a snapshot: in every state, after a crash
\* between or inside the truncation and the batch of merge, inside an install or a
\* restart, and while the server is down.  This ends with a defect that loses
\* records ("cut", "overtaken") or writes one where no restart reads it ("buried",
\* a leader's append behind the gap of a torn truncation).
AcknowledgedDurable ==
  Sound =>
    \A k \in 1..committed :
      <<k, TermOf(k)>> \in acked =>
        \/ \E s \in snapshots : s.index >= k
        \/ k <= Len(disk) /\ disk[k] = Record(leader_log[k])

\* Every entry in memory is on disk under its index, also after a restart from a
\* snapshot (truncate_disk_through).
EveryEntryOnDisk ==
  up => \A k \in 1..Len(log.entries) :
          /\ log.entries[k].index <= Len(disk)
          /\ disk[log.entries[k].index] = Record(log.entries[k])

\* While the log is sound, memory has exactly the records above the snapshot that
\* a restart would read, under their indexes, between any two operations; and the
\* disk goes on where they end (durable_log.py:6-9), unless a truncation was torn.
\* (last_index is 0, and not next_offset, when an install has emptied the log.)
Coherent ==
  (up /\ Sound) =>
    /\ EveryEntryOnDisk
    /\ LastPosition(log) = MaxOf(Len(disk), log.first_index - 1)
    /\ \A k \in 1..Len(log.entries) : log.entries[k].index = log.first_index + k - 1
    /\ "torn" \notin defects => next_offset = Len(disk)

\* merge is written twice, on positions for the log in memory and on the stored
\* indexes for the durable one: while the log is sound both give the same answer
\* and the same log, for every append of the leader that no snapshot has overtaken.
MergeAgrees ==
  (up /\ Sound) =>
    \A prev \in (log.first_index - 1)..Len(leader_log) : \A n \in 0..(Len(leader_log) - prev) :
      LET incoming == SubSeq(leader_log, prev + 1, prev + n)
          inMemory == Merge(log, prev, TermOf(prev), incoming)
          durable == DurableMerge(log, prev, TermOf(prev), incoming)
      IN  \A field \in {"ok", "match", "conflict", "log"} : durable[field] = inMemory[field]

\* A snapshot file ends at a committed entry and names its term, whatever the log
\* that take_snapshot looks the term up in has been through: a compaction, an
\* install, a restart that compacts, records lost ("cut").  Not so once the log is
\* misnumbered or a restart has gone on from a snapshot that it does not have, when
\* take_snapshot writes the term -1 or that of another entry (raft.py:777-781).
SnapshotsTrue ==
  defects \subseteq {"torn", "cut"} =>
    \A s \in snapshots : s.index <= committed /\ s.term = TermOf(s.index)
=============================================================================
