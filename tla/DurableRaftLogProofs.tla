------------------------ MODULE DurableRaftLogProofs ------------------------
(***************************************************************************)
(* Theorems about DurableRaftLog, for leaders of any term and logs of any  *)
(* length: as long as the log is sound, memory has the records that a      *)
(* restart reads, what was acknowledged and committed survives, and the    *)
(* two merges of the code agree.                                           *)
(***************************************************************************)
EXTENDS DurableRaftLog, RaftLogProofs

-----------------------------------------------------------------------------
(* The inductive invariant *)

\* The cluster: an entry of the leader's log carries its index twice, and none
\* has a term that is still to come.
ClusterInv ==
  /\ leader \in {"self", "other", "none"}
  /\ leader_term \in Nat \ {0}
  /\ leader_log \in Seq(EntryOf(Nat))
  /\ committed \in 0..Len(leader_log)
  /\ \A k \in 1..Len(leader_log) :
       /\ leader_log[k].index = k /\ leader_log[k].payload = k
       /\ leader_log[k].term \in 1..leader_term
  /\ up \in BOOLEAN
  /\ leader = "self" => up

\* The disk and the leader's log hold the same entry at k.
Same(k) == k <= Len(disk) /\ k <= Len(leader_log) /\ disk[k][1] = leader_log[k].term

\* An entry of the leader's own term, once written or acknowledged anywhere, is
\* in the leader's log.
OfLeader(k, t) ==
  /\ t \in 1..leader_term
  /\ t = leader_term => k <= Len(leader_log) /\ leader_log[k].term = t

\* The disk: records are numbered by their place, and it agrees with the log of
\* the leader below any entry that both have (log matching).
DiskInv ==
  /\ disk \in Seq(Nat \X Nat)
  /\ \A k \in 1..Len(disk) : disk[k] = <<disk[k][1], k>> /\ OfLeader(k, disk[k][1])
  /\ \A k \in 1..Len(disk) : Same(k) => \A j \in 1..k : Same(j)

\* The disk goes on at its end or, after a torn truncation, behind a gap.
OffsetInv ==
  /\ next_offset \in Nat /\ Len(disk) <= next_offset
  /\ "torn" \notin defects => next_offset = Len(disk)

SnapshotInv ==
  /\ snapshots \subseteq [index : Nat \ {0}, term : Nat \cup {-1}]
  /\ \A s \in snapshots : s.index <= committed

\* A snapshot file has the entry at k.
Covered(k) == \E s \in snapshots : s.index >= k

\* What was acknowledged is kept as long as the leader's log has it, committed or
\* not: it may be committed any time.
AckedInv ==
  /\ acked \subseteq (Nat \ {0}) \X Nat
  /\ \A a \in acked : OfLeader(a[1], a[2])
  /\ \A k \in 1..Len(leader_log) : <<k, TermOf(k)>> \in acked => Same(k) \/ Covered(k)

\* The log l holds the records of the disk d above b.
MirrorOf(l, d, b) ==
  /\ l \in LogOf(Nat) /\ NumberedLog(b, l)
  /\ Len(l.entries) = IF b < Len(d) THEN Len(d) - b ELSE 0
  /\ \A k \in 1..Len(l.entries) :
       l.entries[k] = [index |-> b + k, term |-> d[b + k][1], payload |-> b + k]

\* A disk that goes on above x has the leader's entries up to x.  (A disk that ends
\* at or below a snapshot may be anything.)
Held(x) == x < Len(disk) => \A k \in 1..x : Same(k)

\* The server that is up: its log mirrors the disk above the last snapshot, of
\* which there is a file, and what it has applied and committed is held.
MirrorInv ==
  /\ MirrorOf(log, disk, log.snapshot_last_index)
  /\ commit_index \in 0..committed
  /\ applied_index \in log.snapshot_last_index..commit_index
  /\ Held(log.snapshot_last_index) /\ Held(applied_index) /\ Held(commit_index)
  /\ log.snapshot_last_index > 0 => \E s \in snapshots : s.index = log.snapshot_last_index
  /\ leader = "self" =>
       /\ log.snapshot_last_index = 0 \/ log.snapshot_last_index < Len(disk)
       /\ Len(leader_log) = Len(disk) /\ \A k \in 1..Len(disk) : Same(k)

DurableInv ==
  /\ ClusterInv
  /\ Sound => DiskInv /\ OffsetInv /\ SnapshotInv /\ AckedInv
  /\ up /\ Sound => MirrorInv

-----------------------------------------------------------------------------
(* What the operators do to numbered entries *)

LEMMA KeepBelowNumbered ==
  ASSUME NEW P, NEW entries \in Seq(EntryOf(P)), NEW b \in Nat, NumberedFrom(b, entries),
         NEW cut \in Int, b < cut, cut <= b + Len(entries) + 1
  PROVE  KeepBelow(entries, cut) = SubSeq(entries, 1, cut - b - 1)
<1> DEFINE n == Len(entries)
           S == {k \in 1..n : entries[k].index >= cut}
           from == cut - b
<1>1. n \in Nat
  BY LenProperties
<1>2. S = {k \in 1..n : b + k >= cut}
  BY DEF NumberedFrom
<1>3. from \in Nat \ {0} /\ \A y \in 1..n : b + y >= cut <=> from <= y
  BY <1>1
<1>4. Least(S, n + 1) = from
  <2>1. CASE from <= n
    <3>1. from \in S /\ S \subseteq Int /\ \A y \in S : from <= y
      <4> HIDE DEF from, S
      <4> QED  BY <1>1, <1>2, <1>3, <2>1
    <3> HIDE DEF S, from
    <3> QED  BY <3>1, LeastIs
  <2>2. CASE from > n
    <3>1. from = n + 1
      BY <1>1, <2>2
    <3>2. S = {}
      BY <1>1, <1>2, <2>2
    <3> HIDE DEF S, from
    <3> QED  BY <3>1, <3>2, LeastOfEmpty
  <2> QED  BY <1>1, <1>3, <2>1, <2>2
<1>5. KeepBelow(entries, cut) = SubSeq(entries, 1, Least(S, n + 1) - 1)
  BY DEF KeepBelow
<1> HIDE DEF S
<1> QED  BY <1>4, <1>5

LEMMA AddedNumbered ==
  ASSUME NEW P, NEW kept \in Seq(EntryOf(P)), NEW incoming \in Seq(EntryOf(P)),
         NEW prev \in Nat, NumberedFrom(prev, incoming),
         LastIndex([entries |-> kept]) \in Nat,
         prev <= LastIndex([entries |-> kept]),
         LastIndex([entries |-> kept]) <= prev + Len(incoming)
  PROVE  LET last == LastIndex([entries |-> kept])
         IN  /\ Added(kept, incoming) \in Seq(EntryOf(P))
             /\ Len(Added(kept, incoming)) = prev + Len(incoming) - last
             /\ \A i \in 1..(prev + Len(incoming) - last) :
                  Added(kept, incoming)[i] = incoming[last - prev + i]
<1> DEFINE last == LastIndex([entries |-> kept])
<1>0. last \in Nat /\ prev <= last /\ last <= prev + Len(incoming)
  OBVIOUS
<1> HIDE DEF last
<1> DEFINE n == Len(incoming)
           size == prev + n - last
           new == DropThrough(incoming, last)
<1>1. n \in Nat /\ size \in Nat
  BY <1>0, LenProperties
<1>2. new = SubSeq(incoming, last - prev + 1, n)
  BY <1>0, <1>1, DropThroughNumbered
<1>3. /\ new \in Seq(EntryOf(P)) /\ Len(new) = size
      /\ \A i \in 1..size : new[i] = incoming[last - prev + i]
  <2> DEFINE from == last - prev + 1
  <2>1. \A i \in from..n : incoming[i] \in EntryOf(P)
    BY <1>0, <1>1, ElementOfSeq
  <2>2. from \in Int /\ n \in Int
    BY <1>0, <1>1
  <2>3. /\ SubSeq(incoming, from, n) \in Seq(EntryOf(P))
        /\ Len(SubSeq(incoming, from, n)) = IF from <= n THEN n - from + 1 ELSE 0
        /\ \A i \in 1..(n - from + 1) : SubSeq(incoming, from, n)[i] = incoming[from + i - 1]
    <3> HIDE DEF n, from
    <3> QED  BY <2>1, <2>2, SubSeqProperties, SMTT(40)
  <2>4. \A i \in 1..size : (last - prev + 1) + i - 1 = last - prev + i
    BY <1>0, <1>1
  <2>5. /\ (IF last - prev + 1 <= n THEN n - (last - prev + 1) + 1 ELSE 0) = size
        /\ n - (last - prev + 1) + 1 = size
    BY <1>0, <1>1
  <2> HIDE DEF n, new, size
  <2> QED  BY <1>2, <2>3, <2>4, <2>5
<1> HIDE DEF new, size
<1>4. Added(kept, incoming) = [k \in 1..size |-> [new[k] EXCEPT !.index = last + k]]
  BY <1>3 DEF Added, new, last
<1>5. ASSUME NEW k \in 1..size
      PROVE  [new[k] EXCEPT !.index = last + k] = new[k] /\ new[k] \in EntryOf(P)
  <2>1. new[k] \in EntryOf(P)
    BY <1>3, ElementOfSeq
  <2>2. last - prev + k \in 1..n /\ prev + (last - prev + k) = last + k
    BY <1>0, <1>1 DEF size
  <2>3. new[k].index = last + k
    BY <1>3, <2>2 DEF NumberedFrom
  <2> QED  BY <2>1, <2>3 DEF EntryOf
<1>6. Added(kept, incoming) \in Seq(EntryOf(P)) /\ Len(Added(kept, incoming)) = size
      /\ \A i \in 1..size : Added(kept, incoming)[i] = new[i]
  <2>1. Added(kept, incoming) = [k \in 1..size |-> new[k]]
    BY <1>4, <1>5
  <2>2. Added(kept, incoming) \in [1..size -> EntryOf(P)]
    BY <1>5, <2>1
  <2> QED  BY <1>0, <1>1, <2>1, <2>2, FunctionIsSeq
<1> QED  BY <1>3, <1>6 DEF size, last

-----------------------------------------------------------------------------
(* Reading the mirror and the leader's log *)

LEMMA MirrorReads ==
  ASSUME NEW l, NEW d \in Seq(Nat \X Nat), NEW b \in Nat, MirrorOf(l, d, b)
  PROVE  /\ LastIndex(l) = IF b < Len(d) THEN Len(d) ELSE 0
         /\ LastPosition(l) = MaxOf(Len(d), b)
         /\ \A k \in Nat : TermAt(l, k) = IF k = 0 THEN 0
                                          ELSE IF k \in (b + 1)..Len(d) THEN d[k][1] ELSE -1
<1>1. /\ l \in LogOf(Nat) /\ NumberedLog(b, l) /\ Len(d) \in Nat
      /\ Len(l.entries) = IF b < Len(d) THEN Len(d) - b ELSE 0
      /\ Len(l.entries) \in Nat
  BY LenProperties, ReadType DEF MirrorOf
<1>2. /\ LastPosition(l) = b + Len(l.entries)
      /\ l.entries # << >> => LastIndex(l) = b + Len(l.entries)
      /\ l.entries = << >> => LastIndex(l) = 0 /\ Len(l.entries) = 0
      /\ \A k \in Nat : TermAt(l, k) = IF k = 0 THEN 0
                                       ELSE IF k \in (b + 1)..(b + Len(l.entries))
                                       THEN l.entries[k - b].term ELSE -1
  BY <1>1, NumberedReads
<1>3. CASE b < Len(d)
  <2>1. b + Len(l.entries) = Len(d) /\ Len(l.entries) # 0
    BY <1>1, <1>3
  <2>2. l.entries # << >>
    BY <1>2, <2>1
  <2>3. LastPosition(l) = Len(d) /\ LastIndex(l) = Len(d)
    BY <1>2, <2>1, <2>2
  <2>4. ASSUME NEW k \in (b + 1)..Len(d)
        PROVE  l.entries[k - b].term = d[k][1]
    <3>1. k - b \in 1..Len(l.entries) /\ b + (k - b) = k
      BY <1>1, <2>1
    <3>2. l.entries[k - b] = [index |-> b + (k - b), term |-> d[b + (k - b)][1], payload |-> b + (k - b)]
      BY <3>1 DEF MirrorOf
    <3> QED  BY <3>1, <3>2
  <2>5. MaxOf(Len(d), b) = Len(d)
    BY <1>1, <1>3 DEF MaxOf
  <2> QED  BY <1>2, <1>3, <2>1, <2>3, <2>4, <2>5
<1>4. CASE ~(b < Len(d))
  <2>1. Len(l.entries) = 0 /\ MaxOf(Len(d), b) = b
    BY <1>1, <1>4 DEF MaxOf
  <2>2. l.entries = << >>
    <3>1. l.entries \in Seq(EntryOf(Nat))
      BY <1>1, ReadType
    <3> QED  BY <2>1, <3>1, EmptySeq
  <2>3. LastPosition(l) = b /\ LastIndex(l) = 0
    BY <1>2, <2>1, <2>2
  <2>4. \A k \in Nat : ~(k \in (b + 1)..(b + 0)) /\ ~(k \in (b + 1)..Len(d))
    BY <1>1, <1>4
  <2> QED  BY <1>2, <1>4, <2>1, <2>3, <2>4
<1> QED  BY <1>3, <1>4

\* The entries of an append.
Incoming(prev, n) == SubSeq(leader_log, prev + 1, prev + n)

LEMMA LeaderEntry ==
  ASSUME ClusterInv, NEW k \in 1..Len(leader_log)
  PROVE  /\ leader_log[k] \in EntryOf(Nat)
         /\ leader_log[k].index = k /\ leader_log[k].payload = k
         /\ leader_log[k].term \in Nat \ {0}
         /\ leader_log[k] = [index |-> k, term |-> leader_log[k].term, payload |-> k]
         /\ TermOf(k) = leader_log[k].term
<1>1. leader_log \in Seq(EntryOf(Nat)) /\ k \in Nat \ {0} /\ Len(leader_log) \in Nat
  BY LenProperties DEF ClusterInv
<1>2. leader_log[k] \in EntryOf(Nat)
  BY <1>1, ElementOfSeq
<1>3. leader_log[k].index = k /\ leader_log[k].payload = k /\ leader_log[k].term \in Nat \ {0}
  BY DEF ClusterInv
<1> QED  BY <1>1, <1>2, <1>3 DEF EntryOf, TermOf

LEMMA IncomingShape ==
  ASSUME ClusterInv, NEW prev \in 0..Len(leader_log), NEW n \in 0..(Len(leader_log) - prev)
  PROVE  /\ Incoming(prev, n) \in Seq(EntryOf(Nat))
         /\ Len(Incoming(prev, n)) = n
         /\ \A k \in 1..n : Incoming(prev, n)[k] = leader_log[prev + k]
         /\ NumberedFrom(prev, Incoming(prev, n))
<1>1. Len(leader_log) \in Nat /\ prev \in Nat /\ n \in Nat /\ prev + n <= Len(leader_log)
  BY LenProperties DEF ClusterInv
<1>2. \A k \in (prev + 1)..(prev + n) : leader_log[k] \in EntryOf(Nat)
  <2> TAKE k \in (prev + 1)..(prev + n)
  <2>1. k \in 1..Len(leader_log)
    BY <1>1
  <2> QED  BY <2>1, LeaderEntry
<1>3. prev + 1 \in Int /\ prev + n \in Int
  BY <1>1
<1>4. /\ Incoming(prev, n) \in Seq(EntryOf(Nat))
      /\ Len(Incoming(prev, n)) = IF prev + 1 <= prev + n THEN prev + n - (prev + 1) + 1 ELSE 0
      /\ \A k \in 1..(prev + n - (prev + 1) + 1) : Incoming(prev, n)[k] = leader_log[prev + 1 + k - 1]
  BY <1>2, <1>3, SubSeqProperties DEF Incoming
<1>5. /\ prev + n - (prev + 1) + 1 = n
      /\ (IF prev + 1 <= prev + n THEN prev + n - (prev + 1) + 1 ELSE 0) = n
      /\ \A k \in 1..n : prev + 1 + k - 1 = prev + k /\ prev + k \in 1..Len(leader_log)
  BY <1>1
<1>6. /\ Len(Incoming(prev, n)) = n
      /\ \A k \in 1..n : Incoming(prev, n)[k] = leader_log[prev + k]
  BY <1>4, <1>5
<1>7. NumberedFrom(prev, Incoming(prev, n))
  BY <1>5, <1>6, LeaderEntry DEF NumberedFrom
<1> QED  BY <1>4, <1>6, <1>7

LEMMA DiskFields ==
  ASSUME DiskInv
  PROVE  /\ disk \in Seq(Nat \X Nat) /\ Len(disk) \in Nat
         /\ \A k \in 1..Len(disk) : disk[k] \in Nat \X Nat /\ disk[k][1] \in Nat /\ disk[k] = <<disk[k][1], k>>
<1>1. disk \in Seq(Nat \X Nat) /\ Len(disk) \in Nat
  BY LenProperties DEF DiskInv
<1>2. \A k \in 1..Len(disk) : disk[k] \in Nat \X Nat
  BY <1>1, ElementOfSeq
<1> QED  BY <1>1, <1>2 DEF DiskInv

-----------------------------------------------------------------------------
(* merge *)

DurablyMerged(l, prev, incoming, k) ==
  LET kept == KeepBelow(l.entries, prev + k)
      added == Added(kept, incoming)
  IN  /\ kept \o added = KeptEntries(l, prev, k) \o Renumbered(prev, incoming, k)
      /\ Len(added) = Len(incoming) - k + 1
      /\ \A i \in 1..(Len(incoming) - k + 1) : added[i] = incoming[k - 1 + i]

\* The entries that the durable merge leaves, when it writes from the k-th entry
\* of the append on: those of the merge in memory.
LEMMA DurableEntries ==
  ASSUME NEW P, NEW l \in LogOf(P), NEW b \in Nat, NumberedLog(b, l),
         NEW prev \in Nat, b = 0 \/ prev > b, prev <= b + Len(l.entries),
         NEW incoming \in Seq(EntryOf(P)), NumberedFrom(prev, incoming),
         NEW k \in 1..Len(incoming),
         AgreesBefore(l, prev, incoming, k)
  PROVE  DurablyMerged(l, prev, incoming, k)
<1> DEFINE kept == KeepBelow(l.entries, prev + k)
           added == Added(kept, incoming)
           n == Len(incoming)
           size == Len(l.entries)
           new == KeptEntries(l, prev, k) \o Renumbered(prev, incoming, k)
           cut == prev + k
<1>1. /\ l.entries \in Seq(EntryOf(P)) /\ size \in Nat /\ n \in Nat /\ k \in Nat \ {0} /\ k <= n
      /\ prev >= b /\ cut \in Nat
  BY ReadType, LenProperties
<1>2. NumberedFrom(b, l.entries)
  BY DEF NumberedLog
<1>3. /\ cut <= b + size + 1
      /\ new \in Seq(EntryOf(P))
      /\ Len(new) = prev + n - b
      /\ \A j \in 1..Len(new) :
           new[j] = IF b + j < cut THEN l.entries[j] ELSE incoming[b + j - prev]
      /\ KeptEntries(l, prev, k) = SubSeq(l.entries, 1, cut - 1 - b)
  <2>1. new \in Seq(EntryOf(P)) /\ MergedFrom(l, b, prev, incoming, k, new)
    BY <1>1, MergeNumbered
  <2> HIDE DEF new
  <2> QED  BY <2>1 DEF MergedFrom
<1>4. kept = SubSeq(l.entries, 1, cut - b - 1)
  <2>1. b < cut /\ cut \in Int
    BY <1>1
  <2> QED  BY <1>1, <1>2, <1>3, <2>1, KeepBelowNumbered
<1>5. /\ kept \in Seq(EntryOf(P)) /\ Len(kept) = cut - b - 1
      /\ \A j \in 1..(cut - b - 1) : kept[j] = l.entries[j]
  <2>1. \A j \in 1..(cut - b - 1) : l.entries[j] \in EntryOf(P)
    <3> TAKE j \in 1..(cut - b - 1)
    <3>1. j \in 1..size
      BY <1>1, <1>3
    <3> QED  BY <1>1, <3>1, ElementOfSeq
  <2>2. cut - b - 1 \in Nat
    BY <1>1
  <2> HIDE DEF cut, kept
  <2> QED  BY <1>4, <2>1, <2>2, SubSeqProperties
<1> DEFINE last == LastIndex([entries |-> kept])
<1>6. last - (cut - 1) = 0 /\ last \in Nat
  <2>1. CASE kept = << >>
    <3>1. Len(kept) = 0 /\ last = 0
      BY <2>1, EmptySeq DEF LastIndex
    <3>2. cut - b - 1 = 0
      BY <1>5, <3>1
    <3>3. b = 0
      BY <1>1, <3>2
    <3> HIDE DEF last
    <3> QED  BY <1>1, <3>1, <3>2, <3>3
  <2>2. CASE kept # << >>
    <3> HIDE DEF kept
    <3>1. last = kept[Len(kept)].index
      BY <2>2 DEF LastIndex
    <3>2. cut - b - 1 \in 1..(cut - b - 1) /\ cut - b - 1 \in 1..size
      <4>1. Len(kept) # 0
        BY <1>5, <2>2, EmptySeq
      <4> HIDE DEF cut
      <4> QED  BY <1>1, <1>3, <1>5, <4>1
    <3>3. kept[Len(kept)] = l.entries[cut - b - 1]
      BY <1>5, <3>2
    <3>4. l.entries[cut - b - 1].index = b + (cut - b - 1)
      BY <1>2, <3>2 DEF NumberedFrom
    <3> HIDE DEF last, cut
    <3>5. last = b + (cut - b - 1)
      BY <3>1, <3>3, <3>4
    <3> QED  BY <1>1, <3>2, <3>5
  <2> QED  BY <2>1, <2>2
<1>7. /\ added \in Seq(EntryOf(P)) /\ Len(added) = n - k + 1
      /\ \A i \in 1..(n - k + 1) : added[i] = incoming[k - 1 + i]
  <2>1. cut - 1 \in Nat /\ prev <= cut - 1 /\ cut - 1 <= prev + n
    BY <1>1
  <2>2. /\ added \in Seq(EntryOf(P))
        /\ Len(added) = prev + n - (cut - 1)
        /\ \A i \in 1..(prev + n - (cut - 1)) : added[i] = incoming[(cut - 1) - prev + i]
    <3>1. last = cut - 1
      <4> HIDE DEF last, cut
      <4> QED  BY <1>6, <2>1
    <3>2. kept \in Seq(EntryOf(P)) /\ last \in Nat /\ prev <= last /\ last <= prev + n
      <4> HIDE DEF last, cut, kept
      <4> QED  BY <1>5, <2>1, <3>1
    <3> HIDE DEF kept
    <3>3. /\ added \in Seq(EntryOf(P)) /\ Len(added) = prev + n - last
          /\ \A i \in 1..(prev + n - last) : added[i] = incoming[last - prev + i]
      BY <3>2, AddedNumbered, SMTT(40)
    <3> HIDE DEF last, cut, added
    <3> QED  BY <3>1, <3>3
  <2>3. prev + n - (cut - 1) = n - k + 1 /\ \A i \in 1..(n - k + 1) : (cut - 1) - prev + i = k - 1 + i
    BY <1>1
  <2> HIDE DEF added, cut
  <2> QED  BY <2>2, <2>3
<1>8. kept \o added = new
  <2> DEFINE both == kept \o added
  <2>0. Len(kept) + Len(added) = prev + n - b
    <3>1. Len(kept) = cut - b - 1 /\ Len(added) = n - k + 1
      BY <1>5, <1>7
    <3> HIDE DEF kept, added
    <3> QED  BY <1>1, <3>1
  <2>1. /\ both \in Seq(EntryOf(P)) /\ Len(both) = Len(kept) + Len(added)
        /\ \A j \in 1..(Len(kept) + Len(added)) :
             both[j] = IF j <= Len(kept) THEN kept[j] ELSE added[j - Len(kept)]
    <3> HIDE DEF kept, added
    <3>1. kept \in Seq(EntryOf(P)) /\ added \in Seq(EntryOf(P))
      BY <1>5, <1>7
    <3> QED  BY ONLY <3>1, ConcatProperties
  <2>2. ASSUME NEW j \in 1..(prev + n - b)
        PROVE  both[j] = new[j]
    <3> HIDE DEF both, new, kept, added
    <3>1. CASE b + j < cut
      <4>1. j <= Len(kept) /\ j \in 1..(cut - b - 1)
        BY <1>1, <1>5, <3>1
      <4> QED  BY <1>3, <1>5, <2>0, <2>1, <3>1, <4>1
    <3>2. CASE ~(b + j < cut)
      <4>1. /\ ~(j <= Len(kept)) /\ j - Len(kept) \in 1..(n - k + 1)
            /\ k - 1 + (j - Len(kept)) = b + j - prev
        <5>1. Len(kept) = cut - b - 1
          BY <1>5
        <5> QED  BY <1>1, <3>2, <5>1
      <4> QED  BY <1>3, <1>7, <2>0, <2>1, <3>2, <4>1
    <3> QED  BY <3>1, <3>2
  <2> HIDE DEF both, new
  <2>3. both = new
    BY <1>3, <2>0, <2>1, <2>2, SeqEqual
  <2> QED  BY <2>3 DEF both
<1> HIDE DEF new
<1> QED  BY <1>7, <1>8 DEF DurablyMerged, new

\* Where nothing is below cut, nothing is kept; where nothing is above the last
\* index, nothing is added.
LEMMA KeepBelowNone ==
  ASSUME NEW P, NEW entries \in Seq(EntryOf(P)), NEW b \in Nat, NumberedFrom(b, entries),
         NEW cut \in Nat, cut <= b + 1
  PROVE  KeepBelow(entries, cut) = << >>
<1> DEFINE n == Len(entries)
           S == {k \in 1..n : entries[k].index >= cut}
<1>1. n \in Nat
  BY LenProperties
<1>2. S = 1..n
  <2>1. \A k \in 1..n : entries[k].index = b + k
    BY DEF NumberedFrom
  <2>2. \A k \in 1..n : b + k >= cut
    BY <1>1
  <2> QED  BY <2>1, <2>2
<1>3. Least(S, n + 1) = 1
  <2>1. CASE n = 0
    <3>1. S = {}
      BY <1>2, <2>1
    <3>2. n + 1 = 1
      BY <2>1
    <3> HIDE DEF S, n
    <3> QED  BY <3>1, <3>2, LeastOfEmpty
  <2>2. CASE n # 0
    <3>1. 1 \in S /\ S \subseteq Int /\ \A y \in S : 1 <= y
      <4> HIDE DEF S
      <4> QED  BY <1>1, <1>2, <2>2
    <3> HIDE DEF S
    <3> QED  BY <3>1, LeastIs
  <2> QED  BY <2>1, <2>2
<1>4. KeepBelow(entries, cut) = SubSeq(entries, 1, Least(S, n + 1) - 1)
  BY DEF KeepBelow
<1>5. KeepBelow(entries, cut) = SubSeq(entries, 1, 0)
  <2> HIDE DEF S
  <2> QED  BY <1>3, <1>4
<1> QED  BY <1>5, SubSeqEmpty

LEMMA AddedNothing ==
  ASSUME NEW P, NEW kept, NEW incoming \in Seq(EntryOf(P)),
         NEW prev \in Nat, NumberedFrom(prev, incoming),
         LastIndex([entries |-> kept]) \in Nat,
         prev + Len(incoming) <= LastIndex([entries |-> kept])
  PROVE  Added(kept, incoming) = << >>
<1> DEFINE last == LastIndex([entries |-> kept])
           n == Len(incoming)
           S == {k \in 1..n : incoming[k].index > last}
           new == DropThrough(incoming, last)
<1>1. n \in Nat /\ last \in Nat /\ prev + n <= last
  BY LenProperties
<1>2. S = {}
  <2> HIDE DEF last
  <2>1. \A k \in 1..n : incoming[k].index = prev + k
    BY DEF NumberedFrom
  <2>2. \A k \in 1..n : ~(prev + k > last)
    BY <1>1
  <2> QED  BY <2>1, <2>2
<1>3. new = SubSeq(incoming, Least(S, n + 1), n)
  BY DEF DropThrough
<1>4. new = SubSeq(incoming, n + 1, n)
  <2> HIDE DEF S, new
  <2> QED  BY <1>2, <1>3, LeastOfEmpty
<1>5. Len(new) = 0
  <2>1. \A i \in (n + 1)..n : incoming[i] \in EntryOf(P)
    BY <1>1
  <2>2. Len(SubSeq(incoming, n + 1, n)) = IF n + 1 <= n THEN n - (n + 1) + 1 ELSE 0
    <3>1. n + 1 \in Int /\ n \in Int
      BY <1>1
    <3> HIDE DEF n
    <3> QED  BY <2>1, <3>1, SubSeqProperties
  <2> HIDE DEF n, new
  <2> QED  BY <1>1, <1>4, <2>2
<1>6. Added(kept, incoming) = [k \in 1..Len(new) |-> [new[k] EXCEPT !.index = last + k]]
  BY DEF Added
<1>7. Added(kept, incoming) = [k \in 1..0 |-> [new[k] EXCEPT !.index = last + k]]
  <2> HIDE DEF new, last
  <2> QED  BY <1>5, <1>6
<1>8. 1..0 = {}
  OBVIOUS
<1> HIDE DEF new, last
<1>9. Added(kept, incoming) \in [1..0 -> EntryOf(P)]
  BY <1>7, <1>8
<1>10. Added(kept, incoming) \in Seq(EntryOf(P)) /\ Len(Added(kept, incoming)) = 0
  BY <1>9, FunctionIsSeq
<1> QED  BY <1>10, EmptySeq

MergeOf(prev, n) == DurableMerge(log, prev, TermOf(prev), Incoming(prev, n))

\* The disk d holds the first entries of the leader's log.
LeaderPrefix(d) ==
  /\ d \in Seq(Nat \X Nat) /\ Len(d) <= Len(leader_log)
  /\ \A k \in 1..Len(d) : d[k] = <<leader_log[k].term, k>>

\* The records of the disk below cut.
KeptDisk(cut) == SubSeq(disk, 1, cut - 1)

\* The merges of a sound log: one that is refused, one that finds every entry, one
\* that rewrites the log from cut on.
Refuses(m) ==
  ~m.ok /\ m.match = 0 /\ m.log = log /\ m.cut = 0 /\ m.batch = << >>

FindsAll(m, prev, n) ==
  /\ m.ok /\ m.match = prev + n
  /\ m.log = log /\ m.cut = 0 /\ m.batch = << >>
  /\ \A j \in 1..(prev + n) : Same(j)

Rewrites(m, prev, n, cut) ==
  /\ m.ok /\ m.match = prev + n /\ m.cut = cut
  /\ cut <= Len(disk) + 1 /\ log.snapshot_last_index < cut
  /\ \A j \in 1..(cut - 1) : Same(j)
  /\ ~Same(cut)
  /\ m.log.snapshot_last_index = log.snapshot_last_index
  /\ MirrorOf(m.log, KeptDisk(cut) \o m.batch, log.snapshot_last_index)
  /\ m.batch \in Seq(Nat \X Nat) /\ Len(KeptDisk(cut)) = cut - 1
  /\ LeaderPrefix(KeptDisk(cut) \o m.batch) /\ Len(KeptDisk(cut) \o m.batch) = prev + n
  /\ \A w \in 0..Len(m.batch) :
       /\ LeaderPrefix(KeptDisk(cut) \o SubSeq(m.batch, 1, w))
       /\ Len(KeptDisk(cut) \o SubSeq(m.batch, 1, w)) = cut - 1 + w

\* The log that the merge in memory would write.
WrittenInMemory(prev, n) ==
  LET k == InsertAt(log, prev, Incoming(prev, n))
  IN  [log EXCEPT !.entries =
         KeptEntries(log, prev, k) \o Renumbered(prev, Incoming(prev, n), k)]

\* What the mirror says of the disk below an append that passes the check.
LEMMA CheckPassed ==
  ASSUME ClusterInv, DiskInv, MirrorInv,
         NEW prev \in 0..Len(leader_log), prev <= LastIndex(log), TermAt(log, prev) = TermOf(prev)
  PROVE  /\ prev = 0 \/ prev > log.snapshot_last_index
         /\ \A j \in 1..prev : Same(j)
<1> DEFINE b == log.snapshot_last_index
<1>1. b \in Nat /\ MirrorOf(log, disk, b)
  BY DEF MirrorInv, MirrorOf, LogOf
<1>2. Len(leader_log) \in Nat /\ prev \in Nat /\ disk \in Seq(Nat \X Nat) /\ Len(disk) \in Nat
  BY DiskFields, LenProperties DEF ClusterInv
<1>3. prev <= Len(disk)
  <2>1. LastIndex(log) = IF b < Len(disk) THEN Len(disk) ELSE 0
    BY <1>1, <1>2, MirrorReads
  <2> QED  BY <1>1, <1>2, <2>1
<1>4. CASE prev # 0
  <2>1. prev \in 1..Len(leader_log)
    BY <1>2, <1>4
  <2>2. TermOf(prev) = leader_log[prev].term /\ leader_log[prev].term \in Nat
    BY <2>1, LeaderEntry
  <2>3. TermAt(log, prev) = IF prev \in (b + 1)..Len(disk) THEN disk[prev][1] ELSE -1
    BY <1>1, <1>2, <1>4, MirrorReads
  <2>4. prev \in (b + 1)..Len(disk)
    <3>1. ~(prev \in (b + 1)..Len(disk)) => leader_log[prev].term = -1
      BY <2>2, <2>3
    <3> QED  BY <2>2, <3>1
  <2>5. Same(prev)
    BY <1>2, <1>3, <2>2, <2>3, <2>4 DEF Same
  <2>6. prev \in 1..Len(disk)
    BY <1>2, <1>3, <2>1
  <2> QED  BY <1>1, <1>2, <2>4, <2>5, <2>6 DEF DiskInv
<1>5. CASE prev = 0
  BY <1>5
<1> QED  BY <1>4, <1>5

\* Comparing terms through the mirror compares the disk with the leader's log.
LEMMA CompareIsSame ==
  ASSUME ClusterInv, DiskInv, MirrorInv, NEW k \in 1..Len(leader_log)
  PROVE  /\ TermAt(log, k) = leader_log[k].term => Same(k) /\ k <= Len(disk) /\ k <= LastIndex(log)
         /\ k > log.snapshot_last_index /\ Same(k) => TermAt(log, k) = leader_log[k].term
<1> DEFINE b == log.snapshot_last_index
<1>1. b \in Nat /\ MirrorOf(log, disk, b)
  BY DEF MirrorInv, MirrorOf, LogOf
<1>2. Len(leader_log) \in Nat /\ k \in Nat /\ k # 0 /\ disk \in Seq(Nat \X Nat) /\ Len(disk) \in Nat
  BY DiskFields, LenProperties DEF ClusterInv
<1>3. TermAt(log, k) = IF k \in (b + 1)..Len(disk) THEN disk[k][1] ELSE -1
  BY <1>1, <1>2, MirrorReads
<1>4. leader_log[k].term \in Nat
  BY LeaderEntry
<1>5. ASSUME TermAt(log, k) = leader_log[k].term
      PROVE  Same(k) /\ k <= Len(disk) /\ k <= LastIndex(log)
  <2>1. ~(k \in (b + 1)..Len(disk)) => leader_log[k].term = -1
    BY <1>3, <1>5
  <2>2. k \in (b + 1)..Len(disk)
    BY <1>4, <2>1
  <2>3. LastIndex(log) = IF b < Len(disk) THEN Len(disk) ELSE 0
    BY <1>1, <1>2, MirrorReads
  <2>4. b < Len(disk)
    BY <1>1, <1>2, <2>2
  <2> QED  BY <1>1, <1>2, <1>3, <1>5, <2>2, <2>3, <2>4 DEF Same
<1>6. ASSUME k > b, Same(k)
      PROVE  TermAt(log, k) = leader_log[k].term
  <2>1. k \in (b + 1)..Len(disk)
    BY <1>1, <1>2, <1>6 DEF Same
  <2> QED  BY <1>3, <1>6, <2>1 DEF Same
<1> QED  BY <1>5, <1>6

LEMMA PrefixExtends ==
  ASSUME ClusterInv, NEW t, LeaderPrefix(t), NEW batch \in Seq(Nat \X Nat),
         Len(t) + Len(batch) <= Len(leader_log),
         \A i \in 1..Len(batch) : batch[i] = <<leader_log[Len(t) + i].term, Len(t) + i>>
  PROVE  LeaderPrefix(t \o batch) /\ Len(t \o batch) = Len(t) + Len(batch)
<1>1. /\ t \in Seq(Nat \X Nat) /\ batch \in Seq(Nat \X Nat)
      /\ Len(t) \in Nat /\ Len(batch) \in Nat
  BY LenProperties DEF LeaderPrefix
<1> DEFINE d == t \o batch
<1>2. /\ d \in Seq(Nat \X Nat) /\ Len(d) = Len(t) + Len(batch)
      /\ \A j \in 1..(Len(t) + Len(batch)) :
           d[j] = IF j <= Len(t) THEN t[j] ELSE batch[j - Len(t)]
  BY ONLY <1>1, ConcatProperties
<1> HIDE DEF d
<1>3. ASSUME NEW j \in 1..(Len(t) + Len(batch))
      PROVE  d[j] = <<leader_log[j].term, j>>
  <2>1. CASE j <= Len(t)
    <3>1. j \in 1..Len(t)
      BY <1>1, <2>1
    <3> QED  BY <1>2, <2>1, <3>1 DEF LeaderPrefix
  <2>2. CASE ~(j <= Len(t))
    <3>1. j - Len(t) \in 1..Len(batch) /\ Len(t) + (j - Len(t)) = j
      BY <1>1, <2>2
    <3>2. batch[j - Len(t)] = <<leader_log[j].term, j>>
      BY <3>1
    <3> QED  BY <1>2, <2>2, <3>2
  <2> QED  BY <2>1, <2>2
<1>4. LeaderPrefix(d) /\ Len(d) = Len(t) + Len(batch)
  BY <1>1, <1>2, <1>3 DEF LeaderPrefix
<1> QED  BY <1>4 DEF d

\* A crash in append_many leaves a prefix of the leader's log as well.
LEMMA WrittenPrefix ==
  ASSUME ClusterInv, NEW t, LeaderPrefix(t), NEW batch \in Seq(Nat \X Nat),
         Len(t) + Len(batch) <= Len(leader_log),
         \A i \in 1..Len(batch) : batch[i] = <<leader_log[Len(t) + i].term, Len(t) + i>>,
         NEW n \in 0..Len(batch)
  PROVE  /\ LeaderPrefix(t \o SubSeq(batch, 1, n))
         /\ Len(t \o SubSeq(batch, 1, n)) = Len(t) + n
<1>1. t \in Seq(Nat \X Nat) /\ Len(t) \in Nat /\ Len(batch) \in Nat /\ Len(leader_log) \in Nat
  BY LenProperties DEF LeaderPrefix, ClusterInv
<1> DEFINE part == SubSeq(batch, 1, n)
<1>3. /\ part \in Seq(Nat \X Nat) /\ Len(part) = n
      /\ \A i \in 1..n : part[i] = batch[i]
  <2>1. \A i \in 1..n : batch[i] \in Nat \X Nat
    <3> TAKE i \in 1..n
    <3>1. i \in 1..Len(batch)
      BY <1>1
    <3> QED  BY <3>1, ElementOfSeq
  <2> QED  BY <1>1, <2>1, SubSeqProperties, SMTT(40)
<1> HIDE DEF part
<1>4. /\ Len(t) + Len(part) <= Len(leader_log)
      /\ \A i \in 1..Len(part) : part[i] = <<leader_log[Len(t) + i].term, Len(t) + i>>
  <2>1. Len(t) + n <= Len(leader_log) /\ \A i \in 1..n : i \in 1..Len(batch)
    BY <1>1
  <2>2. \A i \in 1..n : part[i] = <<leader_log[Len(t) + i].term, Len(t) + i>>
    BY <1>3, <2>1
  <2> QED  BY <1>3, <2>1, <2>2
<1>5. LeaderPrefix(t \o part) /\ Len(t \o part) = Len(t) + Len(part)
  BY <1>1, <1>3, <1>4, PrefixExtends
<1> QED  BY <1>3, <1>5 DEF part

\* An append whose entries are all there changes nothing.
LEMMA MergeFindsAll ==
  ASSUME ClusterInv, DiskInv, MirrorInv,
         NEW prev \in 0..Len(leader_log), NEW n \in 0..(Len(leader_log) - prev),
         prev <= LastIndex(log), TermAt(log, prev) = TermOf(prev),
         InsertAt(log, prev, Incoming(prev, n)) = 0
  PROVE  FindsAll(MergeOf(prev, n), prev, n)
<1> DEFINE inc == Incoming(prev, n)
           b == log.snapshot_last_index
<1>1. /\ Len(leader_log) \in Nat /\ prev \in Nat /\ n \in Nat /\ prev + n <= Len(leader_log)
      /\ disk \in Seq(Nat \X Nat) /\ Len(disk) \in Nat
  BY DiskFields, LenProperties DEF ClusterInv
<1>2. /\ b \in Nat /\ MirrorOf(log, disk, b) /\ log \in LogOf(Nat) /\ log.entries \in Seq(EntryOf(Nat))
  BY DEF MirrorInv, MirrorOf, LogOf
<1>3. /\ inc \in Seq(EntryOf(Nat)) /\ Len(inc) = n /\ NumberedFrom(prev, inc)
      /\ \A k \in 1..n : inc[k] = leader_log[prev + k]
  BY IncomingShape
<1>4. LastIndex(log) \in Nat
  BY <1>2, ReadType
<1>5. \A j \in 1..n : TermAt(log, prev + j) = inc[j].term
  <2> HIDE DEF inc
  <2>1. Len(inc) \in Nat /\ ~(0 \in 1..Len(inc))
    BY <1>1, <1>3
  <2>2. FirstMissing(log, prev, inc, InsertAt(log, prev, inc))
    BY <1>1, <2>1, InsertAtFirst
  <2>3. InsertAt(log, prev, inc) = 0
    BY DEF inc
  <2> QED  BY <1>3, <2>1, <2>2, <2>3 DEF FirstMissing
<1> HIDE DEF inc
<1>6. ASSUME NEW j \in 1..n
      PROVE  Same(prev + j) /\ prev + j <= LastIndex(log)
  <2>1. prev + j \in 1..Len(leader_log)
    BY <1>1
  <2>2. TermAt(log, prev + j) = leader_log[prev + j].term
    BY <1>3, <1>5
  <2> QED  BY <2>1, <2>2, CompareIsSame
<1>7. prev + n <= LastIndex(log)
  <2>1. CASE n = 0
    BY <1>1, <1>4, <2>1
  <2>2. CASE n # 0
    <3>1. n \in 1..n
      BY <1>1, <2>2
    <3> QED  BY <1>6, <3>1
  <2> QED  BY <2>1, <2>2
<1>8. \A j \in 1..(prev + n) : Same(j)
  <2> TAKE j \in 1..(prev + n)
  <2>1. CASE j <= prev
    <3>1. j \in 1..prev
      BY <1>1, <2>1
    <3> QED  BY <3>1, CheckPassed
  <2>2. CASE j > prev
    <3>1. j - prev \in 1..n /\ prev + (j - prev) = j
      BY <1>1, <2>2
    <3>2. Same(prev + (j - prev))
      BY <1>6, <3>1
    <3> QED  BY <3>1, <3>2
  <2> QED  BY <1>1, <2>1, <2>2
<1> DEFINE kept == log.entries
<1>9. LastIndex([entries |-> kept]) = LastIndex(log)
  BY DEF LastIndex
<1>10. Added(kept, inc) = << >>
  <2>1. LastIndex([entries |-> kept]) \in Nat /\ prev + Len(inc) <= LastIndex([entries |-> kept])
    BY <1>1, <1>3, <1>4, <1>7, <1>9
  <2> QED  BY <1>1, <1>3, <2>1, AddedNothing
<1>11. Records(Added(kept, inc)) = << >>
  <2>1. Records(<< >>) = [k \in 1..0 |-> Record(<< >>[k])]
    BY EmptySeq DEF Records
  <2>2. 1..0 = {}
    OBVIOUS
  <2>3. Records(<< >>) \in [1..0 -> Nat]
    BY <2>1, <2>2
  <2>4. Records(<< >>) \in Seq(Nat) /\ Len(Records(<< >>)) = 0
    BY <2>3, FunctionIsSeq
  <2>5. Records(<< >>) = << >>
    BY <2>4, EmptySeq
  <2> QED  BY <1>10, <2>5
<1>12. kept \o Added(kept, inc) = log.entries
  BY <1>2, <1>10, ConcatEmptySeq
<1>13. [log EXCEPT !.entries = log.entries] = log
  BY <1>2 DEF LogOf
<1> DEFINE m == DurableMerge(log, prev, TermOf(prev), inc)
<1>14. /\ m.ok /\ m.match = prev + Len(inc) /\ m.cut = 0
       /\ m.log = [log EXCEPT !.entries = kept \o Added(kept, inc)]
       /\ m.batch = Records(Added(kept, inc))
  <2>1. ~(prev > LastIndex(log)) /\ Cut(log, prev, inc) = 0
    BY <1>1, <1>4 DEF Cut, inc
  <2> QED  BY <2>1 DEF DurableMerge
<1> QED  BY <1>3, <1>8, <1>11, <1>12, <1>13, <1>14 DEF FindsAll, MergeOf, inc

\* An append whose previous entry is missing or differs changes nothing.
LEMMA MergeRefuses ==
  ASSUME NEW prev \in Nat, NEW n \in Nat, LastIndex(log) \in Nat,
         prev > LastIndex(log) \/ TermAt(log, prev) # TermOf(prev)
  PROVE  Refuses(MergeOf(prev, n))
BY DEF Refuses, MergeOf, DurableMerge

\* An append from the sentinel on that a snapshot has overtaken is noted.
LEMMA MergeOvertaken ==
  ASSUME ClusterInv, DiskInv, MirrorInv,
         NEW prev \in 0..Len(leader_log), NEW n \in 0..(Len(leader_log) - prev),
         prev <= 0, TermAt(log, prev) = TermOf(prev), log.snapshot_last_index > 0,
         InsertAt(log, prev, Incoming(prev, n)) # 0
  PROVE  Overtaken(MergeOf(prev, n), prev)
<1> DEFINE inc == Incoming(prev, n)
           b == log.snapshot_last_index
           k == InsertAt(log, prev, inc)
<1>1. /\ Len(leader_log) \in Nat /\ n \in Nat /\ prev \in Nat /\ prev + n <= Len(leader_log)
      /\ disk \in Seq(Nat \X Nat) /\ Len(disk) \in Nat
  BY DiskFields, LenProperties DEF ClusterInv
<1>2. /\ b \in Nat /\ MirrorOf(log, disk, b) /\ log \in LogOf(Nat) /\ log.entries \in Seq(EntryOf(Nat))
      /\ NumberedFrom(b, log.entries) /\ log.first_index - 1 = b
  BY DEF MirrorInv, MirrorOf, LogOf, NumberedLog
<1>3. /\ inc \in Seq(EntryOf(Nat)) /\ Len(inc) = n /\ NumberedFrom(prev, inc)
      /\ \A j \in 1..n : inc[j] = leader_log[prev + j]
  BY IncomingShape
<1> HIDE DEF inc
<1>4. k \in 1..n /\ \A j \in 1..(k - 1) : TermAt(log, prev + j) = inc[j].term
  <2>1. Len(inc) \in Nat
    BY <1>1, <1>3
  <2>2. k # 0
    BY DEF inc
  <2>3. FirstMissing(log, prev, inc, k)
    BY <1>1, <2>1, InsertAtFirst
  <2> HIDE DEF k
  <2> QED  BY <1>3, <2>2, <2>3 DEF FirstMissing
<1>5. k = 1
  <2> HIDE DEF k
  <2>1. SUFFICES ASSUME k # 1
                 PROVE  FALSE
    OBVIOUS
  <2>2. 1 \in 1..(k - 1) /\ 1 \in 1..n /\ prev + 1 \in 1..Len(leader_log)
    BY <1>1, <1>4, <2>1
  <2>3. TermAt(log, prev + 1) = leader_log[prev + 1].term
    BY <1>3, <1>4, <2>2
  <2>4. TermAt(log, prev + 1) =
          IF prev + 1 \in (b + 1)..Len(disk) THEN disk[prev + 1][1] ELSE -1
    <3>1. prev + 1 \in Nat /\ prev + 1 # 0
      BY <1>1
    <3>2. \A x \in Nat : TermAt(log, x) = IF x = 0 THEN 0
                                           ELSE IF x \in (b + 1)..Len(disk) THEN disk[x][1] ELSE -1
      BY <1>1, <1>2, MirrorReads
    <3> QED  BY <3>1, <3>2
  <2>5. ~(prev + 1 \in (b + 1)..Len(disk))
    BY <1>1, <1>2
  <2>6. leader_log[prev + 1].term = -1
    BY <2>3, <2>4, <2>5
  <2>7. leader_log[prev + 1].term \in Nat
    BY <2>2, LeaderEntry
  <2> QED  BY <2>6, <2>7
<1>6. KeepBelow(log.entries, prev + 1) = << >>
  <2>1. prev + 1 <= b + 1 /\ prev + 1 \in Nat
    BY <1>1, <1>2
  <2> QED  BY <1>2, <2>1, KeepBelowNone
<1>7. LastIndex([entries |-> << >>]) = 0
  BY DEF LastIndex
<1>8. Len(Added(<< >>, inc)) = n
  <2> DEFINE last == LastIndex([entries |-> << >>])
  <2>1. last \in Nat /\ prev <= last /\ last <= prev + Len(inc)
    BY <1>1, <1>3, <1>7
  <2>2. << >> \in Seq(EntryOf(Nat))
    BY EmptySeq
  <2>3. Len(Added(<< >>, inc)) = prev + Len(inc) - last
    BY <1>1, <1>3, <2>1, <2>2, AddedNumbered
  <2> HIDE DEF last
  <2>4. prev + Len(inc) - last = n
    BY <1>1, <1>3, <1>7 DEF last
  <2> QED  BY <2>3, <2>4
<1> DEFINE m == DurableMerge(log, prev, TermOf(prev), inc)
           batch == Records(Added(<< >>, inc))
<1>9. m.ok /\ m.batch = batch
  <2>1. Cut(log, prev, inc) = prev + 1
    <3> HIDE DEF k
    <3>1. k # 0 /\ prev + k = prev + 1
      BY <1>5
    <3> QED  BY <3>1 DEF Cut, k
  <2>2. ~(prev > LastIndex(log)) /\ prev + 1 # 0
    BY <1>1, <1>2, ReadType
  <2> QED  BY <1>6, <2>1, <2>2 DEF DurableMerge
<1>10. batch # << >>
  <2>1. SUFFICES ASSUME batch = << >>
                 PROVE  FALSE
    OBVIOUS
  <2>2. batch = [i \in 1..Len(Added(<< >>, inc)) |-> Record(Added(<< >>, inc)[i])]
    BY DEF Records
  <2>3. batch = [i \in 1..n |-> Record(Added(<< >>, inc)[i])]
    BY <1>8, <2>2
  <2> HIDE DEF batch
  <2>4. DOMAIN batch = 1..n
    BY <2>3
  <2>5. DOMAIN << >> = {}
    OBVIOUS
  <2>6. 1 \in 1..n
    BY <1>1, <1>4
  <2> QED  BY <2>1, <2>4, <2>5, <2>6
<1>11. prev < log.first_index - 1
  BY <1>1, <1>2
<1> QED  BY <1>9, <1>10, <1>11 DEF Overtaken, MergeOf, inc

\* An append with an entry that is missing or differs rewrites the log from there.
LEMMA MergeRewrites ==
  ASSUME ClusterInv, DiskInv, MirrorInv,
         NEW prev \in 0..Len(leader_log), NEW n \in 0..(Len(leader_log) - prev),
         prev <= LastIndex(log), TermAt(log, prev) = TermOf(prev),
         log.snapshot_last_index = 0 \/ prev > log.snapshot_last_index,
         InsertAt(log, prev, Incoming(prev, n)) # 0
  PROVE  /\ \E cut \in (prev + 1)..(prev + n) : Rewrites(MergeOf(prev, n), prev, n, cut)
         /\ MergeOf(prev, n).log = WrittenInMemory(prev, n)
<1> DEFINE inc == Incoming(prev, n)
           b == log.snapshot_last_index
           k == InsertAt(log, prev, inc)
           cut == prev + k
           kept == KeepBelow(log.entries, cut)
           added == Added(kept, inc)
           m == DurableMerge(log, prev, TermOf(prev), inc)
<1>1. /\ Len(leader_log) \in Nat /\ prev \in Nat /\ n \in Nat /\ prev + n <= Len(leader_log)
      /\ disk \in Seq(Nat \X Nat) /\ Len(disk) \in Nat
      /\ leader_log \in Seq(EntryOf(Nat))
  BY DiskFields, LenProperties DEF ClusterInv
<1>2. /\ b \in Nat /\ MirrorOf(log, disk, b) /\ log \in LogOf(Nat) /\ log.entries \in Seq(EntryOf(Nat))
      /\ NumberedLog(b, log)
      /\ Len(log.entries) + b - Len(disk) = 0 /\ Len(log.entries) \in Nat
      /\ LastIndex(log) = Len(disk)
  <2>1. /\ b \in Nat /\ MirrorOf(log, disk, b) /\ log \in LogOf(Nat)
        /\ log.entries \in Seq(EntryOf(Nat)) /\ NumberedLog(b, log)
        /\ Len(log.entries) = (IF b < Len(disk) THEN Len(disk) - b ELSE 0)
        /\ Len(log.entries) \in Nat
    BY ReadType DEF MirrorInv, MirrorOf, LogOf
  <2>2. LastIndex(log) = IF b < Len(disk) THEN Len(disk) ELSE 0
    BY <1>1, <2>1, MirrorReads
  <2>3. b = 0 \/ prev > b
    OBVIOUS
  <2> HIDE DEF b
  <2>4. b < Len(disk) \/ (b = 0 /\ Len(disk) = 0)
    BY <1>1, <2>1, <2>2, <2>3
  <2> QED  BY <1>1, <2>1, <2>2, <2>4
<1>2a. b = 0 \/ prev > b
  OBVIOUS
<1> HIDE DEF b
<1>3. /\ inc \in Seq(EntryOf(Nat)) /\ Len(inc) = n /\ NumberedFrom(prev, inc)
      /\ \A j \in 1..n : inc[j] = leader_log[prev + j]
  BY IncomingShape
<1>4. LastIndex(log) = Len(disk)
  BY <1>2
<1> HIDE DEF inc
<1>5. /\ k \in 1..n /\ TermAt(log, prev + k) # inc[k].term
      /\ \A j \in 1..(k - 1) : TermAt(log, prev + j) = inc[j].term
  <2>1. Len(inc) \in Nat
    BY <1>1, <1>3
  <2>2. k # 0
    BY DEF inc
  <2>3. FirstMissing(log, prev, inc, k)
    BY <1>1, <2>1, InsertAtFirst
  <2> HIDE DEF k
  <2> QED  BY <1>3, <2>2, <2>3 DEF FirstMissing
<1>6. m = [ok |-> TRUE, match |-> prev + Len(inc), conflict |-> 0,
           log |-> [log EXCEPT !.entries = kept \o added],
           cut |-> cut, batch |-> Records(added)]
  <2> HIDE DEF k
  <2>1. k # 0 /\ cut # 0
    BY <1>1, <1>5
  <2>2. Cut(log, prev, inc) = cut
    BY <2>1 DEF Cut, k
  <2>3. ~(prev > LastIndex(log))
    BY <1>1, <1>4
  <2> HIDE DEF cut
  <2> QED  BY <2>1, <2>2, <2>3 DEF DurableMerge
<1> HIDE DEF k
<1>7. /\ cut \in (prev + 1)..(prev + n) /\ cut \in 1..Len(leader_log) /\ b < cut
      /\ prev <= b + Len(log.entries) /\ prev >= b
  <2>1. prev <= Len(disk)
    BY <1>4
  <2>2. k \in 1..n
    BY <1>5
  <2>3. prev >= b
    BY <1>1, <1>2, <1>2a
  <2>4. prev <= b + Len(log.entries)
    BY <1>1, <1>2, <2>1
  <2> QED  BY <1>1, <1>2, <2>2, <2>3, <2>4
<1>7a. /\ log \in LogOf(Nat) /\ b \in Nat /\ NumberedLog(b, log)
       /\ prev \in Nat /\ prev >= b /\ (b = 0 \/ prev > b) /\ prev <= b + Len(log.entries)
       /\ inc \in Seq(EntryOf(Nat)) /\ NumberedFrom(prev, inc) /\ k \in 1..Len(inc)
       /\ AgreesBefore(log, prev, inc, k)
  BY <1>1, <1>2, <1>2a, <1>3, <1>5, <1>7 DEF AgreesBefore
<1>8. /\ kept \o added = KeptEntries(log, prev, k) \o Renumbered(prev, inc, k)
      /\ Len(added) = n - k + 1
      /\ \A i \in 1..(n - k + 1) : added[i] = inc[k - 1 + i]
  <2>1. DurablyMerged(log, prev, inc, k)
    BY ONLY <1>7a, DurableEntries
  <2>2. /\ kept \o added = KeptEntries(log, prev, k) \o Renumbered(prev, inc, k)
        /\ Len(added) = Len(inc) - k + 1
        /\ \A i \in 1..(Len(inc) - k + 1) : added[i] = inc[k - 1 + i]
    BY <2>1 DEF DurablyMerged
  <2> HIDE DEF kept, added
  <2> QED  BY <1>3, <2>2
<1> DEFINE new == KeptEntries(log, prev, k) \o Renumbered(prev, inc, k)
<1>9. /\ cut <= Len(disk) + 1
      /\ new \in Seq(EntryOf(Nat))
      /\ Len(new) = prev + n - b
      /\ \A j \in 1..Len(new) :
           new[j] = IF b + j < cut THEN log.entries[j] ELSE inc[b + j - prev]
  <2>1. /\ prev + k <= b + Len(log.entries) + 1
        /\ new \in Seq(EntryOf(Nat))
        /\ Len(new) = prev + Len(inc) - b
        /\ \A j \in 1..Len(new) :
             new[j] = IF b + j < prev + k THEN log.entries[j] ELSE inc[b + j - prev]
    <3>1. new \in Seq(EntryOf(Nat)) /\ MergedFrom(log, b, prev, inc, k, new)
      BY ONLY <1>7a, MergeNumbered
    <3> HIDE DEF new
    <3> QED  BY <3>1 DEF MergedFrom
  <2>2. b + Len(log.entries) = Len(disk)
    BY <1>1, <1>2
  <2> HIDE DEF new
  <2> QED  BY <1>3, <2>1, <2>2
<1> HIDE DEF kept, added, new
<1>9a. cut <= Len(disk) + 1
  BY <1>9
<1>10. \A j \in 1..(cut - 1) : Same(j)
  <2> TAKE j \in 1..(cut - 1)
  <2>1. CASE j <= prev
    <3>1. j \in 1..prev
      BY <1>1, <2>1
    <3> QED  BY <3>1, CheckPassed
  <2>2. CASE j > prev
    <3>1. j - prev \in 1..(k - 1) /\ j - prev \in 1..n /\ prev + (j - prev) = j
          /\ j \in 1..Len(leader_log)
      BY <1>1, <1>5, <2>2
    <3>2. TermAt(log, j) = leader_log[j].term
      BY <1>3, <1>5, <3>1
    <3> QED  BY <3>1, <3>2, CompareIsSame
  <2> QED  BY <1>1, <1>5, <2>1, <2>2
<1>11. ~Same(cut)
  <2>1. inc[k] = leader_log[cut] /\ TermAt(log, cut) # leader_log[cut].term
    BY <1>3, <1>5
  <2> HIDE DEF cut
  <2> QED  BY <1>2, <1>7, <2>1, CompareIsSame DEF b
<1> DEFINE trunc == KeptDisk(cut)
           batch == Records(added)
<1>12. LeaderPrefix(trunc) /\ Len(trunc) - (cut - 1) = 0
  <2> HIDE DEF cut
  <2>1. cut - 1 \in Nat /\ cut - 1 <= Len(leader_log)
    BY <1>1, <1>7, <1>9
  <2>2. trunc = SubSeq(disk, 1, cut - 1)
    BY DEF KeptDisk
  <2>3. \A j \in 1..(cut - 1) : j \in 1..Len(disk)
    <3>1. cut - 1 \in Nat
      BY <2>1
    <3>2. cut \in Int
      BY <1>7
    <3> QED  BY <1>1, <1>9a, <3>1, <3>2
  <2>4. \A j \in 1..(cut - 1) : disk[j] \in Nat \X Nat
    BY <1>1, <2>3, ElementOfSeq
  <2>5. /\ trunc \in Seq(Nat \X Nat) /\ Len(trunc) = cut - 1
        /\ \A j \in 1..(cut - 1) : trunc[j] = disk[j]
    <3> HIDE DEF trunc
    <3> QED  BY <2>1, <2>2, <2>4, SubSeqProperties
  <2> HIDE DEF trunc
  <2>6. \A j \in 1..(cut - 1) : trunc[j] = <<leader_log[j].term, j>>
    <3> TAKE j \in 1..(cut - 1)
    <3>1. disk[j] = <<disk[j][1], j>> /\ disk[j][1] = leader_log[j].term
      BY <1>10, <2>3, DiskFields DEF Same
    <3> QED  BY <2>5, <3>1
  <2> QED  BY <2>1, <2>5, <2>6 DEF LeaderPrefix
<1>13. /\ batch \in Seq(Nat \X Nat) /\ Len(batch) = n - k + 1
       /\ \A i \in 1..Len(batch) : batch[i] = <<leader_log[cut - 1 + i].term, cut - 1 + i>>
  <2>1. ASSUME NEW i \in 1..(n - k + 1)
        PROVE  /\ Record(added[i]) = <<leader_log[cut - 1 + i].term, cut - 1 + i>>
               /\ Record(added[i]) \in Nat \X Nat
    <3>1. /\ k - 1 + i \in 1..n /\ prev + (k - 1 + i) = cut - 1 + i
          /\ cut - 1 + i \in 1..Len(leader_log) /\ cut - 1 + i \in Nat
      BY <1>1, <1>5
    <3>2. added[i] = leader_log[cut - 1 + i]
      BY <1>3, <1>8, <3>1
    <3> HIDE DEF cut
    <3>3. leader_log[cut - 1 + i].payload = cut - 1 + i /\ leader_log[cut - 1 + i].term \in Nat
      BY <3>1, LeaderEntry
    <3> QED  BY <3>1, <3>2, <3>3 DEF Record
  <2>2. batch = [i \in 1..(n - k + 1) |-> Record(added[i])]
    BY <1>8 DEF Records
  <2> HIDE DEF batch, cut
  <2>3. batch \in [1..(n - k + 1) -> Nat \X Nat] /\ n - k + 1 \in Nat
    BY <1>1, <1>5, <2>1, <2>2
  <2>4. batch \in Seq(Nat \X Nat) /\ Len(batch) = n - k + 1
    BY <2>3, FunctionIsSeq
  <2> QED  BY <2>1, <2>2, <2>4
<1>14. /\ Len(trunc) + Len(batch) = prev + n
       /\ Len(trunc) + Len(batch) <= Len(leader_log)
       /\ \A i \in 1..Len(batch) : batch[i] = <<leader_log[Len(trunc) + i].term, Len(trunc) + i>>
  <2>1. Len(trunc) \in Nat
    BY <1>12, LenProperties DEF LeaderPrefix
  <2>2. Len(trunc) = cut - 1 /\ cut \in Nat
    <3> HIDE DEF trunc
    <3> QED  BY <1>1, <1>5, <1>12, <2>1
  <2>3. Len(trunc) + Len(batch) = prev + n
    <3> HIDE DEF trunc, batch
    <3> QED  BY <1>1, <1>5, <1>13, <2>1, <2>2
  <2> HIDE DEF trunc, batch, cut
  <2> QED  BY <1>1, <1>13, <2>2, <2>3
<1>14a. Len(trunc) = cut - 1
  <2>1. Len(trunc) \in Nat
    BY <1>12, LenProperties DEF LeaderPrefix
  <2> HIDE DEF trunc, cut
  <2> QED  BY <1>7, <1>12, <2>1
<1> HIDE DEF trunc, batch
<1>15. LeaderPrefix(trunc \o batch) /\ Len(trunc \o batch) = prev + n
  BY <1>12, <1>13, <1>14, PrefixExtends
<1>16. \A w \in 0..Len(batch) : /\ LeaderPrefix(trunc \o SubSeq(batch, 1, w))
                                 /\ Len(trunc \o SubSeq(batch, 1, w)) = cut - 1 + w
  <2> TAKE w \in 0..Len(batch)
  <2>1. /\ LeaderPrefix(trunc \o SubSeq(batch, 1, w))
        /\ Len(trunc \o SubSeq(batch, 1, w)) = Len(trunc) + w
    BY <1>12, <1>13, <1>14, WrittenPrefix
  <2> QED  BY <1>14a, <2>1
<1>17. \A j \in 1..(prev + n - b) :
         new[j] = [index |-> b + j, term |-> (trunc \o batch)[b + j][1], payload |-> b + j]
  <2> TAKE j \in 1..(prev + n - b)
  <2>1. b + j \in 1..(prev + n) /\ b + j \in 1..Len(leader_log)
    BY <1>1, <1>2
  <2>2. (trunc \o batch)[b + j][1] = leader_log[b + j].term
    <3>1. \A i \in 1..Len(trunc \o batch) : (trunc \o batch)[i] = <<leader_log[i].term, i>>
      BY <1>15 DEF LeaderPrefix
    <3>2. Len(trunc \o batch) = prev + n
      BY <1>15
    <3>3. \A i \in 1..(prev + n) : (trunc \o batch)[i] = <<leader_log[i].term, i>>
      BY <3>1, <3>2
    <3>4. (trunc \o batch)[b + j] = <<leader_log[b + j].term, b + j>>
      BY <2>1, <3>3
    <3> QED  BY <3>4
  <2>3. leader_log[b + j] = [index |-> b + j, term |-> leader_log[b + j].term, payload |-> b + j]
    BY <2>1, LeaderEntry
  <2>4. CASE b + j < cut
    <3>1. j \in 1..Len(log.entries) /\ b + j \in 1..(cut - 1)
      <4>1. /\ b \in Nat /\ cut \in Int /\ Len(log.entries) \in Nat
            /\ b + Len(log.entries) = Len(disk)
        BY <1>1, <1>2, <1>7
      <4>2. j \in Int /\ 1 <= j
        BY <1>1, <1>2
      <4> HIDE DEF cut
      <4>3. Len(disk) \in Int /\ b + j < cut /\ cut <= Len(disk) + 1
        BY <1>9a, <2>4, <4>1
      <4> QED  BY ONLY <4>1, <4>2, <4>3
    <3>2. log.entries[j] = [index |-> b + j, term |-> disk[b + j][1], payload |-> b + j]
      BY <1>2, <3>1 DEF MirrorOf
    <3>3. disk[b + j][1] = leader_log[b + j].term
      BY <1>10, <3>1 DEF Same
    <3>4. new[j] = log.entries[j]
      BY <1>9, <2>4
    <3> QED  BY <2>2, <3>2, <3>3, <3>4
  <2>5. CASE ~(b + j < cut)
    <3>1. b + j - prev \in 1..n /\ prev + (b + j - prev) = b + j
      BY <1>1, <1>2, <1>5, <2>5
    <3>2. new[j] = leader_log[b + j]
      BY <1>3, <1>9, <2>5, <3>1
    <3> QED  BY <2>2, <2>3, <3>2
  <2> QED  BY <2>4, <2>5
<1> DEFINE l == [log EXCEPT !.entries = new]
<1>18. /\ l \in LogOf(Nat) /\ l.entries = new /\ l.first_index = log.first_index
       /\ l.snapshot_last_index = log.snapshot_last_index
  BY <1>2, <1>9 DEF LogOf
<1> HIDE DEF l
<1>19. MirrorOf(l, trunc \o batch, b)
  <2>1. NumberedLog(b, l)
    <3>1. l.first_index - 1 = b
      BY <1>2, <1>18 DEF NumberedLog
    <3>2. \A j \in 1..Len(new) : new[j].index = b + j
      BY <1>9, <1>17
    <3> QED  BY <1>18, <3>1, <3>2 DEF NumberedLog, NumberedFrom
  <2>2. b < prev + n
    BY <1>1, <1>2, <1>5, <1>7
  <2>3. Len(trunc \o batch) = prev + n /\ Len(l.entries) = prev + n - b
    BY <1>9, <1>15, <1>18
  <2>4. Len(l.entries) = Len(trunc \o batch) - b /\ b < Len(trunc \o batch)
    <3>1. b \in Nat /\ prev \in Nat /\ n \in Nat
      BY <1>1, <1>2
    <3> QED  BY ONLY <2>2, <2>3, <3>1
  <2>5. \A j \in 1..Len(l.entries) :
          l.entries[j] = [index |-> b + j, term |-> (trunc \o batch)[b + j][1], payload |-> b + j]
    BY <1>17, <1>18, <2>3
  <2> QED  BY <1>18, <2>1, <2>4, <2>5 DEF MirrorOf
<1>20. m.log = l /\ m.cut = cut /\ m.batch = batch /\ m.ok /\ m.match = prev + n
  BY <1>3, <1>6, <1>8 DEF l, new, batch
<1> HIDE DEF m, cut
<1>21. Rewrites(m, prev, n, cut)
  BY <1>7, <1>9, <1>10, <1>11, <1>13, <1>14a, <1>15, <1>16, <1>18, <1>19, <1>20
     DEF Rewrites, b, trunc
<1>22. m.log = WrittenInMemory(prev, n)
  BY <1>20 DEF WrittenInMemory, l, new, k, inc
<1> QED  BY <1>7, <1>21, <1>22 DEF m, MergeOf, inc

LEMMA MergeCases ==
  ASSUME ClusterInv, DiskInv, MirrorInv,
         NEW prev \in 0..Len(leader_log), NEW n \in 0..(Len(leader_log) - prev)
  PROVE  \/ Refuses(MergeOf(prev, n))
         \/ FindsAll(MergeOf(prev, n), prev, n)
         \/ \E cut \in (prev + 1)..(prev + n) : Rewrites(MergeOf(prev, n), prev, n, cut)
         \/ Overtaken(MergeOf(prev, n), prev)
<1>1. Len(leader_log) \in Nat /\ prev \in Nat /\ n \in Nat
  BY LenProperties DEF ClusterInv
<1>2. log \in LogOf(Nat) /\ log.snapshot_last_index \in Nat /\ LastIndex(log) \in Nat
  BY ReadType DEF MirrorInv, MirrorOf, LogOf
<1>3. CASE prev > LastIndex(log) \/ TermAt(log, prev) # TermOf(prev)
  BY <1>1, <1>2, <1>3, MergeRefuses
<1>4. CASE prev <= LastIndex(log) /\ TermAt(log, prev) = TermOf(prev)
  <2>1. prev = 0 \/ prev > log.snapshot_last_index
    BY <1>4, CheckPassed
  <2>2. CASE InsertAt(log, prev, Incoming(prev, n)) = 0
    BY <1>4, <2>2, MergeFindsAll
  <2>3. CASE InsertAt(log, prev, Incoming(prev, n)) # 0
    <3>1. CASE log.snapshot_last_index = 0 \/ prev > log.snapshot_last_index
      BY <1>4, <2>3, <3>1, MergeRewrites
    <3>2. CASE ~(log.snapshot_last_index = 0 \/ prev > log.snapshot_last_index)
      <4>1. log.snapshot_last_index > 0 /\ prev <= 0
        BY <1>1, <1>2, <2>1, <3>2
      <4> QED  BY <1>4, <2>3, <4>1, MergeOvertaken
    <3> QED  BY <3>1, <3>2
  <2> QED  BY <2>2, <2>3
<1> QED  BY <1>1, <1>2, <1>3, <1>4

-----------------------------------------------------------------------------
(* Facts that the steps share *)

LEMMA MirrorFacts ==
  ASSUME ClusterInv, DiskInv, SnapshotInv, MirrorInv
  PROVE  /\ log \in LogOf(Nat) /\ log.snapshot_last_index \in Nat
         /\ log.entries \in Seq(EntryOf(Nat)) /\ Len(log.entries) \in Nat
         /\ log.first_index - 1 = log.snapshot_last_index
         /\ MirrorOf(log, disk, log.snapshot_last_index)
         /\ commit_index \in Nat /\ applied_index \in Nat /\ committed \in Nat
         /\ log.snapshot_last_index <= applied_index /\ applied_index <= commit_index
         /\ commit_index <= committed
         /\ LastIndex(log) = IF log.snapshot_last_index < Len(disk) THEN Len(disk) ELSE 0
<1>1. /\ log \in LogOf(Nat) /\ log.snapshot_last_index \in Nat
      /\ log.entries \in Seq(EntryOf(Nat)) /\ Len(log.entries) \in Nat
      /\ log.first_index - 1 = log.snapshot_last_index
      /\ MirrorOf(log, disk, log.snapshot_last_index)
  BY ReadType DEF MirrorInv, MirrorOf, LogOf, NumberedLog
<1>2. Len(leader_log) \in Nat /\ disk \in Seq(Nat \X Nat) /\ Len(disk) \in Nat
  BY DiskFields, LenProperties DEF ClusterInv
<1>3. committed \in Nat
  BY <1>2 DEF ClusterInv
<1>4. /\ commit_index \in 0..committed
      /\ applied_index \in log.snapshot_last_index..commit_index
  BY DEF MirrorInv
<1>5. commit_index \in Nat /\ applied_index \in Nat
  BY <1>1, <1>3, <1>4
<1>6. LastIndex(log) = IF log.snapshot_last_index < Len(disk) THEN Len(disk) ELSE 0
  BY <1>1, <1>2, MirrorReads
<1> QED  BY <1>1, <1>3, <1>4, <1>5, <1>6

\* A log that is sound after a step was so before it.
LEMMA SoundBefore ==
  ASSUME defects \subseteq defects', Sound'
  PROVE  Sound
BY DEF Sound

LEMMA DiskStays ==
  ASSUME DiskInv, UNCHANGED <<disk, leader_log, leader_term>>
  PROVE  /\ DiskInv'
         /\ \A k : Same(k)' <=> Same(k)
         /\ \A x : Held(x)' <=> Held(x)
<1>1. DiskInv' /\ \A k : Same(k)' <=> Same(k)
  BY DEF DiskInv, Same, OfLeader
<1> QED  BY <1>1 DEF Held

LEMMA OffsetStays ==
  ASSUME OffsetInv, UNCHANGED <<disk, next_offset>>, defects \subseteq defects'
  PROVE  OffsetInv'
BY DEF OffsetInv

\* A new disk that is a prefix of the leader's log.
LEMMA PrefixIsDisk ==
  ASSUME ClusterInv, LeaderPrefix(disk)', UNCHANGED <<leader_log, leader_term>>
  PROVE  /\ DiskInv' /\ \A k \in 1..Len(disk') : Same(k)'
         /\ \A x \in Nat : Held(x)'
<1>1. /\ disk' \in Seq(Nat \X Nat) /\ Len(disk') <= Len(leader_log)
      /\ \A k \in 1..Len(disk') : disk'[k] = <<leader_log[k].term, k>>
      /\ Len(disk') \in Nat /\ Len(leader_log) \in Nat
  BY LenProperties DEF LeaderPrefix, ClusterInv
<1>2. ASSUME NEW k \in 1..Len(disk')
      PROVE  /\ disk'[k][1] = leader_log[k].term /\ disk'[k] = <<disk'[k][1], k>>
             /\ leader_log[k].term \in 1..leader_term /\ k <= Len(leader_log) /\ k <= Len(disk')
  <2>1. k \in 1..Len(leader_log)
    BY <1>1
  <2> QED  BY <1>1, <2>1 DEF ClusterInv
<1>3. \A k \in 1..Len(disk') : Same(k)'
  BY <1>2 DEF Same
<1>4. \A k \in 1..Len(disk') : OfLeader(k, disk[k][1])'
  BY <1>2 DEF OfLeader
<1>5. \A k \in 1..Len(disk') : \A j \in 1..k : j \in 1..Len(disk')
  BY <1>1
<1>6. DiskInv'
  BY <1>1, <1>2, <1>3, <1>4, <1>5 DEF DiskInv
<1>7. \A x \in Nat : x < Len(disk') => \A k \in 1..x : k \in 1..Len(disk')
  BY <1>1
<1> QED  BY <1>3, <1>6, <1>7 DEF Held

\* A disk of which only the first a records are left.
LEMMA DiskPart ==
  ASSUME DiskInv, NEW a \in 0..Len(disk), disk' = SubSeq(disk, 1, a),
         UNCHANGED <<leader_log, leader_term>>
  PROVE  DiskInv' /\ Len(disk') = a /\ \A k \in 1..a : Same(k)' <=> Same(k)
<1>1. disk \in Seq(Nat \X Nat) /\ Len(disk) \in Nat /\ a \in Nat /\ a <= Len(disk)
  BY DiskFields
<1>2. \A k \in 1..a : k \in 1..Len(disk) /\ disk[k] \in Nat \X Nat
  BY <1>1, DiskFields
<1>3. /\ disk' \in Seq(Nat \X Nat) /\ Len(disk') = a
      /\ \A k \in 1..a : disk'[k] = disk[k]
  BY <1>1, <1>2, SubSeqProperties
<1>4. \A k \in 1..a : Same(k)' <=> Same(k)
  <2> TAKE k \in 1..a
  <2>1. k <= a /\ k <= Len(disk)
    BY <1>1
  <2> QED  BY <1>3, <2>1 DEF Same
<1>5. \A k \in 1..a : disk'[k] = <<disk'[k][1], k>> /\ OfLeader(k, disk[k][1])'
  BY <1>2, <1>3 DEF DiskInv, OfLeader
<1>6. \A k \in 1..a : \A j \in 1..k : j \in 1..a
  BY <1>1
<1>7. \A k \in 1..a : Same(k)' => \A j \in 1..k : Same(j)'
  BY <1>2, <1>4, <1>6 DEF DiskInv
<1> QED  BY <1>3, <1>4, <1>5, <1>7 DEF DiskInv

\* An entry of the leader's log lies before the first one that is not.
LEMMA SameBelow ==
  ASSUME ClusterInv, DiskInv, NEW cut \in Nat \ {0}, ~Same(cut),
         NEW k \in 1..Len(leader_log), Same(k)
  PROVE  k \in 1..(cut - 1) /\ k <= Len(disk)
<1>1. Len(leader_log) \in Nat /\ Len(disk) \in Nat
  BY DiskFields, LenProperties DEF ClusterInv
<1>2. k \in 1..Len(disk)
  BY <1>1 DEF Same
<1>3. \A j \in 1..k : Same(j)
  BY <1>2 DEF DiskInv
<1>4. cut <= k => cut \in 1..k
  OBVIOUS
<1>5. k < cut
  BY <1>1, <1>3, <1>4
<1> QED  BY <1>1, <1>2, <1>5

\* A server acknowledges entries of the leader's log.
LEMMA NewlyAcked ==
  ASSUME ClusterInv, AckedInv, UNCHANGED <<leader_log, leader_term>>,
         NEW h \in 0..Len(leader_log),
         acked' \subseteq acked \cup {<<k, TermOf(k)>> : k \in 1..h}
  PROVE  /\ acked' \subseteq (Nat \ {0}) \X Nat
         /\ \A a \in acked' : OfLeader(a[1], a[2])'
         /\ \A a \in acked' : a \in acked \/ a[1] \in 1..h
<1>1. Len(leader_log) \in Nat /\ acked \subseteq (Nat \ {0}) \X Nat /\ h \in Nat
  BY LenProperties DEF ClusterInv, AckedInv
<1>2. ASSUME NEW a \in acked', ~(a \in acked)
      PROVE  a \in (Nat \ {0}) \X Nat /\ OfLeader(a[1], a[2]) /\ a[1] \in 1..h
  <2>1. PICK k \in 1..h : a = <<k, TermOf(k)>>
    BY <1>2
  <2>2. k \in 1..Len(leader_log) /\ k \in Nat \ {0}
    BY <1>1
  <2>3. TermOf(k) = leader_log[k].term /\ leader_log[k].term \in Nat
    BY <2>2, LeaderEntry
  <2>4. leader_log[k].term \in 1..leader_term
    BY <2>2 DEF ClusterInv
  <2>5. a[1] = k /\ a[2] = leader_log[k].term
    BY <2>1, <2>3
  <2>6. OfLeader(k, leader_log[k].term)
    BY <2>2, <2>4 DEF OfLeader
  <2>7. a \in (Nat \ {0}) \X Nat
    BY <2>1, <2>2, <2>3
  <2> QED  BY <2>5, <2>6, <2>7
<1>3. acked' \subseteq (Nat \ {0}) \X Nat /\ \A a \in acked' : OfLeader(a[1], a[2])
  BY <1>1, <1>2 DEF AckedInv
<1>4. \A a \in acked' : OfLeader(a[1], a[2])'
  BY <1>3 DEF OfLeader
<1> QED  BY <1>2, <1>3, <1>4

\* What was acknowledged is kept by a step that keeps the leader's entries on disk
\* and the snapshots, and stores what it acknowledges.
LEMMA AckedStays ==
  ASSUME ClusterInv, AckedInv, UNCHANGED <<leader_log, leader_term>>,
         \A k \in 1..Len(leader_log) : Same(k) => Same(k)',
         \A k \in 1..Len(leader_log) : Covered(k) => Covered(k)',
         NEW h \in 0..Len(leader_log), \A k \in 1..h : Same(k)' \/ Covered(k)',
         acked' \subseteq acked \cup {<<k, TermOf(k)>> : k \in 1..h}
  PROVE  AckedInv'
<1>1. /\ acked' \subseteq (Nat \ {0}) \X Nat
      /\ \A a \in acked' : OfLeader(a[1], a[2])'
      /\ \A a \in acked' : a \in acked \/ a[1] \in 1..h
  BY NewlyAcked
<1>2. ASSUME NEW k \in 1..Len(leader_log), <<k, TermOf(k)>> \in acked'
      PROVE  Same(k)' \/ Covered(k)'
  <2>1. CASE <<k, TermOf(k)>> \in acked
    BY <2>1 DEF AckedInv
  <2>2. CASE ~(<<k, TermOf(k)>> \in acked)
    <3> DEFINE a == <<k, TermOf(k)>>
    <3>1. a[1] \in 1..h /\ a[1] = k
      BY <1>1, <1>2, <2>2
    <3> QED  BY <3>1
  <2> QED  BY <2>1, <2>2
<1>3. \A k \in 1..Len(leader_log') : TermOf(k)' = TermOf(k)
  BY DEF TermOf
<1> QED  BY <1>1, <1>2, <1>3 DEF AckedInv

\* The same for a step that acknowledges nothing.
LEMMA NothingAcked ==
  ASSUME ClusterInv, AckedInv, UNCHANGED <<leader_log, leader_term, acked>>,
         \A k \in 1..Len(leader_log) : Same(k) => Same(k)',
         \A k \in 1..Len(leader_log) : Covered(k) => Covered(k)'
  PROVE  AckedInv'
<1>1. Len(leader_log) \in Nat
  BY LenProperties DEF ClusterInv
<1>2. 0 \in 0..Len(leader_log) /\ \A k \in 1..0 : Same(k)' \/ Covered(k)'
  BY <1>1
<1>3. acked' \subseteq acked \cup {<<k, TermOf(k)>> : k \in 1..0}
  OBVIOUS
<1> QED  BY <1>2, <1>3, AckedStays

\* The snapshots stay as long as they and the cluster do.
LEMMA SnapshotStays ==
  ASSUME SnapshotInv, UNCHANGED <<snapshots, committed>>
  PROVE  SnapshotInv' /\ \A k : Covered(k) => Covered(k)'
BY DEF SnapshotInv, Covered

-----------------------------------------------------------------------------
(* Truncation *)

\* A truncation to a record that the disk has, or to its end, cuts exactly there.
LEMMA TruncateExact ==
  ASSUME DiskInv, OffsetInv, NEW c \in Nat, c <= Len(disk)
  PROVE  TruncateDisk(disk, next_offset, c) = {<<SubSeq(disk, 1, c), c>>}
<1>1. /\ disk \in Seq(Nat \X Nat) /\ Len(disk) \in Nat
      /\ next_offset \in Nat /\ Len(disk) <= next_offset
  BY DiskFields DEF OffsetInv
<1>2. CASE c >= next_offset
  <2>1. c = Len(disk) /\ c = next_offset
    BY <1>1, <1>2
  <2>2. SubSeq(disk, 1, Len(disk)) = disk
    BY <1>1, SubSeqFull
  <2>3. TruncateDisk(disk, next_offset, c) = {<<disk, next_offset>>}
    BY <1>2 DEF TruncateDisk
  <2> QED  BY <2>1, <2>2, <2>3
<1>3. CASE ~(c >= next_offset)
  BY <1>3 DEF TruncateDisk
<1> QED  BY <1>2, <1>3

\* The first a records of the disk.
FirstRecords(a) == SubSeq(disk, 1, a)

LEMMA FirstRecordsRead ==
  ASSUME DiskInv
  PROVE  /\ FirstRecords(Len(disk)) = disk
         /\ \A a \in 0..Len(disk) : Len(FirstRecords(a)) = a
<1>1. disk \in Seq(Nat \X Nat) /\ Len(disk) \in Nat
  BY DiskFields
<1>2. ASSUME NEW a \in 0..Len(disk)
      PROVE  Len(FirstRecords(a)) = a
  <2>1. a \in Nat /\ \A k \in 1..a : disk[k] \in Nat \X Nat
    BY <1>1, DiskFields
  <2> QED  BY <2>1, SubSeqProperties DEF FirstRecords
<1> QED  BY <1>1, <1>2, SubSeqFull DEF FirstRecords

\* What a truncation to c leaves: the first a records, all of them if a is below c.
Leaves(t, c, a) ==
  /\ t[1] = FirstRecords(a) /\ (a < c => a = Len(disk))
  /\ t[2] \in Nat /\ a <= t[2]

LEMMA TruncateLeaves ==
  ASSUME DiskInv, OffsetInv, NEW c \in Nat, NEW t \in TruncateDisk(disk, next_offset, c)
  PROVE  \E a \in 0..Len(disk) : /\ Leaves(t, c, a)
                                 /\ a = Len(disk) => Len(disk) <= c
                                 /\ next_offset = Len(disk) => t[2] = a
<1> DEFINE size == Len(disk)
<1>1. /\ size \in Nat /\ size \in 0..size /\ FirstRecords(size) = disk
      /\ next_offset \in Nat /\ size <= next_offset
  BY DiskFields, FirstRecordsRead DEF OffsetInv
<1>2. CASE c >= next_offset
  <2>1. t = <<disk, next_offset>>
    BY <1>2 DEF TruncateDisk
  <2> HIDE DEF size
  <2>2. t[1] = disk /\ t[2] = next_offset /\ size <= c
    BY <1>1, <1>2, <2>1
  <2>3. Leaves(t, c, size)
    BY <1>1, <2>2 DEF Leaves, size
  <2> QED  BY <1>1, <2>2, <2>3 DEF size
<1>3. CASE ~(c >= next_offset) /\ c <= size
  <2>1. t = <<FirstRecords(c), c>>
    BY <1>3 DEF TruncateDisk, FirstRecords
  <2> HIDE DEF size
  <2>2. t[1] = FirstRecords(c) /\ t[2] = c /\ c \in 0..size
    BY <1>1, <1>3, <2>1
  <2>3. Leaves(t, c, c)
    BY <2>2 DEF Leaves
  <2> QED  BY <2>2, <2>3 DEF size
<1>4. CASE ~(c >= next_offset) /\ ~(c <= size)
  <2>1. PICK n \in size..c : t = <<disk, n>>
    BY <1>4 DEF TruncateDisk
  <2> HIDE DEF size
  <2>2. t[1] = disk /\ t[2] = n
    BY <2>1
  <2>3. size <= c /\ next_offset # size /\ n \in Nat /\ size <= n
    BY <1>1, <1>4
  <2>4. Leaves(t, c, size)
    BY <1>1, <2>2, <2>3 DEF Leaves, size
  <2> QED  BY <1>1, <2>3, <2>4 DEF size
<1> QED  BY <1>2, <1>3, <1>4

LEMMA CrashLeaves ==
  ASSUME DiskInv, OffsetInv, NEW c \in Nat, NEW t \in TruncateCrashes(disk, next_offset, c)
  PROVE  \E a \in 0..Len(disk) : Leaves(t, c, a)
<1> DEFINE size == Len(disk)
<1>1. /\ size \in Nat /\ size \in 0..size /\ FirstRecords(size) = disk
      /\ next_offset \in Nat /\ size <= next_offset
  BY DiskFields, FirstRecordsRead DEF OffsetInv
<1>2. \A a \in MaxOf(c, 1)..size : a \in 0..size /\ ~(a < c) /\ a \in Nat /\ a <= next_offset
  BY <1>1 DEF MaxOf
<1>3. CASE t = <<disk, next_offset>>
  <2>1. t[1] = disk /\ t[2] = next_offset
    BY <1>3
  <2>2. Leaves(t, c, size)
    BY <1>1, <2>1 DEF Leaves
  <2> QED  BY <1>1, <2>2
<1>4. ASSUME NEW a \in MaxOf(c, 1)..size, t = <<FirstRecords(a), a>> \/ t = <<FirstRecords(a), next_offset>>
      PROVE  \E x \in 0..size : Leaves(t, c, x)
  <2>1. t[1] = FirstRecords(a) /\ (t[2] = a \/ t[2] = next_offset)
    BY <1>4
  <2>2. Leaves(t, c, a)
    BY <1>1, <1>2, <2>1 DEF Leaves
  <2> QED  BY <1>2, <2>2
<1>5. ASSUME NEW n \in size..next_offset, t = <<disk, n>>
      PROVE  \E x \in 0..size : Leaves(t, c, x)
  <2>1. t[1] = disk /\ t[2] = n /\ n \in Nat /\ size <= n
    BY <1>1, <1>5
  <2>2. Leaves(t, c, size)
    BY <1>1, <2>1 DEF Leaves
  <2> QED  BY <1>1, <2>2
<1> QED  BY <1>3, <1>4, <1>5 DEF TruncateCrashes, FirstRecords

\* A re-sync that removes nothing that can be read leaves the disk as it is.
LEMMA ResyncKeeps ==
  ASSUME DiskInv, OffsetInv, NEW c \in Nat, NEW t \in TruncateDisk(disk, next_offset, c),
         disk' = t[1], next_offset' = t[2], defects \subseteq defects',
         Len(disk') < Len(disk) => "cut" \in defects', Sound'
  PROVE  disk' = disk /\ Len(disk) <= c /\ OffsetInv'
<1> DEFINE size == Len(disk)
<1>1. /\ size \in Nat /\ FirstRecords(size) = disk
      /\ \A a \in 0..size : Len(FirstRecords(a)) = a
  BY DiskFields, FirstRecordsRead
<1>2. PICK a \in 0..size : /\ Leaves(t, c, a)
                           /\ a = size => size <= c
                           /\ next_offset = size => t[2] = a
  BY TruncateLeaves
<1>3. "cut" \notin defects'
  BY DEF Sound
<1>4. disk' = FirstRecords(a) /\ t[2] \in Nat /\ a <= t[2]
  BY <1>2 DEF Leaves
<1>5. a = size
  <2>1. Len(disk') = a /\ ~(Len(disk') < size)
    BY <1>1, <1>3, <1>4
  <2> HIDE DEF size
  <2> QED  BY <1>1, <2>1
<1>6. disk' = disk /\ size <= c
  BY <1>1, <1>2, <1>4, <1>5
<1>7. "torn" \notin defects' => next_offset' = size
  BY <1>2, <1>5 DEF OffsetInv
<1> QED  BY <1>4, <1>5, <1>6, <1>7 DEF OffsetInv

\* The same for one that is interrupted.
LEMMA CrashInResyncKeeps ==
  ASSUME DiskInv, OffsetInv, NEW c \in Nat, CrashInResync(c), Sound'
  PROVE  disk' = disk /\ OffsetInv' /\ defects \subseteq defects'
<1> DEFINE size == Len(disk)
<1>1. /\ size \in Nat /\ FirstRecords(size) = disk
      /\ \A a \in 0..size : Len(FirstRecords(a)) = a
  BY DiskFields, FirstRecordsRead
<1>2. PICK t \in TruncateCrashes(disk, next_offset, c) :
        /\ disk' = t[1] /\ next_offset' = t[2]
        /\ defects' = defects \cup Note("cut", Len(disk') < Len(disk))
                              \cup Note("torn", next_offset' # Len(disk'))
  BY DEF CrashInResync, CrashTruncating, DiskBecomes
<1>3. PICK a \in 0..size : Leaves(t, c, a)
  BY CrashLeaves
<1>4. /\ defects \subseteq defects'
      /\ Len(disk') < size => "cut" \in defects'
      /\ next_offset' # Len(disk') => "torn" \in defects'
  BY <1>2, Zenon DEF Note
<1>5. "cut" \notin defects'
  BY DEF Sound
<1>6. disk' = FirstRecords(a) /\ next_offset' \in Nat /\ a <= next_offset'
  BY <1>2, <1>3 DEF Leaves
<1>7. a = size
  <2>1. Len(disk') = a /\ ~(Len(disk') < size)
    BY <1>1, <1>4, <1>5, <1>6
  <2> HIDE DEF size
  <2> QED  BY <1>1, <2>1
<1>8. disk' = disk
  BY <1>1, <1>6, <1>7
<1> QED  BY <1>4, <1>6, <1>7, <1>8 DEF OffsetInv

-----------------------------------------------------------------------------
(* The steps of the server *)

\* What _on_append makes of commit_index and applied_index.
NewCommit(m, commit) ==
  IF m.ok /\ commit > commit_index THEN MinOf(commit, LastIndex(m.log)) ELSE commit_index
NewApplied(m, commit) ==
  IF m.ok /\ commit > commit_index
  THEN Reached(m.log, applied_index, NewCommit(m, commit)) ELSE applied_index

LEMMA ReachedBetween ==
  ASSUME NEW l, NEW a \in Nat, NEW c \in Nat, a <= c, LastPosition(l) \in Nat
  PROVE  Reached(l, a, c) \in a..c
<1>1. CASE a < c /\ Present(l, a + 1)
  <2>1. a + 1 <= LastPosition(l) /\ Reached(l, a, c) = MinOf(c, LastPosition(l))
    BY <1>1 DEF Reached, Present
  <2> QED  BY <2>1 DEF MinOf
<1>2. CASE ~(a < c /\ Present(l, a + 1))
  BY <1>2 DEF Reached
<1> QED  BY <1>1, <1>2

\* commit_index and applied_index after an append that the disk covers as far as
\* the leader's commit index goes.
LEMMA Advances ==
  ASSUME NEW m, NEW commit \in Nat, commit_index \in Nat, applied_index \in Nat,
         applied_index <= commit_index, LastPosition(m.log) \in Nat,
         m.ok /\ commit > commit_index => MinOf(commit, LastIndex(m.log)) = commit
  PROVE  /\ \/ NewCommit(m, commit) = commit_index /\ NewApplied(m, commit) = applied_index
            \/ m.ok /\ NewCommit(m, commit) = commit /\ commit > commit_index
         /\ NewApplied(m, commit) \in applied_index..NewCommit(m, commit)
<1>1. CASE m.ok /\ commit > commit_index
  <2>1. NewCommit(m, commit) = commit
    BY <1>1 DEF NewCommit
  <2>2. applied_index <= commit
    BY <1>1
  <2>3. Reached(m.log, applied_index, commit) \in applied_index..commit
    BY <2>2, ReachedBetween
  <2> QED  BY <1>1, <2>1, <2>3 DEF NewApplied
<1>2. CASE ~(m.ok /\ commit > commit_index)
  BY <1>2 DEF NewCommit, NewApplied
<1> QED  BY <1>1, <1>2

\* The mirror after an append that leaves the log sound.
LEMMA MirrorAfterAppend ==
  ASSUME ClusterInv, DiskInv, SnapshotInv, MirrorInv,
         UNCHANGED <<leader_log, leader_term, leader, committed, snapshots>>, leader = "other",
         disk' \in Seq(Nat \X Nat),
         MirrorOf(log', disk', log.snapshot_last_index),
         log'.snapshot_last_index = log.snapshot_last_index,
         \A x \in Nat : Held(x) => Held(x)',
         NEW m, NEW commit \in 0..committed, m.log = log',
         m.ok => commit <= Len(disk') /\ \A k \in 1..commit : Same(k)',
         commit_index' = NewCommit(m, commit), applied_index' = NewApplied(m, commit)
  PROVE  MirrorInv'
<1> DEFINE b == log.snapshot_last_index
<1>1. /\ b \in Nat /\ commit_index \in Nat /\ applied_index \in Nat /\ committed \in Nat
      /\ b <= applied_index /\ applied_index <= commit_index /\ commit_index <= committed
      /\ Held(b) /\ Held(applied_index) /\ Held(commit_index)
  BY MirrorFacts DEF MirrorInv
<1>2. /\ LastIndex(log') = (IF b < Len(disk') THEN Len(disk') ELSE 0)
      /\ LastPosition(log') = MaxOf(Len(disk'), b)
  BY <1>1, MirrorReads
<1>3. Len(disk') \in Nat /\ commit \in Nat /\ commit <= committed
  BY <1>1, LenProperties
<1>4. LastPosition(m.log) \in Nat
  BY <1>1, <1>2, <1>3 DEF MaxOf
<1>5. m.ok /\ commit > commit_index => MinOf(commit, LastIndex(m.log)) = commit
  <2>1. SUFFICES ASSUME m.ok, commit > commit_index
                 PROVE  MinOf(commit, LastIndex(m.log)) = commit
    OBVIOUS
  <2>2. b < Len(disk') /\ commit <= Len(disk')
    BY <1>1, <1>3, <2>1
  <2> QED  BY <1>2, <2>2 DEF MinOf
<1>6. /\ \/ commit_index' = commit_index /\ applied_index' = applied_index
         \/ m.ok /\ commit_index' = commit /\ commit > commit_index
      /\ applied_index' \in applied_index..commit_index'
  BY <1>1, <1>3, <1>4, <1>5, Advances
<1>7. commit_index' \in 0..committed' /\ commit_index' \in Nat
  BY <1>1, <1>3, <1>6
<1>8. applied_index' \in b..commit_index' /\ applied_index' \in Nat /\ applied_index' <= commit_index'
  BY <1>1, <1>6, <1>7
<1>9. \A x \in {b, applied_index', commit_index'} : x < Len(disk') => \A k \in 1..x : Same(k)'
  <2>1. \A x \in {b, applied_index, commit_index} : Held(x)'
    BY <1>1
  <2>2. \A x \in {b, applied_index, commit_index} : x < Len(disk') => \A k \in 1..x : Same(k)'
    BY <2>1 DEF Held
  <2>3. CASE commit_index' = commit_index /\ applied_index' = applied_index
    BY <2>2, <2>3
  <2>4. CASE m.ok /\ commit_index' = commit
    <3>1. \A k \in 1..applied_index' : k \in 1..commit
      BY <1>3, <1>8, <2>4
    <3> QED  BY <2>2, <2>4, <3>1
  <2> QED  BY <1>6, <2>3, <2>4
<1>10. Held(log.snapshot_last_index)' /\ Held(applied_index)' /\ Held(commit_index)'
  BY <1>9 DEF Held
<1>11. b > 0 => \E s \in snapshots' : s.index = b
  BY DEF MirrorInv
<1> QED  BY <1>7, <1>8, <1>10, <1>11 DEF MirrorInv

\* A merge that rewrites the log from cut on, of which w records are written: the
\* disk is truncated below cut and goes on from there.
LEMMA RewriteOnDisk ==
  ASSUME ClusterInv, DiskInv, OffsetInv, UNCHANGED <<leader_log, leader_term>>,
         NEW m, NEW prev \in Nat, NEW n \in Nat, NEW cut \in Nat \ {0},
         Rewrites(m, prev, n, cut), NEW w \in 0..Len(m.batch),
         NEW t \in TruncatedFor(m), NEW batch, batch = SubSeq(m.batch, 1, w),
         DiskBecomes(AppendDisk(t[1], t[2], batch)), defects \subseteq defects'
  PROVE  /\ DiskInv' /\ OffsetInv' /\ disk' = KeptDisk(cut) \o batch
         /\ Len(disk') = cut - 1 + w /\ Len(disk') <= Len(leader_log)
         /\ \A k \in 1..Len(disk') : Same(k)'
         /\ \A x \in Nat : Held(x)'
         /\ \A k \in 1..Len(leader_log) : Same(k) => Same(k)'
<1>1. /\ m.cut = cut /\ cut <= Len(disk) + 1 /\ ~Same(cut)
      /\ m.batch \in Seq(Nat \X Nat) /\ Len(KeptDisk(cut)) = cut - 1
      /\ LeaderPrefix(KeptDisk(cut) \o batch)
      /\ Len(KeptDisk(cut) \o batch) = cut - 1 + w
  BY DEF Rewrites
<1>2. Len(disk) \in Nat /\ Len(leader_log) \in Nat /\ Len(m.batch) \in Nat
  BY <1>1, DiskFields, LenProperties DEF ClusterInv
<1>3. Len(batch) = w
  <2>1. w \in Nat /\ \A k \in 1..w : k \in 1..Len(m.batch)
    BY <1>2
  <2>2. \A k \in 1..w : m.batch[k] \in Nat \X Nat
    BY ONLY <1>1, <2>1, ElementOfSeq
  <2> QED  BY <2>1, <2>2, SubSeqProperties
<1>4. t = <<KeptDisk(cut), cut - 1>>
  <2>1. cut - 1 \in Nat /\ cut - 1 <= Len(disk) /\ m.cut # 0
    BY <1>1, <1>2
  <2>2. TruncateDisk(disk, next_offset, cut - 1) = {<<KeptDisk(cut), cut - 1>>}
    BY <2>1, TruncateExact DEF KeptDisk
  <2> QED  BY <1>1, <2>1, <2>2 DEF TruncatedFor
<1>5. t[1] = KeptDisk(cut) /\ t[2] = cut - 1 /\ t[2] = Len(t[1])
  BY <1>1, <1>4
<1>6. disk' = KeptDisk(cut) \o batch /\ next_offset' = cut - 1 + w
  <2> DEFINE to == AppendDisk(t[1], t[2], batch)
  <2>1. to = <<t[1] \o batch, t[2] + Len(batch)>>
    BY <1>5 DEF AppendDisk
  <2>2. disk' = to[1] /\ next_offset' = to[2]
    BY DEF DiskBecomes
  <2> HIDE DEF to
  <2> QED  BY <1>3, <1>5, <2>1, <2>2
<1>7. LeaderPrefix(disk)' /\ Len(disk') = cut - 1 + w
  BY <1>1, <1>6 DEF LeaderPrefix
<1>8. DiskInv' /\ (\A k \in 1..Len(disk') : Same(k)') /\ \A x \in Nat : Held(x)'
  BY <1>7, PrefixIsDisk
<1>9. Len(disk') <= Len(leader_log)
  BY <1>7 DEF LeaderPrefix
<1>10. OffsetInv'
  <2>1. next_offset' = Len(disk') /\ next_offset' \in Nat
    BY <1>2, <1>6, <1>7
  <2> QED  BY <2>1 DEF OffsetInv
<1>11. ASSUME NEW k \in 1..Len(leader_log), Same(k)
       PROVE  Same(k)'
  <2>1. k \in 1..(cut - 1)
    BY <1>1, <1>11, SameBelow
  <2>2. k \in 1..Len(disk')
    BY <1>2, <1>7, <2>1
  <2> QED  BY <1>8, <2>2
<1> QED  BY <1>6, <1>7, <1>8, <1>9, <1>10, <1>11

\* A merge that writes nothing.
LEMMA NothingOnDisk ==
  ASSUME DiskInv, OffsetInv, NEW m, m.cut = 0, NEW t \in TruncatedFor(m),
         NEW batch, batch = << >>, DiskBecomes(AppendDisk(t[1], t[2], batch))
  PROVE  disk' = disk /\ next_offset' = next_offset
<1>1. t[1] = disk /\ t[2] = next_offset
  BY DEF TruncatedFor
<1>2. disk \in Seq(Nat \X Nat) /\ next_offset \in Nat /\ Len(batch) = 0
  BY DiskFields, EmptySeq DEF OffsetInv
<1>3. disk \o batch = disk
  BY <1>2, ConcatEmptySeq
<1>4. next_offset + Len(batch) = next_offset
  BY <1>2
<1>5. AppendDisk(t[1], t[2], batch) = <<disk, next_offset>>
  BY <1>1, <1>3, <1>4 DEF AppendDisk
<1> DEFINE to == AppendDisk(t[1], t[2], batch)
<1>6. disk' = to[1] /\ next_offset' = to[2] /\ to = <<disk, next_offset>>
  BY <1>5 DEF DiskBecomes
<1> HIDE DEF to
<1> QED  BY <1>6

LEMMA OnAppendStep ==
  ASSUME DurableInv, NEW prev \in 0..Len(leader_log), NEW n \in 0..(Len(leader_log) - prev),
         NEW commit \in 0..MinOf(committed, prev + n), OnAppend(prev, n, commit)
  PROVE  DurableInv'
<1> DEFINE m == MergeOf(prev, n)
<1>1. /\ up /\ leader = "other" /\ log' = m.log
      /\ \E t \in TruncatedFor(m) :
           /\ DiskBecomes(AppendDisk(t[1], t[2], m.batch))
           /\ defects' = defects \cup AppendDefects(m, prev, Len(m.batch), t)
      /\ commit_index' = NewCommit(m, commit)
      /\ applied_index' = NewApplied(m, commit)
      /\ acked' = acked \cup {<<k, TermOf(k)>> : k \in 1..m.match}
      /\ UNCHANGED <<up, snapshots, leader, leader_term, leader_log, committed>>
  BY DEF OnAppend, MergeOf, Incoming, NewCommit, NewApplied, cluster
<1> HIDE DEF m
<1>2. ClusterInv'
  BY <1>1 DEF DurableInv, ClusterInv
<1>3. SUFFICES ASSUME Sound'
               PROVE  DiskInv' /\ OffsetInv' /\ SnapshotInv' /\ AckedInv' /\ MirrorInv'
  BY <1>2 DEF DurableInv
<1>3a. PICK t \in TruncatedFor(m) :
         /\ DiskBecomes(AppendDisk(t[1], t[2], m.batch))
         /\ defects' = defects \cup AppendDefects(m, prev, Len(m.batch), t)
  BY <1>1
<1>3b. defects \subseteq defects' /\ (Overtaken(m, prev) => "overtaken" \in defects')
  BY <1>3a DEF AppendDefects, Note
<1>4. /\ Sound /\ ~Overtaken(m, prev)
      /\ ClusterInv /\ DiskInv /\ OffsetInv /\ SnapshotInv /\ AckedInv /\ MirrorInv
  <2>1. ~Overtaken(m, prev)
    BY <1>3, <1>3b DEF Sound
  <2>2. Sound
    BY <1>3, <1>3b, SoundBefore
  <2> QED  BY <1>1, <2>1, <2>2 DEF DurableInv
<1>5. SnapshotInv' /\ \A k : Covered(k) => Covered(k)'
  BY <1>1, <1>4, SnapshotStays
<1>6. /\ Len(leader_log) \in Nat /\ prev \in Nat /\ n \in Nat /\ prev + n \in 0..Len(leader_log)
      /\ disk \in Seq(Nat \X Nat) /\ Len(disk) \in Nat /\ committed \in Nat
  BY <1>4, DiskFields, LenProperties DEF ClusterInv
<1>7. commit \in 0..committed /\ commit <= prev + n /\ commit \in Nat
  BY <1>6 DEF MinOf
<1>8. MirrorOf(log, disk, log.snapshot_last_index)
  BY <1>4, MirrorFacts
<1>9. CASE Refuses(m) \/ FindsAll(m, prev, n)
  <2>1. m.log = log /\ m.cut = 0 /\ m.batch = << >>
    BY <1>9 DEF Refuses, FindsAll
  <2>2. disk' = disk /\ next_offset' = next_offset
    BY <1>3a, <1>4, <2>1, NothingOnDisk
  <2>3. /\ DiskInv' /\ \A k : Same(k)' <=> Same(k)
        /\ \A x : Held(x)' <=> Held(x)
    BY <1>1, <1>4, <2>2, DiskStays
  <2>4. OffsetInv'
    BY <1>3b, <1>4, <2>2, OffsetStays
  <2>5. m.match \in 0..Len(leader_log) /\ \A k \in 1..m.match : Same(k)
    <3>1. CASE Refuses(m)
      <4>1. m.match = 0
        BY <3>1 DEF Refuses
      <4>2. 0 \in 0..Len(leader_log) /\ \A k \in 1..0 : Same(k)
        BY <1>6
      <4> QED  BY <4>1, <4>2
    <3>2. CASE FindsAll(m, prev, n)
      BY <1>6, <3>2 DEF FindsAll
    <3> QED  BY <1>9, <3>1, <3>2
  <2>6. AckedInv'
    BY <1>1, <1>4, <1>5, <2>3, <2>5, AckedStays
  <2>7. m.ok => commit <= Len(disk') /\ \A k \in 1..commit : Same(k)'
    <3>1. SUFFICES ASSUME m.ok
                   PROVE  commit <= Len(disk') /\ \A k \in 1..commit : Same(k)'
      OBVIOUS
    <3>2. \A k \in 1..(prev + n) : Same(k)
      BY <1>9, <3>1 DEF Refuses, FindsAll
    <3>3. \A k \in 1..commit : Same(k)'
      <4>1. \A k \in 1..commit : k \in 1..(prev + n)
        BY <1>6, <1>7
      <4> QED  BY <2>3, <3>2, <4>1
    <3>4. commit <= Len(disk)
      <4>1. CASE commit = 0
        BY <1>6, <4>1
      <4>2. CASE commit # 0
        <5>1. commit \in 1..commit
          BY <1>7, <4>2
        <5> QED  BY <2>3, <3>3, <5>1 DEF Same
      <4> QED  BY <4>1, <4>2
    <3> QED  BY <2>2, <3>3, <3>4
  <2>8. disk' \in Seq(Nat \X Nat) /\ MirrorOf(log', disk', log.snapshot_last_index) /\ log' = log
    BY <1>1, <1>6, <1>8, <2>1, <2>2
  <2>9. MirrorInv'
    BY <1>1, <1>4, <1>7, <2>3, <2>7, <2>8, MirrorAfterAppend
  <2> QED  BY <1>5, <2>3, <2>4, <2>6, <2>9
<1>10. ASSUME NEW cut \in (prev + 1)..(prev + n), Rewrites(m, prev, n, cut)
       PROVE  DiskInv' /\ OffsetInv' /\ SnapshotInv' /\ AckedInv' /\ MirrorInv'
  <2>1. /\ m.ok /\ m.match = prev + n
        /\ m.log.snapshot_last_index = log.snapshot_last_index
        /\ MirrorOf(m.log, KeptDisk(cut) \o m.batch, log.snapshot_last_index)
        /\ m.batch \in Seq(Nat \X Nat)
        /\ Len(KeptDisk(cut) \o m.batch) = prev + n
    BY <1>10 DEF Rewrites
  <2>2. /\ cut \in Nat \ {0} /\ Len(m.batch) \in Nat /\ Len(m.batch) \in 0..Len(m.batch)
        /\ m.batch = SubSeq(m.batch, 1, Len(m.batch))
    BY <1>6, <2>1, LenProperties, SubSeqFull
  <2>3. /\ DiskInv' /\ OffsetInv' /\ disk' = KeptDisk(cut) \o m.batch
        /\ Len(disk') <= Len(leader_log)
        /\ \A k \in 1..Len(disk') : Same(k)'
        /\ \A x \in Nat : Held(x)'
        /\ \A k \in 1..Len(leader_log) : Same(k) => Same(k)'
    BY <1>1, <1>3a, <1>3b, <1>4, <1>6, <1>10, <2>2, RewriteOnDisk
  <2>4. Len(disk') = prev + n /\ disk' \in Seq(Nat \X Nat)
    BY <2>1, <2>3 DEF DiskInv
  <2>5. AckedInv'
    <3>1. m.match \in 0..Len(leader_log) /\ \A k \in 1..m.match : Same(k)'
      BY <1>6, <2>1, <2>3, <2>4
    <3> QED  BY <1>1, <1>4, <1>5, <2>3, <3>1, AckedStays
  <2>6. commit <= Len(disk') /\ \A k \in 1..commit : Same(k)'
    <3>1. \A k \in 1..commit : k \in 1..Len(disk')
      BY <1>6, <1>7, <2>4
    <3> QED  BY <1>7, <2>3, <2>4, <3>1
  <2>7. /\ MirrorOf(log', disk', log.snapshot_last_index)
        /\ log'.snapshot_last_index = log.snapshot_last_index
    BY <1>1, <2>1, <2>3
  <2>8. MirrorInv'
    BY <1>1, <1>4, <1>7, <2>3, <2>4, <2>6, <2>7, MirrorAfterAppend
  <2> QED  BY <1>5, <2>3, <2>5, <2>8
<1>11. \/ Refuses(m) \/ FindsAll(m, prev, n)
       \/ \E cut \in (prev + 1)..(prev + n) : Rewrites(m, prev, n, cut)
  BY <1>4, MergeCases DEF m
<1> QED  BY <1>9, <1>10, <1>11

\* A crash inside truncate_from, on the way to cutting the disk below cut: none of
\* the leader's entries is lost.
LEMMA CrashTruncatingKeeps ==
  ASSUME ClusterInv, DiskInv, OffsetInv, UNCHANGED <<leader_log, leader_term>>,
         NEW cut \in Nat \ {0}, cut <= Len(disk) + 1, ~Same(cut), NEW noted,
         CrashTruncating(cut - 1, noted)
  PROVE  /\ DiskInv' /\ OffsetInv' /\ defects \cup noted \subseteq defects'
         /\ \A k \in 1..Len(leader_log) : Same(k) => Same(k)'
<1>1. Len(disk) \in Nat /\ cut - 1 \in Nat /\ cut - 1 <= Len(disk)
  BY DiskFields
<1>2. PICK t \in TruncateCrashes(disk, next_offset, cut - 1) :
        /\ disk' = t[1] /\ next_offset' = t[2]
        /\ defects' = defects \cup noted \cup Note("torn", next_offset' # Len(disk'))
  BY DEF CrashTruncating, DiskBecomes
<1>3. PICK a \in 0..Len(disk) : Leaves(t, cut - 1, a)
  BY <1>1, CrashLeaves
<1>4. /\ disk' = SubSeq(disk, 1, a) /\ next_offset' \in Nat /\ a <= next_offset'
      /\ a < cut - 1 => a = Len(disk)
  BY <1>2, <1>3 DEF Leaves, FirstRecords
<1>5. DiskInv' /\ Len(disk') = a /\ \A k \in 1..a : Same(k)' <=> Same(k)
  BY <1>4, DiskPart
<1>6. /\ defects \cup noted \subseteq defects'
      /\ next_offset' # Len(disk') => "torn" \in defects'
  BY <1>2, Zenon DEF Note
<1>7. OffsetInv'
  BY <1>4, <1>5, <1>6 DEF OffsetInv
<1>8. ASSUME NEW k \in 1..Len(leader_log), Same(k)
      PROVE  Same(k)'
  <2>1. k \in 1..(cut - 1) /\ k <= Len(disk)
    BY <1>8, SameBelow
  <2>2. k \in 1..a
    BY <1>1, <1>4, <2>1
  <2> QED  BY <1>5, <1>8, <2>2
<1> QED  BY <1>5, <1>6, <1>7, <1>8

LEMMA CrashInAppendStep ==
  ASSUME DurableInv, NEW prev \in 0..Len(leader_log), NEW n \in 0..(Len(leader_log) - prev),
         CrashInAppend(prev, n)
  PROVE  DurableInv'
<1> DEFINE m == MergeOf(prev, n)
           noted == Note("overtaken", Overtaken(m, prev))
<1>1. /\ up /\ leader = "other" /\ up' = FALSE
      /\ \/ m.cut # 0 /\ CrashTruncating(m.cut - 1, noted)
         \/ \E t \in TruncatedFor(m) : \E w \in 0..Len(m.batch) :
              /\ DiskBecomes(AppendDisk(t[1], t[2], SubSeq(m.batch, 1, w)))
              /\ defects' = defects \cup AppendDefects(m, prev, w, t)
      /\ UNCHANGED <<snapshots, leader, leader_term, leader_log, committed, acked>>
  BY DEF CrashInAppend, MergeOf, Incoming, LoseMemory, cluster
<1> HIDE DEF m
<1>2. ClusterInv'
  BY <1>1 DEF DurableInv, ClusterInv
<1>3. SUFFICES ASSUME Sound'
               PROVE  DiskInv' /\ OffsetInv' /\ SnapshotInv' /\ AckedInv'
  BY <1>1, <1>2 DEF DurableInv
<1>4. defects \subseteq defects' /\ (Overtaken(m, prev) => "overtaken" \in defects')
  <2>1. CASE CrashTruncating(m.cut - 1, noted)
    BY <2>1, Zenon DEF CrashTruncating, Note, noted
  <2>2. CASE \E t \in TruncatedFor(m) : \E w \in 0..Len(m.batch) :
               defects' = defects \cup AppendDefects(m, prev, w, t)
    BY <2>2, Zenon DEF AppendDefects, Note
  <2> QED  BY <1>1, <2>1, <2>2
<1>5. /\ ~Overtaken(m, prev)
      /\ ClusterInv /\ DiskInv /\ OffsetInv /\ SnapshotInv /\ AckedInv /\ MirrorInv
  <2>1. ~Overtaken(m, prev)
    BY <1>3, <1>4 DEF Sound
  <2>2. Sound
    BY <1>3, <1>4, SoundBefore
  <2> QED  BY <1>1, <2>1, <2>2 DEF DurableInv
<1>6. SnapshotInv' /\ \A k : Covered(k) => Covered(k)'
  BY <1>1, <1>5, SnapshotStays
<1>7. Len(leader_log) \in Nat /\ prev \in Nat /\ n \in Nat
  BY <1>5, LenProperties DEF ClusterInv
<1>8. SUFFICES DiskInv' /\ OffsetInv' /\ \A k \in 1..Len(leader_log) : Same(k) => Same(k)'
  BY <1>1, <1>5, <1>6, NothingAcked
<1>9. CASE m.cut # 0 /\ CrashTruncating(m.cut - 1, noted)
  <2>1. ~Refuses(m) /\ ~FindsAll(m, prev, n)
    BY <1>9 DEF Refuses, FindsAll
  <2>2. PICK cut \in (prev + 1)..(prev + n) : Rewrites(m, prev, n, cut)
    BY <1>5, <2>1, MergeCases DEF m
  <2>3. m.cut = cut /\ cut \in Nat \ {0} /\ cut <= Len(disk) + 1 /\ ~Same(cut)
    BY <1>7, <2>2 DEF Rewrites
  <2> HIDE DEF noted
  <2> QED  BY <1>1, <1>5, <1>9, <2>3, CrashTruncatingKeeps
<1>10. ASSUME NEW t \in TruncatedFor(m), NEW w \in 0..Len(m.batch),
              DiskBecomes(AppendDisk(t[1], t[2], SubSeq(m.batch, 1, w)))
       PROVE  DiskInv' /\ OffsetInv' /\ \A k \in 1..Len(leader_log) : Same(k) => Same(k)'
  <2>1. CASE Refuses(m) \/ FindsAll(m, prev, n)
    <3>1. m.cut = 0 /\ m.batch = << >>
      BY <2>1 DEF Refuses, FindsAll
    <3>2. Len(<< >>) = 0 /\ << >> \in Seq(Nat \X Nat)
      BY EmptySeq
    <3>3. w = 0
      BY <3>1, <3>2
    <3>4. SubSeq(m.batch, 1, w) = << >>
      BY <3>1, <3>2, <3>3, SubSeqEmpty
    <3>5. disk' = disk /\ next_offset' = next_offset
      BY <1>5, <1>10, <3>1, <3>4, NothingOnDisk
    <3>6. DiskInv' /\ \A k : Same(k)' <=> Same(k)
      BY <1>1, <1>5, <3>5, DiskStays
    <3>7. OffsetInv'
      BY <1>4, <1>5, <3>5, OffsetStays
    <3> QED  BY <3>6, <3>7
  <2>2. ASSUME NEW cut \in (prev + 1)..(prev + n), Rewrites(m, prev, n, cut)
        PROVE  DiskInv' /\ OffsetInv' /\ \A k \in 1..Len(leader_log) : Same(k) => Same(k)'
    <3>1. cut \in Nat \ {0}
      BY <1>7
    <3> QED  BY <1>1, <1>4, <1>5, <1>7, <1>10, <2>2, <3>1, RewriteOnDisk
  <2> QED  BY <1>5, <2>1, <2>2, MergeCases DEF m
<1> QED  BY <1>1, <1>9, <1>10

LEMMA CrashStep ==
  ASSUME DurableInv, Crash
  PROVE  DurableInv'
<1>1. /\ up' = FALSE
      /\ UNCHANGED <<disk, next_offset, snapshots, leader_term, leader_log, committed, acked, defects>>
      /\ leader' = IF leader = "self" THEN "none" ELSE leader
  BY DEF Crash, LoseMemory, files, history
<1>2. ClusterInv'
  <2>1. leader' \in {"other", "none"}
    BY <1>1 DEF DurableInv, ClusterInv
  <2> QED  BY <1>1, <2>1 DEF DurableInv, ClusterInv
<1>3. Sound' => DiskInv' /\ OffsetInv' /\ SnapshotInv' /\ AckedInv'
  BY <1>1 DEF Sound, DurableInv, DiskInv, OffsetInv, SnapshotInv, AckedInv, Covered, Same,
              OfLeader, TermOf
<1> QED  BY <1>1, <1>2, <1>3 DEF DurableInv

\* A snapshot file of a committed entry is written.
LEMMA WriteSnapshotKeeps ==
  ASSUME ClusterInv, SnapshotInv,
         NEW index \in 1..committed, NEW term \in Nat \cup {-1},
         snapshots' = WriteSnapshot(index, term), UNCHANGED committed
  PROVE  /\ SnapshotInv'
         /\ \A s \in snapshots : \E r \in snapshots' : r.index = s.index
         /\ \E r \in snapshots' : r.index = index
         /\ \A k \in 1..Len(leader_log) : Covered(k) => Covered(k)'
         /\ \A k \in 1..index : Covered(k)'
<1>1. committed \in Nat /\ index \in Nat \ {0} /\ index <= committed
  BY LenProperties DEF ClusterInv
<1> DEFINE new == [index |-> index, term |-> term]
<1>2. new \in [index : Nat \ {0}, term : Nat \cup {-1}] /\ new.index = index
  BY <1>1
<1>3. snapshots' = {s \in snapshots : s.index # index} \cup {new}
  BY DEF WriteSnapshot
<1> HIDE DEF new
<1>4. SnapshotInv'
  <2>1. snapshots' \subseteq [index : Nat \ {0}, term : Nat \cup {-1}]
    BY <1>2, <1>3 DEF SnapshotInv
  <2>2. \A s \in snapshots' : s.index <= committed
    BY <1>1, <1>2, <1>3 DEF SnapshotInv
  <2> QED  BY <2>1, <2>2 DEF SnapshotInv
<1>5. \A s \in snapshots : \E r \in snapshots' : r.index = s.index
  BY <1>2, <1>3
<1>6. \E r \in snapshots' : r.index = index
  BY <1>2, <1>3
<1>7. \A k \in 1..Len(leader_log) : Covered(k) => Covered(k)'
  BY <1>5 DEF Covered
<1>8. \A k \in 1..index : Covered(k)'
  <2>1. \A k \in 1..index : index >= k
    BY <1>1
  <2> QED  BY <1>6, <2>1 DEF Covered
<1> QED  BY <1>4, <1>5, <1>6, <1>7, <1>8

LEMMA CrashInInstallStep ==
  ASSUME DurableInv, NEW index \in 1..committed, CrashInInstall(index)
  PROVE  DurableInv'
<1>1. /\ up' = FALSE /\ leader = "other" /\ snapshots' = WriteSnapshot(index, TermOf(index))
      /\ CrashInResync(index)
      /\ UNCHANGED <<leader, leader_term, leader_log, committed, acked>>
  BY DEF CrashInInstall, LoseMemory, cluster
<1>2. ClusterInv /\ ClusterInv'
  BY <1>1 DEF DurableInv, ClusterInv
<1>3. SUFFICES ASSUME Sound'
               PROVE  DiskInv' /\ OffsetInv' /\ SnapshotInv' /\ AckedInv'
  BY <1>1, <1>2 DEF DurableInv
<1>4. defects \subseteq defects'
  BY <1>1, Zenon DEF CrashInResync, CrashTruncating, Note
<1>5. Sound /\ DiskInv /\ OffsetInv /\ SnapshotInv /\ AckedInv
  BY <1>3, <1>4, SoundBefore DEF DurableInv
<1>6. index \in Nat /\ index \in 1..Len(leader_log)
  BY <1>2, LenProperties DEF ClusterInv
<1>7. disk' = disk /\ OffsetInv'
  BY <1>1, <1>3, <1>5, <1>6, CrashInResyncKeeps
<1>8. DiskInv' /\ \A k : Same(k)' <=> Same(k)
  BY <1>1, <1>5, <1>7, DiskStays
<1>9. TermOf(index) \in Nat \cup {-1}
  <2>1. TermOf(index) = leader_log[index].term /\ leader_log[index].term \in Nat
    BY <1>2, <1>6, LeaderEntry
  <2> QED  BY <2>1
<1>10. SnapshotInv' /\ \A k \in 1..Len(leader_log) : Covered(k) => Covered(k)'
  BY <1>1, <1>2, <1>5, <1>9, WriteSnapshotKeeps
<1>11. AckedInv'
  BY <1>1, <1>2, <1>5, <1>8, <1>10, NothingAcked
<1> QED  BY <1>7, <1>8, <1>10, <1>11

\* The mirror of a log that is compacted to a point above its snapshot.
LEMMA CompactMirror ==
  ASSUME NEW l, NEW d \in Seq(Nat \X Nat), NEW b \in Nat, MirrorOf(l, d, b),
         NEW index \in Nat, b <= index, NEW term \in Nat \cup {-1}
  PROVE  MirrorOf(ResetTo(l, index, term), d, index)
<1> DEFINE r == ResetTo(l, index, term)
           size == Len(l.entries)
<1>1. /\ l \in LogOf(Nat) /\ l.entries \in Seq(EntryOf(Nat)) /\ size \in Nat /\ Len(d) \in Nat
      /\ NumberedFrom(b, l.entries)
      /\ \A k \in 1..size : l.entries[k] = [index |-> b + k, term |-> d[b + k][1], payload |-> b + k]
      /\ size = IF b < Len(d) THEN Len(d) - b ELSE 0
  BY LenProperties, ReadType DEF MirrorOf, NumberedLog
<1>2. r \in LogOf(Nat)
  BY <1>1, ResetToType
<1>3. /\ r.entries = DropThrough(l.entries, index) /\ r.first_index = index + 1
      /\ r.snapshot_last_index = index
  BY DEF ResetTo
<1>4. CASE index < Len(d)
  <2>0. size + b - Len(d) = 0
    <3> HIDE DEF size
    <3> QED  BY <1>1, <1>4
  <2>1. DropThrough(l.entries, index) = SubSeq(l.entries, index - b + 1, size)
    <3>1. index \in Int /\ index <= b + size
      BY <1>1, <1>4, <2>0
    <3>2. (IF index < b THEN 1 ELSE index - b + 1) = index - b + 1
      OBVIOUS
    <3> QED  BY <1>1, <3>1, <3>2, DropThroughNumbered
  <2> HIDE DEF r, size
  <2>2. /\ Len(r.entries) = size - (index - b)
        /\ \A k \in 1..(size - (index - b)) : r.entries[k] = l.entries[index - b + k]
    <3> DEFINE from == index - b + 1
    <3>1. /\ from \in Int /\ size \in Int /\ from <= size
          /\ size - from + 1 = size - (index - b)
          /\ \A k \in Int : from + k - 1 = index - b + k
      BY <1>1, <1>4, <2>0
    <3>2. \A k \in from..size : l.entries[k] \in EntryOf(Nat)
      <4> TAKE k \in from..size
      <4>1. k \in 1..size
        BY <1>1
      <4> QED  BY <1>1, <4>1, ElementOfSeq DEF size
    <3> HIDE DEF from
    <3>3. /\ Len(SubSeq(l.entries, from, size)) = IF from <= size THEN size - from + 1 ELSE 0
          /\ \A k \in 1..(size - from + 1) : SubSeq(l.entries, from, size)[k] = l.entries[from + k - 1]
      BY <3>1, <3>2, SubSeqProperties
    <3>4. r.entries = SubSeq(l.entries, from, size)
      BY <1>3, <2>1 DEF from
    <3>5. Len(r.entries) = size - from + 1 /\ size - from + 1 = size - (index - b)
      BY <3>1, <3>3, <3>4
    <3>6. ASSUME NEW k \in 1..(size - (index - b))
          PROVE  r.entries[k] = l.entries[index - b + k]
      <4>1. k \in 1..(size - from + 1) /\ from + k - 1 = index - b + k
        BY <3>1
      <4>2. r.entries[k] = l.entries[from + k - 1]
        BY <3>3, <3>4, <4>1
      <4> QED  BY <4>1, <4>2
    <3> QED  BY <3>5, <3>6
  <2>3. ASSUME NEW k \in 1..(size - (index - b))
        PROVE  r.entries[k] = [index |-> index + k, term |-> d[index + k][1], payload |-> index + k]
    <3>1. index - b + k \in 1..size /\ b + (index - b + k) = index + k
      <4>1. b \in Nat /\ index \in Nat /\ b <= index /\ size \in Nat
        BY <1>1
      <4> QED  BY ONLY <4>1, k \in 1..(size - (index - b))
    <3> QED  BY <1>1, <2>2, <3>1
  <2>4. Len(r.entries) = Len(d) - index
    <3>1. size - (index - b) = Len(d) - index
      BY <1>1, <2>0
    <3> QED  BY <2>2, <3>1
  <2>5. NumberedLog(index, r)
    <3>1. \A k \in 1..Len(r.entries) : r.entries[k].index = index + k
      <4>1. \A k \in 1..(size - (index - b)) : r.entries[k].index = index + k
        <5> TAKE k \in 1..(size - (index - b))
        <5>1. r.entries[k] = [index |-> index + k, term |-> d[index + k][1], payload |-> index + k]
          BY <2>3
        <5> QED  BY <5>1
      <4> QED  BY <2>2, <4>1
    <3>2. r.first_index - 1 = index
      BY <1>3
    <3> QED  BY <3>1, <3>2 DEF NumberedLog, NumberedFrom
  <2>6. \A k \in 1..Len(r.entries) :
          r.entries[k] = [index |-> index + k, term |-> d[index + k][1], payload |-> index + k]
    BY <2>2, <2>3
  <2> QED  BY <1>2, <1>3, <1>4, <2>4, <2>5, <2>6 DEF MirrorOf, r
<1>5. CASE ~(index < Len(d))
  <2> DEFINE above == {k \in 1..size : l.entries[k].index > index}
  <2>1. above = {}
    <3>1. ASSUME NEW k \in 1..size
          PROVE  ~(l.entries[k].index > index)
      <4>1. l.entries[k].index = b + k
        BY DEF NumberedFrom, MirrorOf, NumberedLog
      <4>2. b + k <= index
        <5>1. k \in Nat /\ k <= size
          BY <1>1
        <5> HIDE DEF size
        <5> QED  BY <1>1, <1>5, <5>1
      <4> QED  BY <4>1, <4>2
    <3> QED  BY <3>1
  <2>2. DropThrough(l.entries, index) = SubSeq(l.entries, Least(above, size + 1), size)
    BY DEF DropThrough
  <2>3. Least(above, size + 1) = size + 1
    <3> HIDE DEF above
    <3> QED  BY <2>1, LeastOfEmpty
  <2>4. Len(SubSeq(l.entries, size + 1, size)) = 0
    <3>1. \A k \in (size + 1)..size : l.entries[k] \in EntryOf(Nat)
      BY <1>1
    <3>2. size + 1 \in Int /\ size \in Int
      BY <1>1
    <3>3. Len(SubSeq(l.entries, size + 1, size)) = IF size + 1 <= size THEN size - (size + 1) + 1 ELSE 0
      <4> HIDE DEF size
      <4> QED  BY <3>1, <3>2, SubSeqProperties
    <3> HIDE DEF size
    <3> QED  BY <1>1, <3>3
  <2> HIDE DEF above, r, size
  <2>5. Len(r.entries) = 0
    BY <1>3, <2>2, <2>3, <2>4
  <2>6. NumberedLog(index, r)
    <3>1. r.first_index - 1 = index
      BY <1>3
    <3> QED  BY <2>5, <3>1 DEF NumberedLog, NumberedFrom
  <2> QED  BY <1>2, <1>3, <1>5, <2>5, <2>6 DEF MirrorOf, r
<1> QED  BY <1>1, <1>4, <1>5

LEMMA InstallSnapshotStep ==
  ASSUME DurableInv, NEW index \in 1..committed, InstallSnapshot(index)
  PROVE  DurableInv'
<1>1. /\ up /\ leader = "other"
      /\ UNCHANGED <<up, leader, leader_term, leader_log, committed>>
      /\ commit_index' = MaxOf(commit_index, index)
      /\ acked' = acked \cup {<<k, TermOf(k)>> : k \in 1..index}
  BY DEF InstallSnapshot, cluster
<1>2. ClusterInv /\ ClusterInv'
  BY <1>1 DEF DurableInv, ClusterInv
<1>3. SUFFICES ASSUME Sound'
               PROVE  DiskInv' /\ OffsetInv' /\ SnapshotInv' /\ AckedInv' /\ MirrorInv'
  BY <1>2 DEF DurableInv
<1>4. defects \subseteq defects'
  BY Zenon DEF InstallSnapshot, Resync, Note
<1>5. Sound /\ DiskInv /\ OffsetInv /\ SnapshotInv /\ AckedInv /\ MirrorInv
  BY <1>1, <1>3, <1>4, SoundBefore DEF DurableInv
<1>6. /\ Len(leader_log) \in Nat /\ committed \in Nat /\ index \in Nat \ {0} /\ index <= committed
      /\ index \in 1..Len(leader_log) /\ index \in 0..Len(leader_log)
  BY <1>2, LenProperties DEF ClusterInv
<1> DEFINE b == log.snapshot_last_index
<1>7. /\ b \in Nat /\ commit_index \in Nat /\ applied_index \in Nat
      /\ b <= applied_index /\ applied_index <= commit_index /\ commit_index <= committed
      /\ Held(b) /\ Held(applied_index) /\ Held(commit_index) /\ MirrorOf(log, disk, b)
      /\ disk \in Seq(Nat \X Nat) /\ Len(disk) \in Nat
  BY <1>2, <1>5, MirrorFacts, DiskFields DEF MirrorInv
<1>8. commit_index' \in 0..committed /\ (commit_index' = commit_index \/ commit_index' = index)
      /\ commit_index <= commit_index' /\ index <= commit_index'
  BY <1>1, <1>6, <1>7 DEF MaxOf
<1>9. CASE ~AlreadyHas(index)
  <2>1. /\ log' = ResetTo(log, index, TermOf(index))
        /\ applied_index' = MaxOf(applied_index, index)
        /\ snapshots' = WriteSnapshot(index, TermOf(index))
        /\ Resync(index, {})
    BY <1>9 DEF InstallSnapshot
  <2>2. PICK t \in TruncateDisk(disk, next_offset, index) :
          /\ disk' = t[1] /\ next_offset' = t[2]
          /\ Len(disk') < Len(disk) => "cut" \in defects'
    BY <2>1, Zenon DEF Resync, DiskBecomes, Note
  <2>3. disk' = disk /\ Len(disk) <= index /\ OffsetInv'
    BY <1>3, <1>4, <1>5, <1>6, <2>2, ResyncKeeps
  <2>4. DiskInv' /\ \A k : Same(k)' <=> Same(k)
    BY <1>1, <1>5, <2>3, DiskStays
  <2>5. TermOf(index) \in Nat \cup {-1}
    <3>1. TermOf(index) = leader_log[index].term /\ leader_log[index].term \in Nat
      BY <1>2, <1>6, LeaderEntry
    <3> QED  BY <3>1
  <2>6. /\ SnapshotInv'
        /\ \E r \in snapshots' : r.index = index
        /\ \A k \in 1..Len(leader_log) : Covered(k) => Covered(k)'
        /\ \A k \in 1..index : Covered(k)'
    BY <1>1, <1>2, <1>5, <2>1, <2>5, WriteSnapshotKeeps
  <2>7. AckedInv'
    BY <1>1, <1>2, <1>5, <1>6, <2>4, <2>6, AckedStays
  <2>8. b <= index
    BY <1>6, <1>7, <1>9 DEF AlreadyHas
  <2>9. MirrorOf(log', disk', index) /\ log'.snapshot_last_index = index
    <3>1. /\ MirrorOf(ResetTo(log, index, TermOf(index)), disk, index)
          /\ ResetTo(log, index, TermOf(index)).snapshot_last_index = index
      <4> DEFINE term == TermOf(index)
      <4>1. /\ index \in Nat /\ disk \in Seq(Nat \X Nat) /\ b \in Nat /\ MirrorOf(log, disk, b)
            /\ b <= index /\ term \in Nat \cup {-1}
        BY <1>6, <1>7, <2>5, <2>8
      <4> HIDE DEF b, term
      <4>2. MirrorOf(ResetTo(log, index, term), disk, index)
        BY ONLY <4>1, CompactMirror
      <4> QED  BY <4>2 DEF term, ResetTo
    <3> QED  BY <2>1, <2>3, <3>1
  <2>10. applied_index' \in index..commit_index' /\ applied_index' >= index
    BY <1>1, <1>6, <1>7, <2>1 DEF MaxOf
  <2>11. ~(index < Len(disk')) /\ ~(applied_index' < Len(disk')) /\ ~(commit_index' < Len(disk'))
    BY <1>6, <1>7, <1>8, <2>3, <2>10
  <2>12. Held(log.snapshot_last_index)' /\ Held(applied_index)' /\ Held(commit_index)'
    BY <2>9, <2>11 DEF Held
  <2>13. MirrorInv'
    BY <1>1, <1>8, <2>6, <2>9, <2>10, <2>12 DEF MirrorInv
  <2> QED  BY <2>3, <2>4, <2>6, <2>7, <2>13
<1>10. CASE AlreadyHas(index)
  <2>1. UNCHANGED <<log, applied_index, disk, next_offset, snapshots, defects>>
    BY <1>10 DEF InstallSnapshot, files
  <2>2. /\ DiskInv' /\ \A k : Same(k)' <=> Same(k)
        /\ \A x : Held(x)' <=> Held(x)
    BY <1>1, <1>5, <2>1, DiskStays
  <2>3. OffsetInv'
    BY <1>4, <1>5, <2>1, OffsetStays
  <2>4. SnapshotInv' /\ \A k : Covered(k) => Covered(k)'
    BY <1>1, <1>5, <2>1, SnapshotStays
  <2>5. (\A k \in 1..index : Same(k)) \/ (b >= index /\ \A k \in 1..index : Covered(k))
    <3>1. CASE TermAt(log, index) = TermOf(index)
      <4>1. TermOf(index) = leader_log[index].term
        BY <1>2, <1>6, LeaderEntry
      <4>2. Same(index) /\ index <= Len(disk)
        BY <1>2, <1>5, <1>6, <3>1, <4>1, CompareIsSame
      <4>3. index \in 1..Len(disk)
        BY <1>6, <1>7, <4>2
      <4> QED  BY <1>5, <4>2, <4>3 DEF DiskInv
    <3>2. CASE log.snapshot_last_index >= index
      <4>1. PICK s \in snapshots : s.index = b
        BY <1>5, <1>6, <1>7, <3>2 DEF MirrorInv
      <4>2. \A k \in 1..index : s.index >= k
        BY <1>6, <1>7, <3>2, <4>1
      <4> QED  BY <3>2, <4>2 DEF Covered
    <3> QED  BY <1>10, <3>1, <3>2 DEF AlreadyHas
  <2>6. AckedInv'
    <3>1. \A k \in 1..index : Same(k)' \/ Covered(k)'
      BY <2>2, <2>4, <2>5
    <3> QED  BY <1>1, <1>2, <1>5, <1>6, <2>2, <2>4, <3>1, AckedStays
  <2>7. commit_index' < Len(disk) => \A k \in 1..commit_index' : Same(k)
    <3>1. CASE commit_index' = commit_index
      BY <1>7, <3>1 DEF Held
    <3>2. CASE commit_index' = index /\ ~(b >= index)
      BY <2>5, <3>2
    <3>3. CASE b >= index
      <4>1. commit_index' = commit_index
        BY <1>1, <1>6, <1>7, <3>3 DEF MaxOf
      <4> QED  BY <3>1, <4>1
    <3> QED  BY <1>8, <3>1, <3>2, <3>3
  <2>8. Held(log.snapshot_last_index)' /\ Held(applied_index)' /\ Held(commit_index)'
    <3>1. Held(log.snapshot_last_index)' /\ Held(applied_index)'
      BY <1>7, <2>1, <2>2 DEF Held
    <3>2. Held(commit_index)'
      BY <2>1, <2>2, <2>7 DEF Held
    <3> QED  BY <3>1, <3>2
  <2>9. applied_index \in b..commit_index'
    BY <1>6, <1>7, <1>8
  <2>10. MirrorInv'
    BY <1>1, <1>5, <1>8, <2>1, <2>8, <2>9 DEF MirrorInv
  <2> QED  BY <2>2, <2>3, <2>4, <2>6, <2>10
<1> QED  BY <1>9, <1>10

LEMMA TakeSnapshotStep ==
  ASSUME DurableInv, TakeSnapshot
  PROVE  DurableInv'
<1> DEFINE index == applied_index
           b == log.snapshot_last_index
           term == IF TermAt(log, index) < 0 /\ b = index
                   THEN log.snapshot_last_term ELSE TermAt(log, index)
<1>1. /\ up /\ index > 0
      /\ snapshots' = WriteSnapshot(index, term) /\ log' = Compact(log, index, term)
      /\ UNCHANGED <<up, commit_index, applied_index, disk, next_offset>>
      /\ UNCHANGED <<leader, leader_term, leader_log, committed, acked, defects>>
  BY DEF TakeSnapshot, cluster, history
<1> HIDE DEF term
<1>2. ClusterInv'
  BY <1>1 DEF DurableInv, ClusterInv
<1>3. SUFFICES ASSUME Sound'
               PROVE  DiskInv' /\ OffsetInv' /\ SnapshotInv' /\ AckedInv' /\ MirrorInv'
  BY <1>2 DEF DurableInv
<1>4. ClusterInv /\ DiskInv /\ OffsetInv /\ SnapshotInv /\ AckedInv /\ MirrorInv
  BY <1>1, <1>3 DEF DurableInv, Sound
<1>5. /\ b \in Nat /\ commit_index \in Nat /\ index \in Nat /\ committed \in Nat
      /\ b <= index /\ index <= commit_index /\ commit_index <= committed
      /\ disk \in Seq(Nat \X Nat) /\ Len(disk) \in Nat /\ log \in LogOf(Nat)
      /\ MirrorOf(log, disk, b) /\ log.first_index - 1 = b
      /\ Held(index) /\ Held(commit_index)
      /\ LastIndex(log) = IF b < Len(disk) THEN Len(disk) ELSE 0
  BY <1>4, MirrorFacts, DiskFields DEF MirrorInv
<1>6. index \in 1..committed
  BY <1>1, <1>5
<1>7. term \in Nat \cup {-1}
  <2>1. TermAt(log, index) \in Nat \cup {-1}
    BY <1>5, TermAtType
  <2>2. log.snapshot_last_term \in Nat \cup {-1}
    BY <1>5 DEF LogOf
  <2> QED  BY <2>1, <2>2 DEF term
<1>8. /\ SnapshotInv'
      /\ \A s \in snapshots : \E r \in snapshots' : r.index = s.index
      /\ \E r \in snapshots' : r.index = index
      /\ \A k \in 1..Len(leader_log) : Covered(k) => Covered(k)'
  BY <1>1, <1>4, <1>6, <1>7, WriteSnapshotKeeps
<1>9. /\ DiskInv' /\ \A k : Same(k)' <=> Same(k)
      /\ \A x : Held(x)' <=> Held(x)
  BY <1>1, <1>4, DiskStays
<1>10. OffsetInv'
  BY <1>1, <1>4, OffsetStays
<1>11. AckedInv'
  BY <1>1, <1>4, <1>8, <1>9, NothingAcked
<1>12. CASE log' = log
  <2>1. Held(log.snapshot_last_index)' /\ Held(applied_index)' /\ Held(commit_index)'
    BY <1>1, <1>4, <1>9, <1>12 DEF MirrorInv, Held
  <2>2. log.snapshot_last_index > 0 => \E s \in snapshots' : s.index = log.snapshot_last_index
    BY <1>4, <1>8 DEF MirrorInv
  <2>3. MirrorInv'
    BY <1>1, <1>4, <1>9, <1>12, <2>1, <2>2 DEF MirrorInv
  <2> QED  BY <1>8, <1>9, <1>10, <1>11, <2>3
<1>13. CASE log' # log
  <2>1. log' = ResetTo(log, index, term) /\ ~(log.entries # << >> /\ index >= LastIndex(log))
    BY <1>1, <1>13 DEF Compact
  <2>2. MirrorOf(log', disk', index) /\ log'.snapshot_last_index = index
    <3>1. disk \in Seq(Nat \X Nat) /\ b \in Nat /\ MirrorOf(log, disk, b) /\ index \in Nat
          /\ b <= index /\ term \in Nat \cup {-1}
      BY <1>5, <1>7
    <3> HIDE DEF b, index
    <3>2. MirrorOf(ResetTo(log, index, term), disk, index)
      BY ONLY <3>1, CompactMirror
    <3>3. log'.snapshot_last_index = index
      BY <2>1 DEF ResetTo
    <3> QED  BY <1>1, <2>1, <3>2, <3>3
  <2>3. leader = "self" => index < Len(disk)
    <3>1. SUFFICES ASSUME leader = "self", ~(index < Len(disk))
                   PROVE  FALSE
      OBVIOUS
    <3>2. log.entries = << >>
      <4>1. index >= LastIndex(log)
        BY <1>5, <3>1
      <4> QED  BY <2>1, <4>1
    <3>3. LastIndex(log) = 0
      BY <3>2 DEF LastIndex
    <3>4. (b = 0 \/ b < Len(disk)) /\ Len(leader_log) = Len(disk)
      BY <1>4, <3>1 DEF MirrorInv
    <3>5. Len(disk) = 0
      <4>1. /\ Len(disk) \in Nat /\ 0 = IF b < Len(disk) THEN Len(disk) ELSE 0
            /\ b = 0 \/ b < Len(disk)
        BY <1>5, <3>3, <3>4
      <4> HIDE DEF b
      <4> QED  BY ONLY <4>1
    <3>6. committed <= Len(leader_log)
      BY <1>4, <1>5, <3>4, <3>5 DEF ClusterInv
    <3> QED  BY <1>1, <1>5, <3>4, <3>5, <3>6
  <2>4. Held(log.snapshot_last_index)' /\ Held(applied_index)' /\ Held(commit_index)'
    BY <1>1, <1>5, <1>9, <2>2 DEF Held
  <2>5. index \in index..commit_index
    BY <1>5
  <2>6. leader = "self" => Len(leader_log) = Len(disk) /\ \A k \in 1..Len(disk) : Same(k)
    BY <1>4 DEF MirrorInv
  <2>7. commit_index' \in 0..committed' /\ applied_index' \in log'.snapshot_last_index..commit_index'
    BY <1>1, <1>4, <2>2, <2>5 DEF MirrorInv
  <2>8. MirrorInv'
    BY <1>1, <1>8, <1>9, <2>2, <2>3, <2>4, <2>6, <2>7 DEF MirrorInv
  <2> QED  BY <1>8, <1>9, <1>10, <1>11, <2>8
<1> QED  BY <1>12, <1>13

\* The mirror that a restart loads.
LEMMA LoadedMirror ==
  ASSUME DiskInv
  PROVE  /\ MirrorOf(Loaded(disk), disk, 0) /\ Loaded(disk).snapshot_last_index = 0
         /\ Loaded(disk).first_index = 1
<1> DEFINE n == Len(disk)
           entries == [k \in 1..n |-> [index |-> k, term |-> disk[k][1], payload |-> disk[k][2]]]
           l == Loaded(disk)
<1>1. n \in Nat /\ \A k \in 1..n : disk[k][1] \in Nat /\ disk[k] = <<disk[k][1], k>>
  BY DiskFields
<1>2. \A k \in 1..n : disk[k][2] = k /\ k \in Nat
  <2> TAKE k \in 1..n
  <2>1. disk[k] = <<disk[k][1], k>>
    BY <1>1
  <2> QED  BY <1>1, <2>1
<1>3. \A k \in 1..n : entries[k] = [index |-> k, term |-> disk[k][1], payload |-> k]
  BY <1>2
<1>4. entries \in [1..n -> EntryOf(Nat)]
  BY <1>1, <1>2 DEF EntryOf
<1>5. /\ l.entries = entries /\ l.first_index = 1
      /\ l.snapshot_last_index = 0 /\ l.snapshot_last_term = 0
      /\ l = [entries |-> entries, first_index |-> 1, snapshot_last_index |-> 0, snapshot_last_term |-> 0]
  BY DEF Loaded, EmptyLog
<1> HIDE DEF entries, l
<1>6. entries \in Seq(EntryOf(Nat)) /\ Len(entries) = n
  BY <1>1, <1>4, FunctionIsSeq
<1>7. l \in LogOf(Nat)
  BY <1>5, <1>6 DEF LogOf
<1>8. \A k \in 1..n : 0 + k = k
  BY <1>1
<1>9. NumberedLog(0, l)
  <2>1. \A k \in 1..n : entries[k].index = 0 + k
    <3> TAKE k \in 1..n
    <3>1. entries[k] = [index |-> k, term |-> disk[k][1], payload |-> k]
      BY <1>3
    <3> QED  BY <1>8, <3>1
  <2>2. l.first_index - 1 = 0
    BY <1>5
  <2> QED  BY <1>5, <1>6, <2>1, <2>2 DEF NumberedLog, NumberedFrom
<1>10. \A k \in 1..Len(l.entries) :
         l.entries[k] = [index |-> 0 + k, term |-> disk[0 + k][1], payload |-> 0 + k]
  BY <1>3, <1>5, <1>6, <1>8
<1>11. Len(l.entries) = IF 0 < Len(disk) THEN Len(disk) - 0 ELSE 0
  <2>1. Len(l.entries) = n
    BY <1>5, <1>6
  <2> QED  BY <1>1, <2>1
<1> QED  BY <1>5, <1>7, <1>9, <1>10, <1>11 DEF MirrorOf, l

LEMMA LatestExists ==
  ASSUME ClusterInv, SnapshotInv, snapshots # {}
  PROVE  LatestSnapshot \in snapshots
<1> DEFINE I == {s.index : s \in snapshots}
<1>1. committed \in Nat
  BY LenProperties DEF ClusterInv
<1>2. I \subseteq 0..committed /\ I # {}
  BY <1>1 DEF SnapshotInv
<1>3. PICK x \in I : \A y \in I : y <= x
  <2>1. 0 \in Int /\ committed \in Int
    BY <1>1
  <2> HIDE DEF I
  <2> QED  BY <1>2, <2>1, GreatestExists
<1>4. \E s \in snapshots : \A r \in snapshots : r.index <= s.index
  BY <1>3
<1> QED  BY <1>4 DEF LatestSnapshot

LEMMA RestartStep ==
  ASSUME DurableInv, Restart
  PROVE  DurableInv'
<1>1. /\ ~up /\ up' = TRUE
      /\ UNCHANGED <<snapshots, leader, leader_term, leader_log, committed, acked>>
  BY DEF Restart, cluster
<1>2. ClusterInv /\ ClusterInv' /\ leader # "self"
  BY <1>1 DEF DurableInv, ClusterInv
<1>3. SUFFICES ASSUME Sound'
               PROVE  DiskInv' /\ OffsetInv' /\ SnapshotInv' /\ AckedInv' /\ MirrorInv'
  BY <1>2 DEF DurableInv
<1>4. defects \subseteq defects'
  BY Zenon DEF Restart, Resync, Note
<1>5. Sound /\ DiskInv /\ OffsetInv /\ SnapshotInv /\ AckedInv
  BY <1>3, <1>4, SoundBefore DEF DurableInv
<1>6. /\ disk \in Seq(Nat \X Nat) /\ Len(disk) \in Nat /\ committed \in Nat
  BY <1>2, <1>5, DiskFields, LenProperties DEF ClusterInv
<1> DEFINE l == Loaded(disk)
<1>7. MirrorOf(l, disk, 0) /\ l.snapshot_last_index = 0 /\ l.first_index = 1
  BY <1>5, LoadedMirror
<1> HIDE DEF l
\* What remains to be shown once the disk is seen to stay and the log to mirror it.
<1>8. ASSUME disk' = disk, OffsetInv', NEW i \in 0..committed, NEW c \in 0..i,
             commit_index' = i, applied_index' = i, i = 0 \/ Len(disk) <= i,
             MirrorOf(log', disk, c), log'.snapshot_last_index = c, c = 0 \/ c = i,
             c > 0 => \E s \in snapshots : s.index = c
      PROVE  DiskInv' /\ OffsetInv' /\ SnapshotInv' /\ AckedInv' /\ MirrorInv'
  <2>1. DiskInv' /\ \A k : Same(k)' <=> Same(k)
    BY <1>1, <1>5, <1>8, DiskStays
  <2>2. SnapshotInv' /\ \A k : Covered(k) => Covered(k)'
    BY <1>1, <1>5, SnapshotStays
  <2>3. AckedInv'
    BY <1>1, <1>2, <1>5, <2>1, <2>2, NothingAcked
  <2>4. \A x \in {c, i} : x < Len(disk) => \A k \in 1..x : Same(k)'
    <3>1. \A x \in {c, i} : x < Len(disk) => x = 0
      BY <1>6, <1>8
    <3>2. \A k \in 1..0 : FALSE
      OBVIOUS
    <3> QED  BY <3>1, <3>2
  <2>5. Held(log.snapshot_last_index)' /\ Held(applied_index)' /\ Held(commit_index)'
    BY <1>8, <2>4 DEF Held
  <2>6. i \in c..i
    BY <1>6, <1>8
  <2>7. MirrorInv'
    BY <1>1, <1>2, <1>8, <2>5, <2>6 DEF MirrorInv
  <2> QED  BY <1>8, <2>1, <2>2, <2>3, <2>7
<1>9. CASE snapshots = {}
  <2>1. log' = l /\ disk' = disk /\ next_offset' = next_offset /\ commit_index' = 0 /\ applied_index' = 0
    BY <1>9 DEF Restart, l
  <2>2. OffsetInv'
    BY <1>4, <1>5, <2>1, OffsetStays
  <2>3. 0 \in 0..committed /\ 0 \in 0..0 /\ ~(0 > 0)
    BY <1>6
  <2> QED  BY <1>7, <1>8, <2>1, <2>2, <2>3
<1>10. CASE snapshots # {}
  <2> DEFINE s == LatestSnapshot
             i == s.index
             term == s.term
  <2>1. s \in snapshots
    BY <1>2, <1>5, <1>10, LatestExists
  <2>2. i \in Nat \ {0} /\ i \in 0..committed /\ term \in Nat \cup {-1}
    BY <1>5, <1>6, <2>1 DEF SnapshotInv
  <2>3. /\ log' = Compact(l, i, term) /\ commit_index' = i /\ applied_index' = i
        /\ \E noted : Resync(i, noted)
    BY <1>10 DEF Restart, l
  <2> HIDE DEF s
  <2>4. PICK t \in TruncateDisk(disk, next_offset, i) :
          /\ disk' = t[1] /\ next_offset' = t[2]
          /\ Len(disk') < Len(disk) => "cut" \in defects'
    BY <2>3, Zenon DEF Resync, DiskBecomes, Note
  <2>5. disk' = disk /\ Len(disk) <= i /\ OffsetInv'
    BY <1>3, <1>4, <1>5, <2>2, <2>4, ResyncKeeps
  <2>6. CASE log' = l
    <3>1. 0 \in 0..i /\ ~(0 > 0)
      BY <2>2
    <3> QED  BY <1>7, <1>8, <2>2, <2>3, <2>5, <2>6, <3>1
  <2>7. CASE log' # l
    <3>1. log' = ResetTo(l, i, term)
      BY <2>3, <2>7 DEF Compact
    <3>2. MirrorOf(log', disk, i) /\ log'.snapshot_last_index = i
      <4>1. /\ disk \in Seq(Nat \X Nat) /\ 0 \in Nat /\ MirrorOf(l, disk, 0) /\ i \in Nat
            /\ 0 <= i /\ term \in Nat \cup {-1}
        BY <1>6, <1>7, <2>2
      <4> HIDE DEF i, term
      <4>2. MirrorOf(ResetTo(l, i, term), disk, i)
        BY ONLY <4>1, CompactMirror
      <4> QED  BY <3>1, <4>2 DEF ResetTo
    <3>3. i \in 0..i
      BY <2>2
    <3> QED  BY <1>8, <2>1, <2>2, <2>3, <2>5, <3>2, <3>3
  <2> QED  BY <2>6, <2>7
<1> QED  BY <1>9, <1>10

LEMMA CrashInRestartStep ==
  ASSUME DurableInv, CrashInRestart
  PROVE  DurableInv'
<1>1. /\ ~up /\ snapshots # {} /\ CrashInResync(LatestSnapshot.index)
      /\ UNCHANGED <<up, snapshots, leader, leader_term, leader_log, committed, acked>>
  BY DEF CrashInRestart, memory, cluster
<1>2. ClusterInv /\ ClusterInv'
  BY <1>1 DEF DurableInv, ClusterInv
<1>3. SUFFICES ASSUME Sound'
               PROVE  DiskInv' /\ OffsetInv' /\ SnapshotInv' /\ AckedInv'
  BY <1>1, <1>2 DEF DurableInv
<1>4. defects \subseteq defects'
  BY <1>1, Zenon DEF CrashInResync, CrashTruncating, Note
<1>5. Sound /\ DiskInv /\ OffsetInv /\ SnapshotInv /\ AckedInv
  BY <1>3, <1>4, SoundBefore DEF DurableInv
<1>6. LatestSnapshot.index \in Nat
  BY <1>1, <1>2, <1>5, LatestExists DEF SnapshotInv
<1>7. disk' = disk /\ OffsetInv'
  <2> DEFINE i == LatestSnapshot.index
  <2>1. i \in Nat /\ CrashInResync(i)
    BY <1>1, <1>6
  <2> HIDE DEF i
  <2> QED  BY <1>3, <1>5, <2>1, CrashInResyncKeeps
<1>8. DiskInv' /\ \A k : Same(k)' <=> Same(k)
  BY <1>1, <1>5, <1>7, DiskStays
<1>9. SnapshotInv' /\ \A k : Covered(k) => Covered(k)'
  BY <1>1, <1>5, SnapshotStays
<1>10. AckedInv'
  BY <1>1, <1>2, <1>5, <1>8, <1>9, NothingAcked
<1> QED  BY <1>7, <1>8, <1>9, <1>10

LEMMA LeaderAppliesStep ==
  ASSUME DurableInv, LeaderApplies
  PROVE  DurableInv'
<1>1. /\ up /\ leader = "self" /\ commit_index < committed /\ commit_index' = committed
      /\ applied_index' = Reached(log, applied_index, committed)
      /\ UNCHANGED <<up, log, disk, next_offset, snapshots>>
      /\ UNCHANGED <<leader, leader_term, leader_log, committed, acked, defects>>
  BY DEF LeaderApplies, files, cluster, history
<1>2. ClusterInv /\ ClusterInv'
  BY <1>1 DEF DurableInv, ClusterInv
<1>3. SUFFICES ASSUME Sound'
               PROVE  DiskInv' /\ OffsetInv' /\ SnapshotInv' /\ AckedInv' /\ MirrorInv'
  BY <1>2 DEF DurableInv
<1>4. Sound /\ DiskInv /\ OffsetInv /\ SnapshotInv /\ AckedInv /\ MirrorInv
  BY <1>1, <1>3 DEF DurableInv, Sound
<1>5. OffsetInv' /\ SnapshotInv' /\ AckedInv'
  BY <1>1, <1>4 DEF OffsetInv, SnapshotInv, AckedInv, OfLeader, Same, Covered, TermOf
<1>6. DiskInv' /\ \A k : Same(k)' <=> Same(k)
  BY <1>1, <1>4, DiskStays
<1>7. /\ log \in LogOf(Nat) /\ log.snapshot_last_index \in Nat
      /\ commit_index \in Nat /\ applied_index \in Nat /\ committed \in Nat
      /\ log.snapshot_last_index <= applied_index /\ applied_index <= commit_index
  BY <1>2, <1>4, MirrorFacts
<1>8. applied_index' \in applied_index..committed
  <2>1. LastPosition(log) \in Nat /\ applied_index <= committed
    BY <1>1, <1>7, ReadType
  <2> QED  BY <1>1, <1>7, <2>1, ReachedBetween
<1>9. applied_index' \in log.snapshot_last_index..committed /\ committed \in 0..committed
      /\ applied_index' \in Nat
  BY <1>7, <1>8
<1>10. \A x \in Nat : x < Len(disk) => \A k \in 1..x : Same(k)'
  <2>1. \A k \in 1..Len(disk) : Same(k)
    BY <1>1, <1>4 DEF MirrorInv
  <2>2. Len(disk) \in Nat
    BY <1>4, DiskFields
  <2>3. \A x \in Nat : x < Len(disk) => \A k \in 1..x : k \in 1..Len(disk)
    BY <2>2
  <2> QED  BY <1>6, <2>1, <2>3
<1>11. Held(log.snapshot_last_index)' /\ Held(applied_index)' /\ Held(commit_index)'
  BY <1>1, <1>7, <1>9, <1>10 DEF Held
<1>12. MirrorInv'
  BY <1>1, <1>4, <1>6, <1>9, <1>11 DEF MirrorInv
<1> QED  BY <1>5, <1>6, <1>12

\* A leader's log of which this server loses nothing: it agrees with the former
\* one, up to the committed entries at least.
Succeeds ==
  /\ leader_log' \in Seq(EntryOf(Nat))
  /\ committed \in 0..Len(leader_log')
  /\ \A k \in 1..committed : leader_log'[k] = leader_log[k]

\* A leader, this server or another, logs a proposal.
Proposes ==
  /\ leader_log' = Append(leader_log, NewEntry(Len(leader_log) + 1))
  /\ UNCHANGED <<up, leader, leader_term, committed>>

LEMMA ProposalLogged ==
  ASSUME ClusterInv, Proposes
  PROVE  LET N == Len(leader_log) + 1
         IN  /\ ClusterInv' /\ Succeeds
             /\ leader_log' \in Seq(EntryOf(Nat)) /\ Len(leader_log') = N
             /\ \A k \in 1..Len(leader_log) : leader_log'[k] = leader_log[k]
             /\ leader_log'[N] = [index |-> N, term |-> leader_term, payload |-> N]
             /\ \A k \in Nat \ {0} : \A t :
                  OfLeader(k, t) => OfLeader(k, t)' /\ ~(k = N /\ t = leader_term)
<1> DEFINE n == Len(leader_log)
           N == n + 1
           e == NewEntry(n + 1)
<1>1. leader_log' = Append(leader_log, e) /\ UNCHANGED <<up, leader, leader_term, committed>>
  BY DEF Proposes
<1>2. leader_log \in Seq(EntryOf(Nat)) /\ n \in Nat /\ leader_term \in Nat \ {0}
      /\ committed \in Nat /\ committed <= n
  BY LenProperties DEF ClusterInv
<1>3. N \in Nat \ {0} /\ n < N /\ N \in 1..N /\ leader_term \in 1..leader_term
      /\ \A k \in 1..N : k \in 1..n \/ k = N
  BY <1>2
<1>4. /\ e \in EntryOf(Nat) /\ e.index = N /\ e.term = leader_term /\ e.payload = N
      /\ e = [index |-> N, term |-> leader_term, payload |-> N]
  BY <1>2 DEF NewEntry, EntryOf
<1> HIDE DEF e
<1>5. /\ leader_log' \in Seq(EntryOf(Nat)) /\ Len(leader_log') = N
      /\ \A k \in 1..n : leader_log'[k] = leader_log[k]
      /\ leader_log'[N] = e
  <2>1. leader_log \in Seq(EntryOf(Nat)) /\ e \in EntryOf(Nat) /\ leader_log' = Append(leader_log, e)
    BY <1>1, <1>2, <1>4
  <2> QED  BY ONLY <2>1, AppendProperties
<1>5a. leader_log'[N] = [index |-> N, term |-> leader_term, payload |-> N]
  BY <1>4, <1>5
<1> HIDE DEF N
<1>6. ClusterInv'
  <2>1. \A k \in 1..N : /\ leader_log'[k].index = k /\ leader_log'[k].payload = k
                        /\ leader_log'[k].term \in 1..leader_term
    <3> TAKE k \in 1..N
    <3>1. CASE k \in 1..n
      BY <1>5, <3>1 DEF ClusterInv
    <3>2. CASE k = N
      BY <1>3, <1>4, <1>5, <3>2
    <3> QED  BY <1>3, <3>1, <3>2
  <2>2. committed \in 0..N
    BY <1>2, <1>3
  <2> QED  BY <1>1, <1>5, <2>1, <2>2 DEF ClusterInv
<1>7. Succeeds
  <2>1. \A k \in 1..committed : k \in 1..n
    BY <1>2
  <2>2. committed \in 0..N
    BY <1>2, <1>3
  <2> QED  BY <1>5, <2>1, <2>2 DEF Succeeds
<1>8. ASSUME NEW k \in Nat \ {0}, NEW t, OfLeader(k, t)
      PROVE  OfLeader(k, t)' /\ ~(k = N /\ t = leader_term)
  <2>1. t = leader_term => k \in 1..n
    BY <1>2, <1>8 DEF OfLeader
  <2>2. t = leader_term => k <= N /\ leader_log'[k].term = t
    BY <1>2, <1>3, <1>5, <1>8, <2>1 DEF OfLeader
  <2>3. ~(k = N /\ t = leader_term)
    BY <1>2, <1>3, <2>1
  <2> QED  BY <1>1, <1>5, <1>8, <2>2, <2>3 DEF OfLeader
<1> QED  BY <1>5, <1>5a, <1>6, <1>7, <1>8 DEF N

LEMMA AppendEntryDurablyStep ==
  ASSUME DurableInv, AppendEntryDurably
  PROVE  DurableInv'
<1> DEFINE n == Len(disk)
           e == NewEntry(Len(leader_log) + 1)
           b == log.snapshot_last_index
           N == n + 1
<1>0. /\ up /\ leader = "self" /\ log' = AppendEntry(log, e.term, e.payload)
      /\ DiskBecomes(AppendDisk(disk, next_offset, <<Record(e)>>))
      /\ leader_log' = Append(leader_log, e)
      /\ acked' = acked \cup {<<e.index, e.term>>}
      /\ defects' = defects \cup Note("buried", next_offset # Len(disk))
                             \cup Note("misplaced", next_offset # LastIndex(log))
      /\ UNCHANGED <<up, commit_index, applied_index, snapshots, leader, leader_term, committed>>
  BY DEF AppendEntryDurably
<1>1. ClusterInv /\ Proposes
  BY <1>0 DEF DurableInv, Proposes
<1>2. /\ ClusterInv' /\ Len(leader_log') = Len(leader_log) + 1
      /\ \A k \in 1..Len(leader_log) : leader_log'[k] = leader_log[k]
      /\ leader_log'[Len(leader_log) + 1]
           = [index |-> Len(leader_log) + 1, term |-> leader_term, payload |-> Len(leader_log) + 1]
      /\ \A k \in Nat \ {0} : \A t : OfLeader(k, t) => OfLeader(k, t)'
  <2> HIDE DEF e
  <2> QED  BY ONLY <1>1, ProposalLogged
<1>3. SUFFICES ASSUME Sound'
               PROVE  DiskInv' /\ OffsetInv' /\ SnapshotInv' /\ AckedInv' /\ MirrorInv'
  BY <1>2 DEF DurableInv
<1>4. defects \subseteq defects' /\ "buried" \notin defects'
  BY <1>0, <1>3 DEF Sound
<1>5. DiskInv /\ OffsetInv /\ SnapshotInv /\ AckedInv /\ MirrorInv
  BY <1>0, <1>3, <1>4, SoundBefore DEF DurableInv
<1>6. next_offset = n
  BY <1>0, <1>4, Zenon DEF Note
<1>7. disk' = disk \o <<Record(e)>> /\ next_offset' = n + Len(<<Record(e)>>)
  BY <1>0, <1>6, Zenon DEF DiskBecomes, AppendDisk
<1>8. /\ disk \in Seq(Nat \X Nat) /\ n \in Nat
      /\ leader_term \in Nat \ {0} /\ committed \in 0..Len(leader_log)
      /\ \A k \in 1..n : disk[k][1] \in Nat /\ disk[k] = <<disk[k][1], k>>
  BY <1>1, <1>5, DiskFields DEF ClusterInv
<1>9. N \in Nat \ {0} /\ N - 1 = n /\ n < N /\ N \in 1..N /\ \A k \in 1..N : k \in 1..n \/ k = N
  BY <1>8
<1>10. Len(leader_log) = n /\ (\A k \in 1..n : Same(k)) /\ (b = 0 \/ b < n)
  BY <1>0, <1>5 DEF MirrorInv
<1>11. /\ log \in LogOf(Nat) /\ b \in Nat /\ log.entries \in Seq(EntryOf(Nat)) /\ Len(log.entries) \in Nat
       /\ MirrorOf(log, disk, b) /\ log.first_index - 1 = b
       /\ commit_index \in Nat /\ applied_index \in Nat
       /\ LastIndex(log) = IF b < n THEN n ELSE 0
  BY <1>1, <1>5, MirrorFacts
<1>12. LastIndex(log) = n /\ Len(log.entries) = n - b /\ b <= n
  <2>1. Len(log.entries) = IF b < n THEN n - b ELSE 0
    BY <1>11 DEF MirrorOf
  <2> HIDE DEF b, n
  <2> QED  BY <1>8, <1>10, <1>11, <2>1
<1>13. e = [index |-> N, term |-> leader_term, payload |-> N]
  BY <1>10 DEF NewEntry
<1> HIDE DEF e, N
<1>14. e \in EntryOf(Nat) /\ e.index = N /\ e.term = leader_term /\ e.payload = N
       /\ Record(e) = <<leader_term, N>> /\ Record(e) \in Nat \X Nat
  BY <1>8, <1>9, <1>13 DEF EntryOf, Record
<1>15. /\ Len(leader_log') = N /\ leader_log'[N].term = leader_term
       /\ \A k \in 1..n : leader_log'[k] = leader_log[k]
  <2>1. Len(leader_log) + 1 = N
    BY <1>10 DEF N
  <2> QED  BY <1>2, <1>10, <2>1
<1>16. /\ disk' \in Seq(Nat \X Nat) /\ Len(disk') = N /\ next_offset' = N
       /\ \A k \in 1..n : disk'[k] = disk[k]
       /\ disk'[N] = <<leader_term, N>>
  <2> DEFINE r == <<Record(e)>>
  <2>1. r \in Seq(Nat \X Nat) /\ Len(r) = 1 /\ r[1] = Record(e)
    BY <1>14
  <2> HIDE DEF r
  <2>2. disk \in Seq(Nat \X Nat) /\ disk' = disk \o r
    BY <1>7, <1>8 DEF r
  <2>3. /\ disk' \in Seq(Nat \X Nat) /\ Len(disk') = Len(disk) + Len(r)
        /\ \A k \in 1..(Len(disk) + Len(r)) :
             disk'[k] = IF k <= Len(disk) THEN disk[k] ELSE r[k - Len(disk)]
    BY ONLY <2>1, <2>2, ConcatProperties
  <2>4. Len(disk) + Len(r) = N /\ next_offset' = N
    BY <1>7, <2>1 DEF N, r
  <2>5. /\ ~(N <= n) /\ N - n = 1
        /\ \A k \in 1..n : k \in 1..N /\ k <= n
    BY <1>8, <1>9
  <2>6. \A k \in 1..N : disk'[k] = IF k <= n THEN disk[k] ELSE r[k - n]
    BY <2>3, <2>4
  <2>7. disk'[N] = Record(e)
    BY <1>9, <2>1, <2>5, <2>6
  <2>8. \A k \in 1..n : disk'[k] = disk[k]
    BY <2>5, <2>6
  <2> QED  BY <1>14, <2>3, <2>4, <2>7, <2>8
<1>17. \A k \in 1..N : Same(k)'
  <2> TAKE k \in 1..N
  <2>1. k <= N
    BY <1>9
  <2>2. CASE k \in 1..n
    <3>1. disk[k][1] = leader_log[k].term
      BY <1>10, <2>2 DEF Same
    <3> QED  BY <1>15, <1>16, <2>1, <2>2, <3>1 DEF Same
  <2>3. CASE k = N
    BY <1>15, <1>16, <2>1, <2>3 DEF Same
  <2> QED  BY <1>9, <2>2, <2>3
<1>18. DiskInv'
  <2>1. ASSUME NEW k \in 1..N
        PROVE  disk'[k] = <<disk'[k][1], k>> /\ OfLeader(k, disk[k][1])'
    <3>1. disk'[k][1] = leader_log'[k].term /\ k <= N
      BY <1>9, <1>17 DEF Same
    <3>2. leader_log'[k].term \in 1..leader_term
      BY <1>0, <1>2, <1>15 DEF ClusterInv
    <3>3. disk'[k] = <<disk'[k][1], k>>
      <4>1. CASE k \in 1..n
        BY <1>8, <1>16, <4>1
      <4>2. CASE k = N
        BY <1>16, <4>2
      <4> QED  BY <1>9, <4>1, <4>2
    <3> QED  BY <1>0, <1>15, <3>1, <3>2, <3>3 DEF OfLeader
  <2>2. \A k \in 1..N : \A j \in 1..k : j \in 1..N
    BY <1>9
  <2> QED  BY <1>16, <1>17, <2>1, <2>2 DEF DiskInv
<1>19. OffsetInv' /\ SnapshotInv'
  <2>1. OffsetInv'
    BY <1>9, <1>16 DEF OffsetInv
  <2> QED  BY <1>0, <1>5, <2>1, SnapshotStays
<1>20. AckedInv'
  <2>1. acked' \subseteq (Nat \ {0}) \X Nat
    BY <1>0, <1>5, <1>8, <1>9, <1>14 DEF AckedInv
  <2>2. ASSUME NEW a \in acked'
        PROVE  OfLeader(a[1], a[2])'
    <3>1. CASE a \in acked
      <4>1. OfLeader(a[1], a[2]) /\ a[1] \in Nat \ {0}
        BY <1>5, <3>1 DEF AckedInv
      <4> QED  BY <1>2, <4>1
    <3>2. CASE a = <<e.index, e.term>>
      <4>1. a[1] = N /\ a[2] = leader_term
        BY <1>14, <3>2
      <4>2. N <= N /\ leader_term \in 1..leader_term
        BY <1>8, <1>9
      <4> QED  BY <1>0, <1>15, <4>1, <4>2 DEF OfLeader
    <3> QED  BY <1>0, <3>1, <3>2
  <2>3. \A k \in 1..Len(leader_log') : Same(k)'
    BY <1>15, <1>17
  <2>4. \A a \in acked' : OfLeader(a[1], a[2])'
    BY <2>2
  <2> QED  BY <2>1, <2>3, <2>4 DEF AckedInv
<1>21. MirrorOf(log', disk', b) /\ log'.snapshot_last_index = b
  <2> DEFINE size == Len(log.entries)
             x == [index |-> LastIndex(log) + 1, term |-> e.term, payload |-> e.payload]
  <2>1. x = e
    BY <1>12, <1>13, <1>14 DEF N
  <2>2. log' = [log EXCEPT !.entries = Append(@, e)]
    BY <1>0, <2>1 DEF AppendEntry
  <2>3. /\ Append(log.entries, e) \in Seq(EntryOf(Nat)) /\ Len(Append(log.entries, e)) = size + 1
        /\ \A k \in 1..size : Append(log.entries, e)[k] = log.entries[k]
        /\ Append(log.entries, e)[size + 1] = e
    <3>1. log.entries \in Seq(EntryOf(Nat)) /\ e \in EntryOf(Nat)
      BY <1>11, <1>14
    <3> QED  BY ONLY <3>1, AppendProperties
  <2>4. /\ log' \in LogOf(Nat) /\ log'.entries = Append(log.entries, e)
        /\ log'.first_index = log.first_index /\ log'.snapshot_last_index = b
    BY <1>11, <2>2, <2>3 DEF LogOf
  <2>5. size \in Nat /\ size = n - b /\ \A k \in 1..size :
          log.entries[k] = [index |-> b + k, term |-> disk[b + k][1], payload |-> b + k]
    BY <1>11, <1>12 DEF MirrorOf
  <2> HIDE DEF size
  <2>6. b \in Nat /\ n \in Nat /\ size \in Nat /\ size = n - b
    BY <1>8, <1>11, <2>5
  <2>7. b + (size + 1) = N /\ \A k \in 1..(size + 1) : k \in 1..size \/ k = size + 1
    <3> HIDE DEF b, n
    <3> QED  BY <2>6 DEF N
  <2>8. ASSUME NEW k \in 1..(size + 1)
        PROVE  log'.entries[k] = [index |-> b + k, term |-> disk'[b + k][1], payload |-> b + k]
    <3>1. CASE k \in 1..size
      <4>1. b + k \in 1..n
        <5> HIDE DEF b, n
        <5> QED  BY ONLY <2>6, <3>1
      <4>2. log'.entries[k] = [index |-> b + k, term |-> disk[b + k][1], payload |-> b + k]
        BY <2>3, <2>4, <2>5, <3>1, Zenon
      <4>3. disk'[b + k] = disk[b + k]
        BY <1>16, <4>1, Zenon
      <4> QED  BY <4>2, <4>3, Zenon
    <3>2. CASE k = size + 1
      <4>1. log'.entries[size + 1] = [index |-> N, term |-> leader_term, payload |-> N]
        BY <1>13, <2>3, <2>4
      <4>2. disk'[N][1] = leader_term
        BY <1>16
      <4> QED  BY <2>7, <3>2, <4>1, <4>2
    <3> QED  BY <2>7, <3>1, <3>2
  <2>9. Len(log'.entries) = size + 1 /\ size + 1 = N - b /\ b < N
    <3>1. size + 1 = N - b /\ b < N
      <4> HIDE DEF b, n
      <4> QED  BY ONLY <2>6 DEF N
    <3> QED  BY <2>3, <2>4, <3>1
  <2>10. NumberedLog(b, log')
    <3>1. \A k \in 1..(size + 1) : log'.entries[k].index = b + k
      <4> TAKE k \in 1..(size + 1)
      <4>1. log'.entries[k] = [index |-> b + k, term |-> disk'[b + k][1], payload |-> b + k]
        BY <2>8
      <4> QED  BY <4>1
    <3>2. log'.first_index - 1 = b
      BY <1>11, <2>4
    <3> QED  BY <2>9, <3>1, <3>2 DEF NumberedLog, NumberedFrom
  <2>11. Len(log'.entries) = IF b < Len(disk') THEN Len(disk') - b ELSE 0
    BY <1>16, <2>9
  <2>12. \A k \in 1..Len(log'.entries) :
           log'.entries[k] = [index |-> b + k, term |-> disk'[b + k][1], payload |-> b + k]
    BY <2>8, <2>9
  <2> QED  BY <2>4, <2>10, <2>11, <2>12 DEF MirrorOf
<1>22. b = 0 \/ b < N
  BY <1>8, <1>9, <1>10, <1>11
<1>23. \A x \in Nat : Held(x)'
  <2>1. \A x \in Nat : x < N => \A k \in 1..x : k \in 1..N
    BY <1>9
  <2> QED  BY <1>16, <1>17, <2>1 DEF Held
<1>24. Held(log.snapshot_last_index)' /\ Held(applied_index)' /\ Held(commit_index)'
  BY <1>0, <1>11, <1>21, <1>23 DEF Held
<1>25. MirrorInv'
  BY <1>0, <1>5, <1>15, <1>16, <1>17, <1>21, <1>22, <1>24 DEF MirrorInv
<1> QED  BY <1>18, <1>19, <1>20, <1>25

-----------------------------------------------------------------------------
(* The steps of the cluster *)

LEMMA CommitStep ==
  ASSUME DurableInv, NEW k \in 1..Len(leader_log), Commit(k)
  PROVE  DurableInv'
<1>1. /\ k > committed /\ committed' = k
      /\ UNCHANGED <<up, log, commit_index, applied_index, disk, next_offset, snapshots>>
      /\ UNCHANGED <<leader, leader_term, leader_log, acked, defects>>
  BY DEF Commit, memory, files, history
<1>2. ClusterInv /\ Len(leader_log) \in Nat /\ committed \in Nat
  BY LenProperties DEF DurableInv, ClusterInv
<1>3. ClusterInv'
  <2>1. k \in 0..Len(leader_log)
    BY <1>2
  <2> QED  BY <1>1, <1>2, <2>1 DEF ClusterInv
<1>4. SUFFICES ASSUME Sound'
               PROVE  /\ DiskInv' /\ OffsetInv' /\ SnapshotInv' /\ AckedInv'
                      /\ up => MirrorInv'
  BY <1>1, <1>3 DEF DurableInv
<1>5. DiskInv /\ OffsetInv /\ SnapshotInv /\ AckedInv /\ (up => MirrorInv)
  BY <1>1, <1>4 DEF DurableInv, Sound
<1>6. /\ DiskInv' /\ \A i : Same(i)' <=> Same(i)
      /\ \A x : Held(x)' <=> Held(x)
  BY <1>1, <1>5, DiskStays
<1>7. OffsetInv'
  BY <1>1, <1>5, OffsetStays
<1>8. SnapshotInv'
  BY <1>1, <1>2, <1>5 DEF SnapshotInv
<1>9. AckedInv'
  <2>1. \A i \in 1..Len(leader_log) : Covered(i) => Covered(i)'
    BY <1>1 DEF Covered
  <2> QED  BY <1>1, <1>2, <1>5, <1>6, <2>1, NothingAcked
<1>10. ASSUME up
       PROVE  MirrorInv'
  <2>1. MirrorInv
    BY <1>5, <1>10
  <2>2. commit_index \in 0..k
    BY <1>1, <1>2, <2>1 DEF MirrorInv
  <2>3. Held(log.snapshot_last_index)' /\ Held(applied_index)' /\ Held(commit_index)'
    BY <1>1, <1>6, <2>1 DEF MirrorInv, Held
  <2> QED  BY <1>1, <1>6, <2>1, <2>2, <2>3 DEF MirrorInv
<1> QED  BY <1>6, <1>7, <1>8, <1>9, <1>10

\* The mirror goes on under another leader.
LEMMA MirrorSucceeds ==
  ASSUME ClusterInv, DiskInv, SnapshotInv, MirrorInv, Succeeds,
         UNCHANGED <<log, commit_index, applied_index, disk, snapshots, committed>>,
         leader' = "self" =>
           /\ log.snapshot_last_index = 0 \/ log.snapshot_last_index < Len(disk)
           /\ Len(leader_log') = Len(disk) /\ \A k \in 1..Len(disk) : Same(k)'
  PROVE  MirrorInv'
<1> DEFINE b == log.snapshot_last_index
<1>1. /\ b \in Nat /\ commit_index \in Nat /\ applied_index \in Nat /\ committed \in Nat
      /\ b <= applied_index /\ applied_index <= commit_index /\ commit_index <= committed
      /\ Held(b) /\ Held(applied_index) /\ Held(commit_index)
  BY MirrorFacts DEF MirrorInv
<1>2. Len(leader_log') \in Nat /\ committed <= Len(leader_log')
  BY LenProperties DEF Succeeds
<1>3. ASSUME NEW x \in Nat, x <= committed, Held(x), x < Len(disk)
      PROVE  \A k \in 1..x : Same(k)'
  <2> TAKE k \in 1..x
  <2>1. k \in 1..committed /\ k <= Len(leader_log')
    BY <1>1, <1>2, <1>3
  <2>2. leader_log'[k] = leader_log[k]
    BY <2>1 DEF Succeeds
  <2>3. Same(k)
    BY <1>3 DEF Held
  <2> QED  BY <2>1, <2>2, <2>3 DEF Same
<1>4. \A x \in Nat : x <= committed /\ Held(x) => (x < Len(disk) => \A k \in 1..x : Same(k)')
  BY <1>3
<1>5. b <= committed /\ applied_index <= committed
  BY <1>1
<1>6. Held(log.snapshot_last_index)' /\ Held(applied_index)' /\ Held(commit_index)'
  BY <1>1, <1>4, <1>5 DEF Held
<1> QED  BY <1>6 DEF MirrorInv

LEMMA LeaderAppendsStep ==
  ASSUME DurableInv, LeaderAppends
  PROVE  DurableInv'
<1> DEFINE n == Len(leader_log)
           N == n + 1
<1>1. /\ leader = "other" /\ Proposes
      /\ UNCHANGED <<up, log, commit_index, applied_index, disk, next_offset, snapshots>>
      /\ UNCHANGED <<leader, leader_term, committed, acked, defects>>
  BY DEF LeaderAppends, Proposes, memory, files, history
<1>2. ClusterInv /\ n \in Nat /\ N \in Nat \ {0} /\ n < N /\ N \in 1..N
      /\ \A k \in 1..N : k \in 1..n \/ k = N
  BY LenProperties DEF DurableInv, ClusterInv
<1>3. /\ ClusterInv' /\ Succeeds /\ Len(leader_log') = N
      /\ \A k \in 1..n : leader_log'[k] = leader_log[k]
      /\ leader_log'[N] = [index |-> N, term |-> leader_term, payload |-> N]
      /\ \A k \in Nat \ {0} : \A t :
           OfLeader(k, t) => OfLeader(k, t)' /\ ~(k = N /\ t = leader_term)
  BY ONLY <1>1, <1>2, ProposalLogged
<1>3a. leader_log'[N].term = leader_term
  BY <1>3
<1> HIDE DEF N
<1>4. SUFFICES ASSUME Sound'
               PROVE  /\ DiskInv' /\ OffsetInv' /\ SnapshotInv' /\ AckedInv'
                      /\ up => MirrorInv'
  BY <1>1, <1>3 DEF DurableInv
<1>5. DiskInv /\ OffsetInv /\ SnapshotInv /\ AckedInv /\ (up => MirrorInv)
  BY <1>1, <1>4 DEF DurableInv, Sound
<1>6. Len(disk) \in Nat
  BY <1>5, DiskFields
<1>7. OffsetInv' /\ SnapshotInv' /\ \A k : Covered(k) => Covered(k)'
  BY <1>1, <1>5, OffsetStays, SnapshotStays
<1>8. ASSUME NEW k \in 1..Len(disk)
      PROVE  Same(k)' <=> Same(k)
  <2>1. OfLeader(k, disk[k][1]) /\ k \in Nat \ {0}
    BY <1>5, <1>6 DEF DiskInv
  <2>2. ~(k = N /\ disk[k][1] = leader_term)
    BY <1>3, <2>1
  <2>3. CASE k <= n
    <3>1. k \in 1..n /\ k <= N
      BY <1>2, <2>1, <2>3
    <3> QED  BY <1>1, <1>3, <2>3, <3>1 DEF Same
  <2>4. CASE ~(k <= n)
    <3>1. k <= N => k = N
      BY <1>2, <2>1, <2>4 DEF N
    <3>2. ~Same(k)'
      BY <1>1, <1>3, <1>3a, <2>2, <3>1 DEF Same
    <3> QED  BY <2>4, <3>2 DEF Same
  <2> QED  BY <2>3, <2>4
<1>9. DiskInv'
  <2>1. \A k \in 1..Len(disk) : disk[k] = <<disk[k][1], k>> /\ OfLeader(k, disk[k][1])'
    <3> TAKE k \in 1..Len(disk)
    <3>1. disk[k] = <<disk[k][1], k>> /\ OfLeader(k, disk[k][1]) /\ k \in Nat \ {0}
      BY <1>5, <1>6 DEF DiskInv
    <3>2. disk' = disk
      BY <1>1
    <3> QED  BY <1>3, <3>1, <3>2
  <2>2. \A k \in 1..Len(disk) : \A j \in 1..k : j \in 1..Len(disk)
    BY <1>6
  <2>3. \A k \in 1..Len(disk) : Same(k)' => \A j \in 1..k : Same(j)'
    BY <1>5, <1>8, <2>2 DEF DiskInv
  <2> QED  BY <1>1, <1>5, <2>1, <2>3 DEF DiskInv
<1>10. \A a \in acked : a[1] \in Nat \ {0} /\ OfLeader(a[1], a[2])
  BY <1>5 DEF AckedInv
<1>11. AckedInv'
  <2>1. \A a \in acked' : OfLeader(a[1], a[2])'
    BY <1>1, <1>3, <1>10
  <2>2. ASSUME NEW k \in 1..N, <<k, TermOf(k)'>> \in acked
        PROVE  Same(k)' \/ Covered(k)'
    <3>1. CASE k \in 1..n
      <4>1. TermOf(k)' = TermOf(k)
        BY <1>2, <1>3, <3>1 DEF TermOf
      <4>2. Same(k) \/ Covered(k)
        BY <1>5, <2>2, <3>1, <4>1 DEF AckedInv
      <4>3. Same(k) => k \in 1..Len(disk)
        BY <1>2, <1>6, <3>1 DEF Same
      <4> QED  BY <1>7, <1>8, <4>2, <4>3
    <3>2. CASE k = N
      <4> DEFINE a == <<k, TermOf(k)'>>
      <4>1. TermOf(k)' = leader_term
        BY <1>2, <1>3a, <3>2 DEF TermOf
      <4>2. a[1] = N /\ a[2] = leader_term /\ a \in acked
        BY <2>2, <3>2, <4>1
      <4>3. ~(a[1] = N /\ a[2] = leader_term)
        <5> HIDE DEF a
        <5> QED  BY <1>3, <1>10, <4>2
      <4> QED  BY <4>2, <4>3
    <3> QED  BY <1>2, <3>1, <3>2
  <2> QED  BY <1>1, <1>3, <1>5, <2>1, <2>2 DEF AckedInv
<1>12. ASSUME up
       PROVE  MirrorInv'
  <2>1. MirrorInv /\ leader' # "self"
    BY <1>1, <1>5, <1>12
  <2> QED  BY <1>1, <1>2, <1>3, <1>5, <2>1, MirrorSucceeds
<1> QED  BY <1>7, <1>9, <1>11, <1>12

LEMMA NewLeaderStep ==
  ASSUME DurableInv, NEW n \in committed..Len(leader_log), NewLeader(n)
  PROVE  DurableInv'
<1>1. /\ leader' = "other" /\ leader_log' = SubSeq(leader_log, 1, n) /\ leader_term' = leader_term + 1
      /\ UNCHANGED <<up, log, commit_index, applied_index, disk, next_offset, snapshots>>
      /\ UNCHANGED <<committed, acked, defects>>
  BY DEF NewLeader, memory, files, history
<1>2. /\ ClusterInv /\ leader_log \in Seq(EntryOf(Nat)) /\ Len(leader_log) \in Nat
      /\ leader_term \in Nat \ {0} /\ committed \in Nat /\ committed <= Len(leader_log)
  BY LenProperties DEF DurableInv, ClusterInv
<1>3. n \in Nat /\ committed <= n /\ n <= Len(leader_log) /\ \A k \in 1..n : k \in 1..Len(leader_log)
  BY <1>2
<1>4. /\ leader_log' \in Seq(EntryOf(Nat)) /\ Len(leader_log') = n
      /\ \A k \in 1..n : leader_log'[k] = leader_log[k]
  <2>1. \A k \in 1..n : leader_log[k] \in EntryOf(Nat)
    BY <1>2, <1>3, ElementOfSeq
  <2> QED  BY <1>1, <1>3, <2>1, SubSeqProperties
<1>5. leader_term' \in Nat \ {0} /\ \A t \in 1..leader_term : t \in 1..leader_term' /\ t # leader_term'
  BY <1>1, <1>2
<1>6. ClusterInv'
  <2>1. \A k \in 1..n : /\ leader_log'[k].index = k /\ leader_log'[k].payload = k
                        /\ leader_log'[k].term \in 1..leader_term'
    BY <1>2, <1>3, <1>4, <1>5 DEF ClusterInv
  <2>2. committed \in 0..n
    BY <1>2, <1>3
  <2> QED  BY <1>1, <1>2, <1>4, <1>5, <2>1, <2>2 DEF ClusterInv
<1>7. Succeeds
  <2>1. committed \in 0..n /\ \A k \in 1..committed : k \in 1..n
    BY <1>2, <1>3
  <2> QED  BY <1>4, <2>1 DEF Succeeds
<1>8. \A k, t : OfLeader(k, t) => OfLeader(k, t)'
  BY <1>5 DEF OfLeader
<1>9. SUFFICES ASSUME Sound'
               PROVE  /\ DiskInv' /\ OffsetInv' /\ SnapshotInv' /\ AckedInv'
                      /\ up => MirrorInv'
  BY <1>1, <1>6 DEF DurableInv
<1>10. DiskInv /\ OffsetInv /\ SnapshotInv /\ AckedInv /\ Len(disk) \in Nat /\ (up => MirrorInv)
  BY <1>1, <1>9, DiskFields DEF DurableInv, Sound
<1>11. OffsetInv' /\ SnapshotInv' /\ \A k : Covered(k) => Covered(k)'
  BY <1>1, <1>10, OffsetStays, SnapshotStays
<1>12. \A k \in 1..Len(disk) : Same(k)' <=> Same(k) /\ k <= n
  <2> TAKE k \in 1..Len(disk)
  <2>1. CASE k <= n
    <3>1. k \in 1..n /\ k <= Len(leader_log)
      BY <1>2, <1>3, <1>10, <2>1
    <3> QED  BY <1>1, <1>4, <2>1, <3>1 DEF Same
  <2>2. CASE ~(k <= n)
    BY <1>4, <2>2 DEF Same
  <2> QED  BY <2>1, <2>2
<1>13. DiskInv'
  <2>1. \A k \in 1..Len(disk) : disk[k] = <<disk[k][1], k>> /\ OfLeader(k, disk[k][1])'
    <3> TAKE k \in 1..Len(disk)
    <3>1. disk[k] = <<disk[k][1], k>> /\ OfLeader(k, disk[k][1])
      BY <1>10 DEF DiskInv
    <3>2. disk' = disk
      BY <1>1
    <3> QED  BY <1>8, <3>1, <3>2
  <2>2. ASSUME NEW k \in 1..Len(disk), Same(k)', NEW j \in 1..k
        PROVE  Same(j)'
    <3>1. Same(k) /\ k <= n
      BY <1>12, <2>2
    <3>2. j \in 1..Len(disk) /\ j <= n
      BY <1>3, <1>10, <3>1
    <3> QED  BY <1>10, <1>12, <3>1, <3>2 DEF DiskInv
  <2> QED  BY <1>1, <1>10, <2>1, <2>2 DEF DiskInv
<1>14. AckedInv'
  <2>1. \A a \in acked' : OfLeader(a[1], a[2])'
    BY <1>1, <1>8, <1>10 DEF AckedInv
  <2>2. ASSUME NEW k \in 1..n, <<k, TermOf(k)'>> \in acked
        PROVE  Same(k)' \/ Covered(k)'
    <3>1. TermOf(k)' = TermOf(k)
      BY <1>3, <1>4 DEF TermOf
    <3>2. Same(k) \/ Covered(k)
      BY <1>3, <1>10, <2>2, <3>1 DEF AckedInv
    <3>3. Same(k) => k \in 1..Len(disk) /\ k <= n
      BY <1>3, <1>10 DEF Same
    <3> QED  BY <1>11, <1>12, <3>2, <3>3
  <2> QED  BY <1>1, <1>4, <1>10, <2>1, <2>2 DEF AckedInv
<1>15. ASSUME up
       PROVE  MirrorInv'
  <2>1. MirrorInv /\ leader' # "self"
    BY <1>1, <1>10, <1>15
  <2> QED  BY <1>1, <1>2, <1>7, <1>10, <2>1, MirrorSucceeds
<1> QED  BY <1>11, <1>13, <1>14, <1>15

LEMMA LeadStep ==
  ASSUME DurableInv, Lead
  PROVE  DurableInv'
<1> DEFINE b == log.snapshot_last_index
           n == Len(disk)
<1>1. /\ up /\ Sound /\ LastIndex(log) >= committed
      /\ \A k \in log.first_index..committed : Get(log, k) = leader_log[k]
      /\ leader_log' = SubSeq(leader_log, 1, log.first_index - 1) \o log.entries
      /\ leader' = "self" /\ leader_term' = leader_term + 1
      /\ UNCHANGED <<up, log, commit_index, applied_index, disk, next_offset, snapshots>>
      /\ UNCHANGED <<committed, acked, defects>>
  BY DEF Lead, memory, files, history
<1>2. ClusterInv /\ DiskInv /\ OffsetInv /\ SnapshotInv /\ AckedInv /\ MirrorInv
  BY <1>1 DEF DurableInv
<1>3. /\ leader_log \in Seq(EntryOf(Nat)) /\ Len(leader_log) \in Nat /\ leader_term \in Nat \ {0}
      /\ committed \in Nat /\ committed <= Len(leader_log)
      /\ disk \in Seq(Nat \X Nat) /\ n \in Nat
      /\ \A k \in 1..n : disk[k] = <<disk[k][1], k>> /\ OfLeader(k, disk[k][1]) /\ disk[k][1] \in Nat
  BY <1>2, LenProperties, DiskFields DEF ClusterInv, DiskInv
<1> DEFINE size == Len(log.entries)
           head == SubSeq(leader_log, 1, b)
<1>4. /\ log \in LogOf(Nat) /\ b \in Nat /\ log.entries \in Seq(EntryOf(Nat))
      /\ size \in Nat /\ MirrorOf(log, disk, b) /\ log.first_index - 1 = b
      /\ LastIndex(log) = (IF b < n THEN n ELSE 0) /\ b <= committed /\ Held(b)
  <2>1. /\ applied_index \in Nat /\ b <= applied_index /\ applied_index <= commit_index
        /\ commit_index \in Nat /\ commit_index <= committed /\ b \in Nat
    BY <1>2, MirrorFacts
  <2>2. b <= committed
    BY <1>3, <2>1
  <2>3. Held(b)
    BY <1>2 DEF MirrorInv
  <2> QED  BY <1>2, <2>1, <2>2, <2>3, MirrorFacts
\* A log that has the committed entries goes on above its snapshot, if it has one.
<1>5. committed <= n /\ (b = 0 \/ b < n) /\ b <= n
  <2> HIDE DEF b, n
  <2> QED  BY <1>1, <1>3, <1>4
<1>6. size = n - b /\ \A k \in 1..size :
        log.entries[k] = [index |-> b + k, term |-> disk[b + k][1], payload |-> b + k]
  <2>1. size = (IF b < n THEN n - b ELSE 0) /\ \A k \in 1..size :
          log.entries[k] = [index |-> b + k, term |-> disk[b + k][1], payload |-> b + k]
    BY <1>4 DEF MirrorOf
  <2>2. size = n - b
    <3> HIDE DEF size, b, n
    <3> QED  BY <1>3, <1>4, <1>5, <2>1
  <2> QED  BY <2>1, <2>2
<1>6a. b \in Nat /\ n \in Nat /\ size \in Nat /\ size = n - b
  BY <1>3, <1>4, <1>6
<1>7. /\ head \in Seq(EntryOf(Nat)) /\ Len(head) = b
      /\ \A k \in 1..b : head[k] = leader_log[k]
  <2>1. \A k \in 1..b : k \in 1..Len(leader_log)
    BY <1>3, <1>4
  <2>2. \A k \in 1..b : leader_log[k] \in EntryOf(Nat)
    BY <1>3, <2>1, ElementOfSeq
  <2> HIDE DEF b
  <2> QED  BY <1>4, <2>2, SubSeqProperties
<1> HIDE DEF head
<1>8. /\ leader_log' \in Seq(EntryOf(Nat)) /\ Len(leader_log') = n
      /\ \A k \in 1..n : leader_log'[k] = IF k <= b THEN leader_log[k] ELSE log.entries[k - b]
  <2>1. leader_log' = head \o log.entries /\ head \in Seq(EntryOf(Nat)) /\ log.entries \in Seq(EntryOf(Nat))
    BY <1>1, <1>4, <1>7 DEF head
  <2>2. /\ leader_log' \in Seq(EntryOf(Nat)) /\ Len(leader_log') = Len(head) + size
        /\ \A k \in 1..(Len(head) + size) :
             leader_log'[k] = IF k <= Len(head) THEN head[k] ELSE log.entries[k - Len(head)]
    BY ONLY <2>1, ConcatProperties
  <2> HIDE DEF size, b, n
  <2>3. Len(head) + size = n
    <3>1. b + size = n
      BY ONLY <1>6a
    <3> QED  BY <1>7, <3>1
  <2>4. \A k \in 1..n : leader_log'[k] = IF k <= b THEN head[k] ELSE log.entries[k - b]
    BY <1>7, <2>2, <2>3
  <2>5. \A k \in 1..n : k <= b => k \in 1..b
    BY <1>4
  <2> QED  BY <1>7, <2>2, <2>3, <2>4, <2>5
<1> HIDE DEF size
<1>9. ASSUME NEW k \in 1..n
      PROVE  /\ leader_log'[k] = [index |-> k, term |-> disk[k][1], payload |-> k]
             /\ k <= committed => leader_log'[k] = leader_log[k]
             /\ disk[k][1] \in 1..leader_term /\ disk[k][1] # leader_term'
  <2>1. disk[k][1] \in 1..leader_term /\ disk[k][1] # leader_term'
    <3>1. disk[k][1] \in 1..leader_term
      BY <1>3 DEF OfLeader
    <3>2. \A t \in 1..leader_term : t # leader_term'
      BY <1>1, <1>3
    <3> QED  BY <3>1, <3>2
  <2>2. CASE k <= b
    <3>1. k \in 1..b /\ k \in 1..Len(leader_log) /\ b < n
      <4> HIDE DEF b, n
      <4> QED  BY <1>3, <1>4, <1>5, <2>2
    <3>2. disk[k][1] = leader_log[k].term
      BY <1>4, <3>1 DEF Held, Same
    <3>3. leader_log[k] = [index |-> k, term |-> leader_log[k].term, payload |-> k]
      BY <1>2, <3>1, LeaderEntry
    <3>4. leader_log'[k] = leader_log[k]
      BY <1>8, <2>2
    <3> QED  BY <2>1, <3>2, <3>3, <3>4
  <2>3. CASE ~(k <= b)
    <3>1. k - b \in 1..size /\ b + (k - b) = k
      <4> HIDE DEF b, n
      <4> QED  BY <1>6a, <2>3
    <3>2. log.entries[k - b] = [index |-> k, term |-> disk[k][1], payload |-> k]
      BY <1>6, <3>1
    <3>3. leader_log'[k] = log.entries[k - b]
      BY <1>8, <2>3
    <3>4. ASSUME k <= committed
          PROVE  leader_log'[k] = leader_log[k]
      <4>1. k - log.first_index + 1 = k - b /\ k \in log.first_index..committed
        <5>1. log.first_index \in Nat
          BY <1>4 DEF LogOf
        <5>2. b \in Nat /\ log.first_index - 1 = b /\ committed \in Nat /\ k \in Nat
          BY <1>3, <1>4
        <5> HIDE DEF b, n
        <5> QED  BY <2>3, <3>4, <5>1, <5>2
      <4>2. Get(log, k) = log.entries[k - b]
        BY <4>1 DEF Get
      <4> QED  BY <1>1, <3>3, <4>1, <4>2
    <3> QED  BY <2>1, <3>2, <3>3, <3>4
  <2> QED  BY <2>2, <2>3
<1>10. leader_term' \in Nat \ {0} /\ \A t \in 1..leader_term : t \in 1..leader_term' /\ t # leader_term'
  BY <1>1, <1>3
<1>11. ClusterInv'
  <2>1. \A k \in 1..n : /\ leader_log'[k].index = k /\ leader_log'[k].payload = k
                        /\ leader_log'[k].term \in 1..leader_term'
    <3> TAKE k \in 1..n
    <3>1. leader_log'[k] = [index |-> k, term |-> disk[k][1], payload |-> k] /\ disk[k][1] \in 1..leader_term
      BY <1>9
    <3> QED  BY <1>10, <3>1
  <2>2. committed \in 0..n
    BY <1>3, <1>5
  <2> QED  BY <1>1, <1>2, <1>8, <1>10, <2>1, <2>2 DEF ClusterInv
<1>12. Succeeds
  <2>1. committed \in 0..n /\ \A k \in 1..committed : k \in 1..n /\ k <= committed
    BY <1>3, <1>5
  <2> QED  BY <1>8, <1>9, <2>1 DEF Succeeds
<1>13. \A k \in 1..n : Same(k)'
  <2> TAKE k \in 1..n
  <2>1. leader_log'[k].term = disk[k][1] /\ k <= n
    <3>1. leader_log'[k] = [index |-> k, term |-> disk[k][1], payload |-> k]
      BY <1>9
    <3> QED  BY <1>3, <3>1
  <2> QED  BY <1>1, <1>8, <2>1 DEF Same
<1>14. \A k, t : OfLeader(k, t) => OfLeader(k, t)'
  BY <1>10 DEF OfLeader
<1>15. DiskInv'
  <2>1. \A k \in 1..n : disk[k] = <<disk[k][1], k>> /\ OfLeader(k, disk[k][1])'
    <3>1. disk' = disk
      BY <1>1
    <3> QED  BY <1>3, <1>14, <3>1
  <2>2. \A k \in 1..n : \A j \in 1..k : j \in 1..n
    BY <1>3
  <2> QED  BY <1>1, <1>3, <1>13, <2>1, <2>2 DEF DiskInv
<1>16. OffsetInv' /\ SnapshotInv'
  BY <1>1, <1>2, OffsetStays, SnapshotStays
<1>17. AckedInv'
  <2>1. \A a \in acked' : OfLeader(a[1], a[2])'
    BY <1>1, <1>2, <1>14 DEF AckedInv
  <2>2. \A k \in 1..Len(leader_log') : Same(k)'
    BY <1>8, <1>13
  <2> QED  BY <1>1, <1>2, <2>1, <2>2 DEF AckedInv
<1>18. MirrorInv'
  BY <1>1, <1>2, <1>5, <1>8, <1>12, <1>13, MirrorSucceeds
<1> QED  BY <1>11, <1>15, <1>16, <1>17, <1>18 DEF DurableInv

-----------------------------------------------------------------------------
(* The theorems *)

LEMMA InitDurable ==
  ASSUME Init
  PROVE  DurableInv
<1>1. /\ up = TRUE /\ log = EmptyLog /\ commit_index = 0 /\ applied_index = 0
      /\ disk = << >> /\ next_offset = 0 /\ snapshots = {}
      /\ leader = "other" /\ leader_term = 1 /\ leader_log = << >> /\ committed = 0
      /\ acked = {} /\ defects = {}
  BY DEF Init
<1>2. << >> \in Seq(EntryOf(Nat)) /\ << >> \in Seq(Nat \X Nat) /\ Len(<< >>) = 0
  BY EmptySeq
<1>3. Len(disk) = 0 /\ Len(leader_log) = 0
  BY <1>1, <1>2
<1>4. ClusterInv
  <2>1. 1 \in Nat \ {0} /\ 0 \in 0..0 /\ 1..0 = {}
    OBVIOUS
  <2>2. leader_term \in Nat \ {0} /\ committed \in 0..Len(leader_log) /\ 1..Len(leader_log) = {}
    BY ONLY <1>1, <1>3, <2>1, Zenon
  <2>3. leader_log \in Seq(EntryOf(Nat))
    BY <1>1, <1>2, Zenon
  <2>4. /\ leader \in {"self", "other", "none"} /\ up \in BOOLEAN
        /\ leader = "self" => up
    BY <1>1, Zenon
  <2> QED  BY <2>2, <2>3, <2>4, Zenon DEF ClusterInv
<1>5. DiskInv /\ OffsetInv /\ SnapshotInv /\ AckedInv
  BY <1>1, <1>2, <1>3 DEF DiskInv, OffsetInv, SnapshotInv, AckedInv
<1>6. /\ log \in LogOf(Nat) /\ log.snapshot_last_index = 0 /\ log.first_index = 1
      /\ log.entries = << >>
  BY <1>1, <1>2 DEF EmptyLog, LogOf
<1>7. MirrorOf(log, disk, log.snapshot_last_index)
  <2>1. NumberedLog(0, log)
    BY <1>2, <1>6 DEF NumberedLog, NumberedFrom
  <2> QED  BY <1>2, <1>3, <1>6, <2>1 DEF MirrorOf
<1>8. MirrorInv
  <2>1. 0 \in 0..0 /\ Held(0)
    BY <1>3 DEF Held
  <2> QED  BY <1>1, <1>6, <1>7, <2>1 DEF MirrorInv
<1> QED  BY <1>4, <1>5, <1>8 DEF DurableInv

LEMMA NextDurable ==
  ASSUME DurableInv, [Next]_vars
  PROVE  DurableInv'
<1>1. CASE LeaderAppends
  BY <1>1, LeaderAppendsStep
<1>2. CASE Lead
  BY <1>2, LeadStep
<1>3. CASE AppendEntryDurably
  BY <1>3, AppendEntryDurablyStep
<1>4. CASE LeaderApplies
  BY <1>4, LeaderAppliesStep
<1>5. ASSUME NEW k \in 1..Len(leader_log), Commit(k)
      PROVE  DurableInv'
  BY <1>5, CommitStep
<1>6. ASSUME NEW k \in committed..Len(leader_log), NewLeader(k)
      PROVE  DurableInv'
  BY <1>6, NewLeaderStep
<1>7. ASSUME NEW prev \in 0..Len(leader_log), NEW n \in 0..(Len(leader_log) - prev),
             NEW commit \in 0..MinOf(committed, prev + n), OnAppend(prev, n, commit)
      PROVE  DurableInv'
  BY <1>7, OnAppendStep
<1>8. ASSUME NEW prev \in 0..Len(leader_log), NEW n \in 0..(Len(leader_log) - prev),
             CrashInAppend(prev, n)
      PROVE  DurableInv'
  BY <1>8, CrashInAppendStep
<1>9. CASE TakeSnapshot
  BY <1>9, TakeSnapshotStep
<1>10. ASSUME NEW index \in 1..committed, InstallSnapshot(index)
       PROVE  DurableInv'
  BY <1>10, InstallSnapshotStep
<1>11. ASSUME NEW index \in 1..committed, CrashInInstall(index)
       PROVE  DurableInv'
  BY <1>11, CrashInInstallStep
<1>12. CASE Crash
  BY <1>12, CrashStep
<1>13. CASE Restart
  BY <1>13, RestartStep
<1>14. CASE CrashInRestart
  BY <1>14, CrashInRestartStep
<1>15. CASE UNCHANGED vars
  <2>1. /\ UNCHANGED <<up, log, commit_index, applied_index, disk, next_offset, snapshots>>
        /\ UNCHANGED <<leader, leader_term, leader_log, committed, acked, defects>>
    BY <1>15 DEF vars, memory, files, cluster, history
  <2>2. ClusterInv' <=> ClusterInv
    BY <2>1 DEF ClusterInv
  <2>3. Sound' <=> Sound
    BY <2>1 DEF Sound
  <2>4. DiskInv' <=> DiskInv
    BY <2>1 DEF DiskInv, Same, OfLeader
  <2>5. OffsetInv' <=> OffsetInv
    BY <2>1 DEF OffsetInv
  <2>6. SnapshotInv' <=> SnapshotInv
    BY <2>1 DEF SnapshotInv
  <2>7. AckedInv' <=> AckedInv
    BY <2>1 DEF AckedInv, Same, OfLeader, TermOf, Covered
  <2>8. MirrorInv' <=> MirrorInv
    BY <2>1 DEF MirrorInv, Same, Held
  <2> QED  BY <2>1, <2>2, <2>3, <2>4, <2>5, <2>6, <2>7, <2>8 DEF DurableInv
<1> QED  BY <1>1, <1>2, <1>3, <1>4, <1>5, <1>6, <1>7, <1>8, <1>9, <1>10, <1>11, <1>12, <1>13, <1>14,
            <1>15 DEF Next

\* DurableInv holds in every state.
LEMMA DurableInvariant == Spec => []DurableInv
<1>1. Init => DurableInv
  BY InitDurable
<1>2. DurableInv /\ [Next]_vars => DurableInv'
  BY NextDurable
<1> QED  BY <1>1, <1>2, PTL DEF Spec

LEMMA DurableImpliesAcknowledged ==
  ASSUME DurableInv
  PROVE  AcknowledgedDurable
<1>1. SUFFICES ASSUME Sound, NEW k \in 1..committed, <<k, TermOf(k)>> \in acked,
                      ~\E s \in snapshots : s.index >= k
               PROVE  k <= Len(disk) /\ disk[k] = Record(leader_log[k])
  BY DEF AcknowledgedDurable
<1>2. ClusterInv /\ DiskInv /\ AckedInv
  BY <1>1 DEF DurableInv
<1>3. k \in 1..Len(leader_log) /\ Len(disk) \in Nat
  BY <1>2, LenProperties, DiskFields DEF ClusterInv
<1>4. Same(k)
  BY <1>1, <1>2, <1>3 DEF AckedInv, Covered
<1>5. k \in 1..Len(disk) /\ k <= Len(disk) /\ disk[k][1] = leader_log[k].term
  BY <1>3, <1>4 DEF Same
<1>6. disk[k] = <<disk[k][1], k>>
  BY <1>2, <1>5, DiskFields
<1>7. leader_log[k].payload = k
  BY <1>2, <1>3, LeaderEntry
<1> QED  BY <1>5, <1>6, <1>7 DEF Record

LEMMA DurableImpliesCoherent ==
  ASSUME DurableInv
  PROVE  Coherent
<1> DEFINE b == log.snapshot_last_index
           n == Len(disk)
<1>1. SUFFICES ASSUME up, Sound
               PROVE  /\ EveryEntryOnDisk
                      /\ LastPosition(log) = MaxOf(n, log.first_index - 1)
                      /\ \A k \in 1..Len(log.entries) : log.entries[k].index = log.first_index + k - 1
                      /\ "torn" \notin defects => next_offset = n
  BY DEF Coherent
<1>2. ClusterInv /\ DiskInv /\ OffsetInv /\ SnapshotInv /\ MirrorInv
  BY <1>1 DEF DurableInv
<1>3. /\ log \in LogOf(Nat) /\ b \in Nat /\ Len(log.entries) \in Nat
      /\ log.first_index - 1 = b /\ MirrorOf(log, disk, b)
  BY <1>2, MirrorFacts
<1>4. n \in Nat /\ (\A k \in 1..n : disk[k] = <<disk[k][1], k>>) /\ log.first_index \in Nat
  BY <1>2, <1>3, DiskFields DEF LogOf
<1>5. Len(log.entries) = IF b < n THEN n - b ELSE 0
  BY <1>3 DEF MirrorOf
<1>6. ASSUME NEW k \in 1..Len(log.entries)
      PROVE  /\ log.entries[k].index = log.first_index + k - 1
             /\ log.entries[k].index <= n
             /\ disk[log.entries[k].index] = Record(log.entries[k])
  <2>1. log.entries[k] = [index |-> b + k, term |-> disk[b + k][1], payload |-> b + k]
    BY <1>3 DEF MirrorOf
  <2>2. b + k \in 1..n /\ b + k <= n /\ k \in Nat
    <3> HIDE DEF b, n
    <3> QED  BY <1>3, <1>4, <1>5
  <2>3. b + k = log.first_index + k - 1
    <3> HIDE DEF b, n
    <3> QED  BY <1>3, <1>4, <2>2
  <2>4. disk[b + k] = <<disk[b + k][1], b + k>>
    BY <1>4, <2>2
  <2>5. log.entries[k].index = b + k /\ Record(log.entries[k]) = <<disk[b + k][1], b + k>>
    BY <2>1 DEF Record
  <2> QED  BY <2>2, <2>3, <2>4, <2>5
<1>7. LastPosition(log) = MaxOf(n, log.first_index - 1)
  <2> DEFINE size == Len(log.entries)
  <2>1. LastPosition(log) = log.first_index + size - 1
    BY DEF LastPosition
  <2>2. MaxOf(n, log.first_index - 1) = MaxOf(n, b)
    BY <1>3
  <2> HIDE DEF b, n, size
  <2>3. MaxOf(n, b) = IF b < n THEN n ELSE b
    BY <1>3, <1>4 DEF MaxOf
  <2>4. size \in Nat /\ size = IF b < n THEN n - b ELSE 0
    BY <1>3, <1>5 DEF size
  <2>5. LastPosition(log) = b + size
    BY <1>3, <1>4, <2>1, <2>4
  <2>6. b + size = IF b < n THEN n ELSE b
    BY <1>3, <1>4, <2>4
  <2> QED  BY <2>2, <2>3, <2>5, <2>6
<1>8. "torn" \notin defects => next_offset = n
  BY <1>2 DEF OffsetInv
<1> QED  BY <1>6, <1>7, <1>8 DEF EveryEntryOnDisk

\* The two merges give the same answer to an append that starts at or above the
\* snapshot point.
LEMMA MergesAgree ==
  ASSUME ClusterInv, DiskInv, SnapshotInv, MirrorInv,
         NEW prev \in Nat, prev >= log.snapshot_last_index, prev <= Len(leader_log),
         NEW n \in 0..(Len(leader_log) - prev)
  PROVE  \A field \in {"ok", "match", "conflict", "log"} :
           MergeOf(prev, n)[field] = Merge(log, prev, TermOf(prev), Incoming(prev, n))[field]
<1> DEFINE inc == Incoming(prev, n)
           m == MergeOf(prev, n)
           r == Merge(log, prev, TermOf(prev), inc)
<1>1. /\ log \in LogOf(Nat) /\ log.snapshot_last_index \in Nat /\ LastIndex(log) \in Nat
      /\ Len(leader_log) \in Nat
  BY MirrorFacts, ReadType, LenProperties DEF ClusterInv
<1>2. prev \in 0..Len(leader_log)
  BY <1>1
<1>3. SUFFICES m.ok = r.ok /\ m.match = r.match /\ m.conflict = r.conflict /\ m.log = r.log
  OBVIOUS
<1> HIDE DEF inc
<1>4. CASE prev > LastIndex(log) \/ TermAt(log, prev) # TermOf(prev)
  BY <1>4 DEF MergeOf, DurableMerge, Merge, Rejected, inc
<1>5. CASE ~(prev > LastIndex(log)) /\ TermAt(log, prev) = TermOf(prev)
  <2>1. m.ok = TRUE /\ m.match = prev + Len(inc) /\ m.conflict = 0
    BY <1>5 DEF MergeOf, DurableMerge, inc
  <2>2. /\ r.ok = TRUE /\ r.match = prev + Len(inc) /\ r.conflict = 0
        /\ r.log = IF InsertAt(log, prev, inc) = 0 THEN log ELSE WrittenInMemory(prev, n)
    BY <1>5 DEF Merge, WrittenInMemory, inc
  <2>3. prev <= LastIndex(log)
    BY <1>1, <1>5
  <2>4. CASE InsertAt(log, prev, inc) = 0
    <3>1. FindsAll(m, prev, n)
      BY <1>2, <1>5, <2>3, <2>4, MergeFindsAll DEF inc
    <3> QED  BY <2>1, <2>2, <2>4, <3>1 DEF FindsAll
  <2>5. CASE InsertAt(log, prev, inc) # 0
    <3>1. log.snapshot_last_index = 0 \/ prev > log.snapshot_last_index
      <4>1. prev = 0 \/ prev > log.snapshot_last_index
        BY <1>2, <1>5, <2>3, CheckPassed
      <4> QED  BY <1>1, <4>1
    <3>2. m.log = WrittenInMemory(prev, n)
      BY <1>2, <1>5, <2>3, <2>5, <3>1, MergeRewrites DEF inc
    <3> QED  BY <2>1, <2>2, <2>5, <3>2
  <2> QED  BY <2>4, <2>5
<1> QED  BY <1>4, <1>5

LEMMA DurableImpliesMergeAgrees ==
  ASSUME DurableInv
  PROVE  MergeAgrees
<1>1. SUFFICES ASSUME up, Sound,
                      NEW prev \in (log.first_index - 1)..Len(leader_log),
                      NEW n \in 0..(Len(leader_log) - prev),
                      NEW field \in {"ok", "match", "conflict", "log"}
               PROVE  MergeOf(prev, n)[field]
                        = Merge(log, prev, TermOf(prev), Incoming(prev, n))[field]
  BY DEF MergeAgrees, MergeOf, Incoming
<1>2. ClusterInv /\ DiskInv /\ SnapshotInv /\ MirrorInv
  BY <1>1 DEF DurableInv
<1>3. /\ log.snapshot_last_index \in Nat /\ log.first_index - 1 = log.snapshot_last_index
      /\ Len(leader_log) \in Nat
  BY <1>2, MirrorFacts, LenProperties DEF ClusterInv
<1>4. prev \in Nat /\ prev >= log.snapshot_last_index /\ prev <= Len(leader_log)
  BY <1>3
<1> QED  BY <1>2, <1>4, MergesAgree

\* An entry that is committed and that the server has acknowledged (the answer of
\* _on_append or _on_install_snapshot) is on its disk or in a snapshot file while the
\* log is sound, crashes inside truncate_from and between it and append_many included,
\* for logs of any length and however the disk is split into segments.
THEOREM AcknowledgedDurableHolds == Spec => []AcknowledgedDurable
<1>1. DurableInv => AcknowledgedDurable
  BY DurableImpliesAcknowledged
<1> QED  BY <1>1, DurableInvariant, PTL

\* While the log is sound, the log in memory holds exactly the records above its
\* snapshot that a restart would read, under the same indexes, and unless a
\* truncate_from was torn by a crash disk.next_offset is where they end.
THEOREM CoherentHolds == Spec => []Coherent
<1>1. DurableInv => Coherent
  BY DurableImpliesCoherent
<1> QED  BY <1>1, DurableInvariant, PTL

\* While the log is sound, the merge of RaftLog and that of DurableRaftLog give the
\* same answer and the same log to every append that no snapshot has overtaken.
THEOREM MergeAgreesHolds == Spec => []MergeAgrees
<1>1. DurableInv => MergeAgrees
  BY DurableImpliesMergeAgrees
<1> QED  BY <1>1, DurableInvariant, PTL
=============================================================================
