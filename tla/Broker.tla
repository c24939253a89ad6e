------------------------------- MODULE Broker -------------------------------
(***************************************************************************)
(* The broker of pylog (pylog/broker.py) behind its HTTP gateway           *)
(* (pylog/api.py): topics split into partitions, producers that are routed *)
(* by key or round robin, retention, and consumer groups whose offsets are *)
(* kept in memory and in a file.                                           *)
(*                                                                         *)
(* ThreadingHTTPServer runs every request in a thread.  A consumer is a    *)
(* client that sends one request at a time; the steps of its handler       *)
(* interleave with those of the others, with producers, with sweeps and    *)
(* with crashes.  A partition is the commit log of CommitLog, as a list of *)
(* segments; sizes are counted in records.                                 *)
(***************************************************************************)
EXTENDS Integers, Sequences, FiniteSets

CONSTANTS
  Topic,               \* topic names
  Key, NoKey,          \* record keys; NoKey for a record without one
  Hash,                \* zlib.crc32, a function of the key
  Consumer, GroupOf,   \* the clients, and the group each one is in
  DefaultPartitions,   \* default_partitions
  SegmentRecords,      \* max_segment_bytes, in records
  Limit,               \* the limit parameter of consume
  MaxTotal,            \* retention_max_partition_bytes, in records
  Posted,              \* bound on the offsets that clients commit of their own accord
  MaxRecords,          \* bound on the records produced
  MaxCrashes           \* bound on the crashes

ASSUME KeyAssumption == NoKey \notin Key /\ Hash \in [Key -> Nat]
ASSUME SizeAssumption ==
  {DefaultPartitions, SegmentRecords, Limit} \subseteq Nat \ {0} /\ MaxTotal \in Nat
ASSUME BoundAssumption ==
  MaxRecords \in Nat /\ MaxCrashes \in Nat /\ Posted \subseteq 0..MaxRecords

VARIABLES
  up,
  \* topic -> the partitions it has, each a sequence of segments
  topics,
  rr,               \* _rr
  produced,         \* the number of records produced so far
  \* the offsets of the groups: in memory and in the files
  offsets, offsets_file,
  \* consumer -> the request its handler works on
  request,
  \* history: the offsets that a group has gone past, because a handler has read
  \* them or a client has committed them, and the last one whose commit was confirmed
  passed, confirmed,
  crashes

broker == <<up, topics, rr, produced>>
groups == <<offsets, offsets_file>>
history == <<passed, confirmed, crashes>>
vars == <<broker, groups, request, history>>

Group == {GroupOf[c] : c \in Consumer}
Place == Topic \X (0..(DefaultPartitions - 1))   \* the key "topic/partition"

-----------------------------------------------------------------------------
(* Partitions *)

NewPartition == <<[base |-> 0, records |-> << >>]>>

LastSegment(p) == p[Len(p)]
HighWatermark(p) == LastSegment(p).base + Len(LastSegment(p).records)
FirstOffset(p) == p[1].base

AppendRecord(p, r) ==
  IF Len(LastSegment(p).records) >= SegmentRecords
  THEN Append(p, [base |-> HighWatermark(p), records |-> <<r>>])
  ELSE [p EXCEPT ![Len(p)].records = Append(@, r)]

\* Mutant of ReadAfter: records that were deleted are skipped.
BugSkipsDeleted(p, offset, limit) ==
  LET start == IF offset + 1 >= FirstOffset(p) THEN offset + 1 ELSE FirstOffset(p)
  IN  {k \in start..(start + limit - 1) : k < HighWatermark(p)}

\* Mutant of ReadAfter: the newest record is taken for one still being written.
BugStopsShort(p, offset, limit) ==
  LET start == IF offset >= 0 THEN offset + 1 ELSE 0
  IN  {k \in start..(start + limit - 1) : start >= FirstOffset(p) /\ k + 1 < HighWatermark(p)}

\* The offsets that read_after returns: from offset + 1 on, as long as read finds
\* a record, which it does not below the first segment.
ReadAfter(p, offset, limit) ==
  LET start == IF offset >= 0 THEN offset + 1 ELSE 0
  IN  {k \in start..(start + limit - 1) : start >= FirstOffset(p) /\ k < HighWatermark(p)}

DropSegments(p, n) == SubSeq(p, n + 1, Len(p))
Total(p) == HighWatermark(p) - FirstOffset(p)

\* The second half of retention_sweep: every round cuts below the base of the
\* second segment plus one, which deletes the first two unless the second is the
\* active one.
SizeSweep(p) ==
  LET rounds == {IF 2 * j < Len(p) THEN 2 * j ELSE Len(p) - 1 : j \in 0..Len(p)}
      enough == {n \in rounds : n = Len(p) - 1 \/ Total(DropSegments(p, n)) <= MaxTotal}
  IN  DropSegments(p, CHOOSE n \in enough : \A k \in enough : n <= k)

-----------------------------------------------------------------------------

Idle == [at |-> "idle"]
FetchRequest == [at : {"fetch"}, place : Place, after : -1..MaxRecords]
CommitRequest ==
  [at : {"commit", "assign", "write", "respond"}, place : Place, offset : 0..MaxRecords]

Init ==
  /\ up = TRUE
  /\ topics = [t \in Topic |-> << >>]
  /\ rr = 0
  /\ produced = 0
  /\ offsets = [g \in Group |-> [q \in Place |-> -1]]
  /\ offsets_file = offsets
  /\ request = [c \in Consumer |-> Idle]
  /\ passed = [g \in Group |-> [q \in Place |-> {}]]
  /\ confirmed = offsets
  /\ crashes = 0

(* Topics and producers *)

\* Mutant of OpenTopic: one partition too many.
BugOpensOneMore(t, n) ==
  [i \in 1..(n + 1) |-> IF i <= Len(topics[t]) THEN topics[t][i] ELSE NewPartition]

\* _open_topic of n partitions: the directories that are there are kept.
OpenTopic(t, n) ==
  [i \in 1..n |-> IF i <= Len(topics[t]) THEN topics[t][i] ELSE NewPartition]

CreateTopic(t, n) ==
  /\ up
  /\ topics[t] = << >>
  /\ topics' = [topics EXCEPT ![t] = OpenTopic(t, n)]
  /\ UNCHANGED <<up, rr, produced, groups, request, history>>

\* Mutant of Route: the hash is the built-in one, salted anew in every process.
BugSaltedHash(parts, key) ==
  IF key = NoKey THEN rr % Len(parts) ELSE (Hash[key] + crashes) % Len(parts)

\* The partition of a record, numbered from 0.
Route(parts, key) ==
  IF key = NoKey THEN rr % Len(parts) ELSE Hash[key] % Len(parts)

\* produce creates a topic that does not exist.
Produce(t, key) ==
  LET parts == IF topics[t] = << >> THEN OpenTopic(t, DefaultPartitions) ELSE topics[t]
  IN  /\ up
      /\ produced < MaxRecords
      /\ topics' = [topics EXCEPT ![t] =
           [parts EXCEPT ![Route(parts, key) + 1] =
              AppendRecord(@, [key |-> key, number |-> produced + 1])]]
      /\ rr' = IF key = NoKey THEN rr + 1 ELSE rr
      /\ produced' = produced + 1
      /\ UNCHANGED <<up, groups, request, history>>

\* retention_sweep of a partition whose first segments are past max_age_ms.
Swept(p, expired) == SizeSweep(DropSegments(p, expired))

\* retention_sweep of the broker: how many segments have expired depends on the
\* clock; the active one never does.
RetentionSweep ==
  /\ up
  /\ \E expired \in [Place -> 0..MaxRecords] :
       /\ \A q \in Place :
            expired[q] = 0 \/ (q[2] < Len(topics[q[1]]) /\ expired[q] < Len(topics[q[1]][q[2] + 1]))
       /\ topics' = [t \in Topic |-> [i \in 1..Len(topics[t]) |->
                       Swept(topics[t][i], expired[<<t, i - 1>>])]]
  /\ UNCHANGED <<up, rr, produced, groups, request, history>>

-----------------------------------------------------------------------------
(* Consumers *)

\* GET consume: the handler reads the group's offset.  A partition that does not
\* exist is refused by fetch.
Consume(c, t, i) ==
  /\ up
  /\ request[c] = Idle
  /\ i < Len(topics[t])
  /\ request' = [request EXCEPT ![c] =
       [at |-> "fetch", place |-> <<t, i>>, after |-> offsets[GroupOf[c]][<<t, i>>]]]
  /\ UNCHANGED <<broker, groups, history>>

Passed(g, place, ks) == [passed EXCEPT ![g][place] = @ \cup ks]

\* fetch; without records there is nothing to commit.
Fetch(c) ==
  LET r == request[c]
      found == ReadAfter(topics[r.place[1]][r.place[2] + 1], r.after, Limit)
  IN  /\ r.at = "fetch"
      /\ request' = [request EXCEPT ![c] =
           IF found = {} THEN Idle
           ELSE [at |-> "commit", place |-> r.place,
                 offset |-> CHOOSE k \in found : \A j \in found : j <= k]]
      /\ passed' = Passed(GroupOf[c], r.place, found)
      /\ UNCHANGED <<broker, groups, confirmed, crashes>>

\* POST commit, of any offset.
CommitOffset(c, place, offset) ==
  /\ up
  /\ request[c] = Idle
  /\ request' = [request EXCEPT ![c] =
       [at |-> "commit", place |-> place, offset |-> offset]]
  /\ passed' = Passed(GroupOf[c], place, 0..offset)
  /\ UNCHANGED <<broker, groups, confirmed, crashes>>

MayCommit(current, offset) == offset >= current

\* The check of ConsumerGroup.commit: an earlier offset changes nothing and is
\* confirmed all the same.
CheckOffset(c) ==
  LET r == request[c]
  IN  /\ r.at = "commit"
      /\ request' = [request EXCEPT ![c].at =
           IF MayCommit(offsets[GroupOf[c]][r.place], r.offset) THEN "assign" ELSE "respond"]
      /\ UNCHANGED <<broker, groups, history>>

\* The assignment.
AssignOffset(c) ==
  LET r == request[c]
  IN  /\ r.at = "assign"
      /\ offsets' = [offsets EXCEPT ![GroupOf[c]][r.place] = r.offset]
      /\ request' = [request EXCEPT ![c].at = "write"]
      /\ UNCHANGED <<broker, offsets_file, history>>

\* Mutant of WriteOffsets: the answer is sent before the file is written.
BugNoReplace(c) ==
  /\ request[c].at = "write"
  /\ request' = [request EXCEPT ![c].at = "respond"]
  /\ UNCHANGED <<broker, groups, history>>

\* The file gets all offsets of the group, by a rename.
WriteOffsets(c) ==
  LET g == GroupOf[c]
  IN  /\ request[c].at = "write"
      /\ offsets_file' = [offsets_file EXCEPT ![g] = offsets[g]]
      /\ request' = [request EXCEPT ![c].at = "respond"]
      /\ UNCHANGED <<broker, offsets, history>>

Raise(f, g, place, offset) == [f EXCEPT ![g][place] = IF offset > @ THEN offset ELSE @]

\* The answer reaches the client: the records, or that the offset is committed.
Respond(c) ==
  LET r == request[c]
      g == GroupOf[c]
  IN  /\ r.at = "respond"
      /\ confirmed' = Raise(confirmed, g, r.place, r.offset)
      /\ request' = [request EXCEPT ![c] = Idle]
      /\ UNCHANGED <<broker, groups, passed, crashes>>

-----------------------------------------------------------------------------
(* Crashes *)

Fail ==
  /\ up
  /\ crashes < MaxCrashes
  /\ crashes' = crashes + 1
  /\ up' = FALSE
  /\ rr' = 0
  /\ offsets' = [g \in Group |-> [q \in Place |-> -1]]
  /\ request' = [c \in Consumer |-> Idle]
  /\ UNCHANGED <<produced, offsets_file, passed, confirmed>>

Crash == Fail /\ UNCHANGED topics

\* The process dies after the first directories of a topic.
CrashInCreate(t, n) ==
  /\ Fail
  /\ topics[t] = << >>
  /\ topics' = [topics EXCEPT ![t] = OpenTopic(t, n)]

\* __init__ opens the partitions whose directories it finds; a group reads its
\* file when it is used first.
Restart ==
  /\ ~up
  /\ up' = TRUE
  /\ offsets' = offsets_file
  /\ UNCHANGED <<topics, rr, produced, offsets_file, request, history>>

Handler(c) ==
  Fetch(c) \/ CheckOffset(c) \/ AssignOffset(c) \/ WriteOffsets(c) \/ Respond(c)

Next ==
  \/ \E t \in Topic :
       \/ \E n \in 1..DefaultPartitions : CreateTopic(t, n)
       \/ \E n \in 1..(DefaultPartitions - 1) : CrashInCreate(t, n)
       \/ \E key \in Key \cup {NoKey} : Produce(t, key)
  \/ \E c \in Consumer :
       \/ Handler(c)
       \/ \E q \in Place : \/ Consume(c, q[1], q[2])
                           \/ \E offset \in Posted : CommitOffset(c, q, offset)
  \/ RetentionSweep
  \/ Crash
  \/ Restart

Spec == Init /\ [][Next]_vars

\* Handlers run on, the process is restarted after a crash, and every consumer
\* polls every partition of a topic again and again.
Fairness ==
  /\ WF_vars(Restart)
  /\ \A c \in Consumer :
       /\ WF_vars(Handler(c))
       /\ \A q \in Place : SF_vars(Consume(c, q[1], q[2]))

FairSpec == Spec /\ Fairness

-----------------------------------------------------------------------------
(* Properties *)

\* The types of the attributes, and of what a handler keeps between its steps: the
\* partition that it has still to read exists.
TypeOK ==
  /\ up \in BOOLEAN
  /\ \A t \in Topic : Len(topics[t]) <= DefaultPartitions
  /\ {rr, produced} \subseteq 0..MaxRecords
  /\ \A g \in Group : {offsets[g], offsets_file[g]} \subseteq [Place -> -1..MaxRecords]
  /\ request \in [Consumer -> {Idle} \cup FetchRequest \cup CommitRequest]
  /\ \A c \in Consumer : request[c].at = "fetch" =>
       request[c].place[2] < Len(topics[request[c].place[1]])

\* The places of the records of a partition, <<segment, position>>, their order,
\* and the record at a place.
Positions(p) ==
  {x \in (1..Len(p)) \X (1..SegmentRecords) : x[2] <= Len(p[x[1]].records)}
Before(x, y) == x[1] < y[1] \/ (x[1] = y[1] /\ x[2] < y[2])
RecordAt(p, x) == p[x[1]].records[x[2]]

\* The records of one key are in one partition of the topic, in the order in
\* which they were produced, whatever crash has left of the topic's directories
\* (Broker.__init__ counts them; ARCHITECTURE.md:70).
KeyOrder ==
  \A t \in Topic : \A i, j \in 1..Len(topics[t]) :
    \A x \in Positions(topics[t][i]) : \A y \in Positions(topics[t][j]) :
      LET r == RecordAt(topics[t][i], x)
          s == RecordAt(topics[t][j], y)
      IN  (r.key \in Key /\ r.key = s.key) =>
            i = j /\ (Before(x, y) => r.number < s.number)

\* An offset whose commit was confirmed is in the file, so that no crash takes
\* it back (ConsumerGroup.commit writes before the answer).
CommitDurable ==
  \A g \in Group : \A q \in Place : confirmed[g][q] <= offsets_file[g][q]

\* A group passes over no record: one at or below its offset was read by a handler
\* of the group or lies below an offset that a client has posted.  It is so although
\* what a handler read may be stale when it commits, reads are cut at the limit,
\* records are deleted before they are read (read_after then finds nothing, and does
\* not go on behind them), and a crash takes the offset back (do_GET commits the
\* last offset of what it has read).
NothingSkipped ==
  \A g \in Group : \A q \in Place : 0..offsets[g][q] \subseteq passed[g][q]

\* A group that polls catches up with every partition, unless a sweep has
\* deleted the record after its offset: read_after then returns nothing for good.
ConsumerCatchesUp ==
  \A g \in Group : \A q \in Place :
    []<>(up /\ q[2] < Len(topics[q[1]]) =>
           LET p == topics[q[1]][q[2] + 1]
           IN  \/ offsets[g][q] >= HighWatermark(p) - 1
               \/ offsets[g][q] + 1 < FirstOffset(p))
=============================================================================
