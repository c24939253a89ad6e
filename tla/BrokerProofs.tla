---------------------------- MODULE BrokerProofs ----------------------------
(***************************************************************************)
(* Theorems about Broker, for any number of topics, partitions, keys,      *)
(* groups, records and crashes: the types, the order of the records of a   *)
(* key, that a group passes over no record, whatever the clients of the    *)
(* group do at a time, and, where every group has one client, that         *)
(* confirmed offsets are durable.                                          *)
(***************************************************************************)
EXTENDS Broker, BoundTheorems, TLAPS, SequenceTheorems

Record == [key : Key \cup {NoKey}, number : Nat]
Segment == [base : Nat, records : Seq(Record)]
Partition == Seq(Segment) \ {<< >>}

-----------------------------------------------------------------------------
(* What the operators on partitions return *)

LEMMA PartitionFields ==
  ASSUME NEW p \in Partition
  PROVE  /\ p \in Seq(Segment)
         /\ Len(p) \in Nat \ {0}
         /\ \A s \in 1..Len(p) : /\ p[s] \in Segment
                                 /\ p[s].base \in Nat
                                 /\ p[s].records \in Seq(Record)
                                 /\ Len(p[s].records) \in Nat
         /\ HighWatermark(p) \in Nat
         /\ FirstOffset(p) \in Nat
<1>1. p \in Seq(Segment) /\ Len(p) \in Nat \ {0}
  BY EmptySeq, LenProperties DEF Partition
<1>2. \A s \in 1..Len(p) : /\ p[s] \in Segment
                           /\ p[s].base \in Nat
                           /\ p[s].records \in Seq(Record)
                           /\ Len(p[s].records) \in Nat
  <2> TAKE s \in 1..Len(p)
  <2>1. p[s] \in Segment
    BY <1>1, ElementOfSeq
  <2>2. p[s].base \in Nat /\ p[s].records \in Seq(Record)
    BY <2>1 DEF Segment
  <2> QED  BY <2>1, <2>2, LenProperties
<1> QED  BY <1>1, <1>2 DEF HighWatermark, FirstOffset, LastSegment

LEMMA NewPartitionType ==
  /\ NewPartition \in Partition
  /\ HighWatermark(NewPartition) = 0
  /\ Len(NewPartition) = 1
  /\ NewPartition[1].records = << >>
<1>1. [base |-> 0, records |-> << >>] \in Segment
  BY EmptySeq DEF Segment
<1>2. NewPartition \in Partition /\ Len(NewPartition) = 1
  BY <1>1 DEF NewPartition, Partition
<1> QED  BY <1>2 DEF NewPartition, HighWatermark, LastSegment

\* What an append does to the segments of a partition: it adds the record at the
\* end of the last one, or as the only record of a new one.
LEMMA AppendRecordShape ==
  ASSUME NEW p \in Partition, NEW r \in Record
  PROVE  LET a == AppendRecord(p, r)
             n == Len(p)
             new == Len(p[n].records) >= SegmentRecords
         IN  /\ a \in Partition
             /\ HighWatermark(a) = HighWatermark(p) + 1
             /\ Len(a) = IF new THEN n + 1 ELSE n
             /\ \A s \in 1..Len(p) : s # n \/ new => a[s] = p[s]
             /\ a[Len(a)].records = IF new THEN <<r>> ELSE Append(p[n].records, r)
<1> DEFINE a == AppendRecord(p, r)
           n == Len(p)
           new == Len(p[n].records) >= SegmentRecords
<1>1. /\ p \in Seq(Segment) /\ n \in Nat \ {0} /\ p[n] \in Segment
      /\ p[n].records \in Seq(Record) /\ HighWatermark(p) \in Nat
      /\ p[n].base \in Nat
      /\ Len(p[n].records) \in Nat
  BY PartitionFields
<1>2. CASE new
  <2> DEFINE seg == [base |-> HighWatermark(p), records |-> <<r>>]
  <2>1. a = Append(p, seg)
    BY <1>2 DEF AppendRecord, LastSegment
  <2>2. seg \in Segment
    BY <1>1 DEF Segment
  <2>3. /\ a \in Seq(Segment) /\ Len(a) = n + 1 /\ a[n + 1] = seg
        /\ \A s \in 1..n : a[s] = p[s]
    <3> HIDE DEF seg, a
    <3> QED  BY <1>1, <2>1, <2>2, AppendProperties
  <2>4. HighWatermark(a) = seg.base + Len(seg.records)
    BY <2>3, <1>1 DEF HighWatermark, LastSegment
  <2> QED  BY <1>1, <1>2, <2>3, <2>4 DEF Partition
<1>3. CASE ~new
  <2> DEFINE seg == [p[n] EXCEPT !.records = Append(p[n].records, r)]
  <2>1. a = [p EXCEPT ![n] = seg]
    BY <1>3 DEF AppendRecord, LastSegment
  <2>2. Append(p[n].records, r) \in Seq(Record) /\ Len(Append(p[n].records, r)) = Len(p[n].records) + 1
    BY <1>1, AppendProperties
  <2>3. seg \in Segment /\ seg.base = p[n].base /\ seg.records = Append(p[n].records, r)
    BY <1>1, <2>2 DEF Segment
  <2>4. /\ a \in Seq(Segment) /\ Len(a) = n /\ a[n] = seg
        /\ \A s \in 1..n : s # n => a[s] = p[s]
    <3> HIDE DEF seg, a
    <3> QED  BY <1>1, <2>1, <2>3, ExceptSeq
  <2>5. HighWatermark(a) = HighWatermark(p) + 1
    BY <2>2, <2>3, <2>4, <1>1 DEF HighWatermark, LastSegment
  <2> QED  BY <1>1, <1>3, <2>3, <2>4, <2>5 DEF Partition
<1> QED  BY <1>2, <1>3

\* Deleting segments, but not the last, leaves a suffix with the same end.
LEMMA DropSegmentsShape ==
  ASSUME NEW p \in Partition, NEW n \in 0..(Len(p) - 1)
  PROVE  /\ DropSegments(p, n) \in Partition
         /\ Len(DropSegments(p, n)) = Len(p) - n
         /\ \A s \in 1..(Len(p) - n) : DropSegments(p, n)[s] = p[s + n]
         /\ HighWatermark(DropSegments(p, n)) = HighWatermark(p)
<1> DEFINE d == DropSegments(p, n)
<1>1. p \in Seq(Segment) /\ Len(p) \in Nat \ {0} /\ n \in Nat /\ n < Len(p)
  BY PartitionFields
<1>2. /\ d \in Seq(Segment) /\ Len(d) = Len(p) - n
      /\ \A s \in 1..(Len(p) - n) : d[s] = p[s + n]
  <2>1. n + 1 \in Int /\ Len(p) \in Int /\ \A i \in (n + 1)..Len(p) : i \in 1..Len(p)
    BY <1>1
  <2>2. \A i \in (n + 1)..Len(p) : p[i] \in Segment
    BY <1>1, <2>1, ElementOfSeq
  <2> QED  BY <1>1, <2>1, <2>2, SubSeqProperties DEF DropSegments
<1>3. d[Len(d)] = p[Len(p)]
  BY <1>1, <1>2
<1> QED  BY <1>1, <1>2, <1>3 DEF Partition, HighWatermark, LastSegment

\* The size sweep deletes segments from the front and keeps the last.
LEMMA SizeSweepShape ==
  ASSUME NEW p \in Partition
  PROVE  \E n \in 0..(Len(p) - 1) : SizeSweep(p) = DropSegments(p, n)
<1> DEFINE rounds == {IF 2 * j < Len(p) THEN 2 * j ELSE Len(p) - 1 : j \in 0..Len(p)}
           enough == {n \in rounds : n = Len(p) - 1 \/ Total(DropSegments(p, n)) <= MaxTotal}
<1>1. Len(p) \in Nat \ {0}
  BY PartitionFields
<1>2. rounds \subseteq 0..(Len(p) - 1)
  BY <1>1
<1>3. Len(p) - 1 \in enough
  <2>1. Len(p) \in 0..Len(p) /\ ~(2 * Len(p) < Len(p))
    BY <1>1
  <2> QED  BY <2>1
<1>4. PICK n \in enough : \A k \in enough : n <= k
  <2>1. 0..(Len(p) - 1) \subseteq Nat
    BY <1>1
  <2>2. enough \subseteq rounds
    OBVIOUS
  <2> HIDE DEF enough, rounds
  <2>3. enough \subseteq Nat /\ enough # {}
    BY <1>2, <1>3, <2>1, <2>2
  <2> QED  BY <2>3, LeastExists
<1>5. (CHOOSE x \in enough : \A k \in enough : x <= k) \in enough
  <2> HIDE DEF enough
  <2> QED  BY <1>4
<1>6. SizeSweep(p) = DropSegments(p, CHOOSE x \in enough : \A k \in enough : x <= k)
  BY DEF SizeSweep
<1> QED  BY <1>2, <1>5, <1>6

\* So does the whole sweep.
LEMMA SweptShape ==
  ASSUME NEW p \in Partition, NEW e \in 0..(Len(p) - 1)
  PROVE  \E n \in 0..(Len(p) - 1) : Swept(p, e) = DropSegments(p, n)
<1>1. /\ DropSegments(p, e) \in Partition
      /\ Len(DropSegments(p, e)) = Len(p) - e
      /\ p \in Seq(Segment) /\ Len(p) \in Nat \ {0}
  BY DropSegmentsShape, PartitionFields
<1>2. PICK n \in 0..(Len(p) - e - 1) : Swept(p, e) = DropSegments(DropSegments(p, e), n)
  BY <1>1, SizeSweepShape DEF Swept
<1>3. DropSegments(DropSegments(p, e), n) = DropSegments(p, e + n)
  <2>1. /\ e + n \in 0..(Len(p) - 1)
        /\ n \in 0..(Len(DropSegments(p, e)) - 1)
    BY <1>1
  <2> DEFINE a == DropSegments(DropSegments(p, e), n)
             b == DropSegments(p, e + n)
  <2>2. /\ a \in Partition /\ Len(a) = Len(p) - e - n
        /\ \A s \in 1..(Len(p) - e - n) : a[s] = DropSegments(p, e)[s + n]
    BY <1>1, <2>1, DropSegmentsShape
  <2>3. /\ b \in Partition /\ Len(b) = Len(p) - (e + n)
        /\ \A s \in 1..(Len(p) - (e + n)) : b[s] = p[s + (e + n)]
    BY <2>1, DropSegmentsShape
  <2>4. \A s \in 1..(Len(p) - e) : DropSegments(p, e)[s] = p[s + e]
    BY DropSegmentsShape
  <2>5. a \in Seq(Segment) /\ b \in Seq(Segment) /\ Len(a) = Len(b)
    <3> HIDE DEF a, b
    <3> QED  BY <1>1, <2>1, <2>2, <2>3 DEF Partition
  <2>6. \A s \in 1..Len(a) : a[s] = b[s]
    <3> TAKE s \in 1..Len(a)
    <3>1. s \in 1..(Len(p) - e - n) /\ s + n \in 1..(Len(p) - e) /\ (s + n) + e = s + (e + n)
      BY <1>1, <2>1, <2>2
    <3> HIDE DEF a, b
    <3> QED  BY <1>1, <2>1, <2>2, <2>3, <2>4, <3>1
  <2> HIDE DEF a, b
  <2>7. a = b
    BY <2>5, <2>6, SeqEqual
  <2> QED  BY <2>7 DEF a, b
<1>4. e + n \in 0..(Len(p) - 1)
  BY <1>1
<1> QED  BY <1>2, <1>3, <1>4

-----------------------------------------------------------------------------
(* The partitions, in every reachable state *)

\* Partitions are what they should be, as many as the settings allow, and none
\* holds more records than were produced.
StorageInv ==
  /\ up \in BOOLEAN
  /\ topics \in [Topic -> Seq(Partition)]
  /\ \A t \in Topic : Len(topics[t]) <= DefaultPartitions
  /\ produced \in 0..MaxRecords
  /\ rr \in 0..produced
  /\ \A t \in Topic : \A i \in 1..Len(topics[t]) : HighWatermark(topics[t][i]) <= produced

LEMMA OpenTopicType ==
  ASSUME NEW t \in Topic, NEW n \in 1..DefaultPartitions, topics[t] = << >>
  PROVE  /\ OpenTopic(t, n) \in Seq(Partition)
         /\ Len(OpenTopic(t, n)) = n
         /\ \A i \in 1..n : OpenTopic(t, n)[i] = NewPartition
<1>1. OpenTopic(t, n) = [i \in 1..n |-> NewPartition]
  BY SizeAssumption DEF OpenTopic
<1> QED  BY <1>1, NewPartitionType, IsASeq, SizeAssumption

LEMMA RouteType ==
  ASSUME NEW parts \in Seq(Partition), Len(parts) # 0, rr \in Nat,
         NEW key \in Key \cup {NoKey}
  PROVE  Route(parts, key) + 1 \in 1..Len(parts)
<1>1. Len(parts) \in Nat \ {0}
  BY LenProperties
<1>2. \A h \in Nat : h % Len(parts) \in 0..(Len(parts) - 1)
  BY <1>1
<1>3. key \in Key => Hash[key] \in Nat
  BY KeyAssumption
<1>4. Route(parts, key) \in 0..(Len(parts) - 1)
  BY <1>2, <1>3 DEF Route
<1> HIDE DEF Route
<1> QED  BY <1>1, <1>4

\* The record that Produce appends.
NewRecord(key) == [key |-> key, number |-> produced + 1]

\* The record is appended to the k-th of the partitions parts of topic t, which
\* are new if the topic was not there.
AppendsTo(t, key, parts, k) ==
  /\ \/ parts = topics[t]
     \/ topics[t] = << >> /\ \A i \in 1..Len(parts) : parts[i] = NewPartition
  /\ Len(parts) <= DefaultPartitions
  /\ k = Route(parts, key) + 1
  /\ NewRecord(key) \in Record
  /\ topics' \in [Topic -> Seq(Partition)]
  /\ \A u \in Topic : u # t => topics'[u] = topics[u]
  /\ Len(topics'[t]) = Len(parts)
  /\ \A i \in 1..Len(parts) :
       topics'[t][i] = IF i = k THEN AppendRecord(parts[k], NewRecord(key)) ELSE parts[i]

LEMMA ProduceShape ==
  ASSUME StorageInv, NEW t \in Topic, NEW key \in Key \cup {NoKey}, Produce(t, key)
  PROVE  \E parts \in Seq(Partition) : \E k \in 1..Len(parts) : AppendsTo(t, key, parts, k)
<1> DEFINE parts == IF topics[t] = << >> THEN OpenTopic(t, DefaultPartitions) ELSE topics[t]
           k == Route(parts, key) + 1
           r == NewRecord(key)
<1>1. topics \in [Topic -> Seq(Partition)] /\ produced \in Nat /\ rr \in Nat
  BY BoundAssumption DEF StorageInv
<1>2. /\ parts \in Seq(Partition) /\ Len(parts) # 0
      /\ \/ parts = topics[t]
         \/ topics[t] = << >> /\ \A i \in 1..Len(parts) : parts[i] = NewPartition
      /\ Len(parts) <= DefaultPartitions
  <2>1. DefaultPartitions \in 1..DefaultPartitions /\ DefaultPartitions # 0
    BY SizeAssumption
  <2>2. CASE topics[t] = << >>
    BY <2>1, <2>2, OpenTopicType
  <2>3. CASE topics[t] # << >>
    BY <1>1, <2>3, EmptySeq DEF StorageInv
  <2> QED  BY <2>2, <2>3
<1>3. k \in 1..Len(parts)
  BY <1>1, <1>2, RouteType
<1>4. r \in Record
  BY <1>1 DEF Record, NewRecord
<1>5. topics' = [topics EXCEPT ![t] = [parts EXCEPT ![k] = AppendRecord(@, r)]]
  BY DEF Produce, NewRecord
<1>6. parts[k] \in Partition /\ AppendRecord(parts[k], r) \in Partition
  BY <1>2, <1>3, <1>4, ElementOfSeq, AppendRecordShape
<1> HIDE DEF parts, k, r
<1> DEFINE new == [parts EXCEPT ![k] = AppendRecord(parts[k], r)]
<1>7. /\ new \in Seq(Partition) /\ Len(new) = Len(parts)
      /\ \A i \in 1..Len(parts) : new[i] = IF i = k THEN AppendRecord(parts[k], r) ELSE parts[i]
  BY <1>2, <1>3, <1>6, ExceptSeq
<1>8. topics' = [topics EXCEPT ![t] = new]
  BY <1>5
<1> HIDE DEF new
<1>9. /\ topics' \in [Topic -> Seq(Partition)]
      /\ topics'[t] = new
      /\ \A u \in Topic : u # t => topics'[u] = topics[u]
  BY <1>1, <1>7, <1>8
<1>10. k = Route(parts, key) + 1 /\ r = NewRecord(key)
  BY DEF k, r
<1>11. Len(topics'[t]) = Len(parts)
       /\ \A i \in 1..Len(parts) : topics'[t][i] = IF i = k THEN AppendRecord(parts[k], r) ELSE parts[i]
  BY <1>7, <1>9
<1> USE <1>2, <1>3
<1> WITNESS parts \in Seq(Partition), k \in 1..Len(parts)
<1> QED  BY <1>4, <1>9, <1>10, <1>11 DEF AppendsTo

\* A new topic has new partitions.
LEMMA CreateShape ==
  ASSUME StorageInv, NEW t \in Topic, NEW n \in 1..DefaultPartitions,
         topics[t] = << >>, topics' = [topics EXCEPT ![t] = OpenTopic(t, n)]
  PROVE  /\ topics' \in [Topic -> Seq(Partition)]
         /\ \A u \in Topic : u # t => topics'[u] = topics[u]
         /\ Len(topics'[t]) = n
         /\ \A i \in 1..n : topics'[t][i] = NewPartition
<1>1. topics \in [Topic -> Seq(Partition)]
  BY DEF StorageInv
<1> DEFINE new == OpenTopic(t, n)
<1>2. new \in Seq(Partition) /\ Len(new) = n /\ \A i \in 1..n : new[i] = NewPartition
  BY OpenTopicType
<1> HIDE DEF new
<1>3. topics' = [topics EXCEPT ![t] = new]
  BY DEF new
<1> QED  BY <1>1, <1>2, <1>3

\* A sweep leaves a suffix of every partition.
LEMMA SweepShape ==
  ASSUME StorageInv, RetentionSweep
  PROVE  /\ topics' \in [Topic -> Seq(Partition)]
         /\ \A t \in Topic :
              /\ Len(topics'[t]) = Len(topics[t])
              /\ \A i \in 1..Len(topics[t]) : \E n \in 0..(Len(topics[t][i]) - 1) :
                   topics'[t][i] = DropSegments(topics[t][i], n)
<1>1. topics \in [Topic -> Seq(Partition)]
  BY DEF StorageInv
<1>2. PICK expired \in [Place -> 0..MaxRecords] :
        /\ \A q \in Place :
             expired[q] = 0 \/ (q[2] < Len(topics[q[1]]) /\ expired[q] < Len(topics[q[1]][q[2] + 1]))
        /\ topics' = [t \in Topic |-> [i \in 1..Len(topics[t]) |->
                        Swept(topics[t][i], expired[<<t, i - 1>>])]]
  BY DEF RetentionSweep
<1>3. ASSUME NEW t \in Topic, NEW i \in 1..Len(topics[t])
      PROVE  /\ Swept(topics[t][i], expired[<<t, i - 1>>]) \in Partition
             /\ \E n \in 0..(Len(topics[t][i]) - 1) :
                  Swept(topics[t][i], expired[<<t, i - 1>>]) = DropSegments(topics[t][i], n)
  <2>1. Len(topics[t]) \in Nat /\ Len(topics[t]) <= DefaultPartitions /\ DefaultPartitions \in Nat
    BY <1>1, LenProperties, SizeAssumption DEF StorageInv
  <2>2. topics[t][i] \in Partition /\ Len(topics[t][i]) \in Nat \ {0}
    BY <1>1, ElementOfSeq, PartitionFields
  <2>3. i - 1 \in 0..(DefaultPartitions - 1) /\ (i - 1) + 1 = i
    BY <2>1
  <2>4. <<t, i - 1>> \in Place
    BY <2>3 DEF Place
  <2>5. expired[<<t, i - 1>>] = 0 \/ expired[<<t, i - 1>>] < Len(topics[t][i])
    BY <1>2, <2>3, <2>4
  <2>6. expired[<<t, i - 1>>] \in 0..(Len(topics[t][i]) - 1)
    BY <1>2, <2>2, <2>4, <2>5, BoundAssumption
  <2> QED  BY <2>2, <2>6, SweptShape, DropSegmentsShape
<1>4. ASSUME NEW t \in Topic
      PROVE  /\ topics'[t] \in Seq(Partition)
             /\ Len(topics'[t]) = Len(topics[t])
             /\ \A i \in 1..Len(topics[t]) :
                  topics'[t][i] = Swept(topics[t][i], expired[<<t, i - 1>>])
  <2>1. Len(topics[t]) \in Nat
    BY <1>1, LenProperties
  <2>2. topics'[t] = [i \in 1..Len(topics[t]) |-> Swept(topics[t][i], expired[<<t, i - 1>>])]
    BY <1>2
  <2>3. \A i \in 1..Len(topics[t]) : Swept(topics[t][i], expired[<<t, i - 1>>]) \in Partition
    BY <1>3
  <2> QED  BY <2>1, <2>2, <2>3
<1>5. topics' \in [Topic -> Seq(Partition)]
  BY <1>2, <1>4
<1> QED  BY <1>3, <1>4, <1>5

\* The steps of the broker: a topic is created (whole, or in part by a process
\* that dies), a record is appended, the partitions are swept, or nothing
\* happens to them.
LEMMA StepCases ==
  ASSUME [Next]_vars
  PROVE  \/ /\ UNCHANGED <<topics, produced>>
            /\ up' = up \/ up' \in BOOLEAN
            /\ rr' = rr \/ rr' = 0
         \/ \E t \in Topic : \E n \in 1..DefaultPartitions :
              /\ topics[t] = << >>
              /\ topics' = [topics EXCEPT ![t] = OpenTopic(t, n)]
              /\ produced' = produced
              /\ up' = up \/ up' \in BOOLEAN
              /\ rr' = rr \/ rr' = 0
         \/ \E t \in Topic : \E key \in Key \cup {NoKey} : Produce(t, key)
         \/ RetentionSweep
<1>1. ASSUME NEW t \in Topic, NEW n \in 1..(DefaultPartitions - 1), CrashInCreate(t, n)
      PROVE  /\ n \in 1..DefaultPartitions
             /\ topics[t] = << >>
             /\ topics' = [topics EXCEPT ![t] = OpenTopic(t, n)]
             /\ produced' = produced
             /\ up' \in BOOLEAN /\ rr' = 0
  <2>1. n \in 1..DefaultPartitions
    BY SizeAssumption
  <2> QED  BY <1>1, <2>1 DEF CrashInCreate, Fail
<1>2. ASSUME NEW t \in Topic, NEW n \in 1..DefaultPartitions, CreateTopic(t, n)
      PROVE  /\ topics[t] = << >>
             /\ topics' = [topics EXCEPT ![t] = OpenTopic(t, n)]
             /\ UNCHANGED <<produced, up, rr>>
  BY <1>2 DEF CreateTopic
<1>3. ASSUME NEW c \in Consumer, Handler(c)
      PROVE  UNCHANGED <<topics, produced, up, rr>>
  BY <1>3 DEF Handler, Fetch, CheckOffset, AssignOffset, WriteOffsets, Respond, broker
<1>4. ASSUME NEW c \in Consumer, NEW q \in Place,
             Consume(c, q[1], q[2]) \/ \E offset \in Posted : CommitOffset(c, q, offset)
      PROVE  UNCHANGED <<topics, produced, up, rr>>
  BY <1>4 DEF Consume, CommitOffset, broker
<1>5. Crash => UNCHANGED <<topics, produced>> /\ up' \in BOOLEAN /\ rr' = 0
  BY DEF Crash, Fail
<1>6. Restart => UNCHANGED <<topics, produced, rr>> /\ up' \in BOOLEAN
  BY DEF Restart
<1>7. UNCHANGED vars => UNCHANGED <<topics, produced, up, rr>>
  BY DEF vars, broker
<1> QED  BY <1>1, <1>2, <1>3, <1>4, <1>5, <1>6, <1>7 DEF Next

LEMMA StorageInit ==
  ASSUME Init
  PROVE  StorageInv
<1>1. \A t \in Topic : topics[t] = << >>
  BY DEF Init
<1>2. topics \in [Topic -> Seq(Partition)] /\ \A t \in Topic : Len(topics[t]) = 0
  BY <1>1, EmptySeq DEF Init
<1>3. /\ up \in BOOLEAN /\ produced \in 0..MaxRecords /\ rr \in 0..produced
      /\ DefaultPartitions \in Nat
  BY BoundAssumption, SizeAssumption DEF Init
<1> QED  BY <1>2, <1>3 DEF StorageInv

LEMMA StorageStep ==
  ASSUME StorageInv, [Next]_vars
  PROVE  StorageInv'
<1>1. /\ topics \in [Topic -> Seq(Partition)]
      /\ produced \in 0..MaxRecords /\ rr \in 0..produced /\ up \in BOOLEAN
      /\ MaxRecords \in Nat /\ DefaultPartitions \in Nat
  BY BoundAssumption, SizeAssumption DEF StorageInv
<1>2. \A t \in Topic : \A i \in 1..Len(topics[t]) :
        topics[t][i] \in Partition /\ HighWatermark(topics[t][i]) \in Nat
  BY <1>1, ElementOfSeq, PartitionFields
<1>3. CASE /\ UNCHANGED <<topics, produced>>
           /\ up' = up \/ up' \in BOOLEAN
           /\ rr' = rr \/ rr' = 0
  BY <1>1, <1>3 DEF StorageInv
<1>4. CASE \E t \in Topic : \E n \in 1..DefaultPartitions :
             /\ topics[t] = << >>
             /\ topics' = [topics EXCEPT ![t] = OpenTopic(t, n)]
             /\ produced' = produced
             /\ up' = up \/ up' \in BOOLEAN
             /\ rr' = rr \/ rr' = 0
  <2>1. PICK t \in Topic, n \in 1..DefaultPartitions :
             /\ topics[t] = << >>
             /\ topics' = [topics EXCEPT ![t] = OpenTopic(t, n)]
             /\ produced' = produced
             /\ up' = up \/ up' \in BOOLEAN
             /\ rr' = rr \/ rr' = 0
    BY <1>4
  <2>2. /\ topics' \in [Topic -> Seq(Partition)]
        /\ \A u \in Topic : u # t => topics'[u] = topics[u]
        /\ Len(topics'[t]) = n
        /\ \A i \in 1..n : topics'[t][i] = NewPartition
    BY <2>1, CreateShape
  <2>3. HighWatermark(NewPartition) = 0
    BY NewPartitionType
  <2>4. n <= DefaultPartitions /\ 0 <= produced
    BY <1>1
  <2>5. \A u \in Topic : Len(topics'[u]) <= DefaultPartitions
    BY <2>2, <2>4 DEF StorageInv
  <2>6. \A u \in Topic : \A i \in 1..Len(topics'[u]) : HighWatermark(topics'[u][i]) <= produced
    BY <2>2, <2>3, <2>4 DEF StorageInv
  <2> QED  BY <1>1, <2>1, <2>2, <2>5, <2>6 DEF StorageInv, HighWatermark, LastSegment
<1>5. ASSUME NEW t \in Topic, NEW key \in Key \cup {NoKey}, Produce(t, key)
      PROVE  StorageInv'
  <2>0. PICK parts \in Seq(Partition) : \E k \in 1..Len(parts) : AppendsTo(t, key, parts, k)
    BY <1>5, ProduceShape
  <2>1. PICK k \in 1..Len(parts) : AppendsTo(t, key, parts, k)
    BY <2>0
  <2> USE DEF AppendsTo
  <2>2. produced' = produced + 1 /\ (rr' = rr + 1 \/ rr' = rr) /\ up' = up /\ produced < MaxRecords
    BY <1>5 DEF Produce
  <2>3. \A i \in 1..Len(parts) : /\ parts[i] \in Partition
                                 /\ HighWatermark(parts[i]) \in Nat
                                 /\ HighWatermark(parts[i]) <= produced
    <3> TAKE i \in 1..Len(parts)
    <3>1. parts[i] \in Partition /\ HighWatermark(parts[i]) \in Nat
      BY ElementOfSeq, PartitionFields
    <3>2. HighWatermark(NewPartition) = 0
      BY NewPartitionType
    <3> QED  BY <1>1, <2>1, <3>1, <3>2 DEF StorageInv
  <2>4. HighWatermark(AppendRecord(parts[k], NewRecord(key))) = HighWatermark(parts[k]) + 1
    BY <2>1, <2>3, AppendRecordShape
  <2>5. \A i \in 1..Len(parts) : HighWatermark(topics'[t][i]) <= produced + 1
    BY <1>1, <2>1, <2>3, <2>4
  <2>6. \A u \in Topic : \A i \in 1..Len(topics'[u]) : HighWatermark(topics'[u][i]) <= produced + 1
    <3> TAKE u \in Topic
    <3>1. CASE u = t
      BY <2>1, <2>5, <3>1
    <3>2. CASE u # t
      <4> TAKE i \in 1..Len(topics'[u])
      <4>1. topics'[u] = topics[u] /\ HighWatermark(topics[u][i]) <= produced
        BY <2>1, <3>2 DEF StorageInv
      <4> QED  BY <1>1, <1>2, <4>1
    <3> QED  BY <3>1, <3>2
  <2>7. \A u \in Topic : Len(topics'[u]) <= DefaultPartitions
    BY <2>1 DEF StorageInv
  <2>8. produced' \in 0..MaxRecords /\ rr' \in 0..produced'
    BY <1>1, <2>2
  <2> QED  BY <1>1, <2>1, <2>2, <2>6, <2>7, <2>8 DEF StorageInv, HighWatermark, LastSegment
<1>6. CASE RetentionSweep
  <2>1. /\ topics' \in [Topic -> Seq(Partition)]
        /\ \A t \in Topic :
              /\ Len(topics'[t]) = Len(topics[t])
              /\ \A i \in 1..Len(topics[t]) : \E n \in 0..(Len(topics[t][i]) - 1) :
                   topics'[t][i] = DropSegments(topics[t][i], n)
    BY <1>6, SweepShape
  <2>2. \A t \in Topic : \A i \in 1..Len(topics'[t]) : HighWatermark(topics'[t][i]) <= produced
    <3> SUFFICES ASSUME NEW t \in Topic, NEW i \in 1..Len(topics[t])
                 PROVE  HighWatermark(topics'[t][i]) <= produced
      BY <2>1
    <3>1. PICK n \in 0..(Len(topics[t][i]) - 1) : topics'[t][i] = DropSegments(topics[t][i], n)
      BY <2>1
    <3>2. HighWatermark(DropSegments(topics[t][i], n)) = HighWatermark(topics[t][i])
      BY <1>2, DropSegmentsShape
    <3> QED  BY <3>1, <3>2 DEF StorageInv
  <2>3. UNCHANGED <<up, rr, produced>>
    BY <1>6 DEF RetentionSweep
  <2> QED  BY <1>1, <2>1, <2>2, <2>3 DEF StorageInv, HighWatermark, LastSegment
<1> QED  BY <1>3, <1>4, <1>5, <1>6, StepCases

-----------------------------------------------------------------------------
(* The order of the records of a key *)

\* The records of a partition are numbered in the order of their places, up to n.
Ascending(p, n) ==
  \A x \in Positions(p) :
    /\ RecordAt(p, x).number <= n
    /\ \A y \in Positions(p) : Before(x, y) => RecordAt(p, x).number < RecordAt(p, y).number

\* The keys of the i-th of n partitions are those that are routed to it.
RoutedTo(p, i, n) ==
  \A x \in Positions(p) :
    RecordAt(p, x).key \in Key => i = (Hash[RecordAt(p, x).key] % n) + 1

\* KeyOrder is about the records of one key.  What each step keeps is about all
\* of them: the next record has a greater number than any in its partition, and
\* the number of partitions, which decides the route, is that of the records
\* already there.
KeyInv ==
  \A t \in Topic : \A i \in 1..Len(topics[t]) :
    /\ Ascending(topics[t][i], produced)
    /\ RoutedTo(topics[t][i], i, Len(topics[t]))

LEMMA PositionFields ==
  ASSUME NEW p \in Partition, NEW x \in Positions(p)
  PROVE  /\ x[1] \in 1..Len(p) /\ x[1] \in Nat
         /\ x[2] \in Nat \ {0} /\ x[2] <= SegmentRecords /\ x[2] <= Len(p[x[1]].records)
         /\ x = <<x[1], x[2]>>
         /\ RecordAt(p, x) \in Record
         /\ RecordAt(p, x).number \in Nat
<1>1. /\ x[1] \in 1..Len(p) /\ x[2] \in 1..SegmentRecords /\ x[2] <= Len(p[x[1]].records)
      /\ x = <<x[1], x[2]>>
  BY DEF Positions
<1>2. /\ Len(p) \in Nat /\ p[x[1]].records \in Seq(Record) /\ Len(p[x[1]].records) \in Nat
      /\ SegmentRecords \in Nat
  BY <1>1, PartitionFields, SizeAssumption
<1>3. x[2] \in 1..Len(p[x[1]].records)
  BY <1>1, <1>2
<1>4. RecordAt(p, x) \in Record
  BY <1>2, <1>3, ElementOfSeq DEF RecordAt
<1> QED  BY <1>1, <1>2, <1>4 DEF Record

\* The place of the last record.
LastPlace(p) == <<Len(p), Len(p[Len(p)].records)>>

\* The records after an append: those from before, and the new one behind them.
LEMMA AppendPositions ==
  ASSUME NEW p \in Partition, NEW r \in Record, NEW x \in Positions(AppendRecord(p, r))
  PROVE  \/ x = LastPlace(AppendRecord(p, r)) /\ RecordAt(AppendRecord(p, r), x) = r
         \/ /\ x \in Positions(p) /\ RecordAt(AppendRecord(p, r), x) = RecordAt(p, x)
            /\ Before(x, LastPlace(AppendRecord(p, r)))
            /\ ~Before(LastPlace(AppendRecord(p, r)), x)
<1> DEFINE a == AppendRecord(p, r)
           n == Len(p)
           new == Len(p[n].records) >= SegmentRecords
           last == LastPlace(a)
<1>1. /\ a \in Partition
      /\ Len(a) = IF new THEN n + 1 ELSE n
      /\ \A s \in 1..Len(p) : s # n \/ new => a[s] = p[s]
      /\ a[Len(a)].records = IF new THEN <<r>> ELSE Append(p[n].records, r)
  BY AppendRecordShape
<1>2. /\ n \in Nat \ {0} /\ p[n].records \in Seq(Record) /\ Len(p[n].records) \in Nat
      /\ SegmentRecords \in Nat \ {0}
  BY PartitionFields, SizeAssumption
<1> HIDE DEF a
<1>3. /\ x[1] \in 1..Len(a) /\ x[1] \in Nat
      /\ x[2] \in Nat \ {0} /\ x[2] <= SegmentRecords /\ x[2] <= Len(a[x[1]].records)
      /\ x = <<x[1], x[2]>>
  BY <1>1, PositionFields DEF a
<1>4. CASE new /\ x[1] = n + 1
  <2>1. a[Len(a)].records = <<r>> /\ Len(a[Len(a)].records) = 1 /\ Len(a) = n + 1
    BY <1>1, <1>4
  <2>2. x[2] = 1
    <3>1. Len(a[x[1]].records) = 1
      BY <1>4, <2>1
    <3> QED  BY <1>3, <3>1
  <2>3. x = last /\ RecordAt(a, x) = r
    BY <1>3, <1>4, <2>1, <2>2 DEF RecordAt, LastPlace
  <2> QED  BY <2>3 DEF a
<1>5. CASE ~(new /\ x[1] = n + 1) /\ (x[1] # n \/ new)
  <2>1. x[1] \in 1..n /\ a[x[1]] = p[x[1]] /\ x[1] < Len(a)
    BY <1>1, <1>2, <1>3, <1>5
  <2>2. x \in Positions(p) /\ RecordAt(a, x) = RecordAt(p, x)
    BY <1>2, <1>3, <2>1 DEF Positions, RecordAt
  <2>3. Before(x, last) /\ ~Before(last, x)
    <3>1. last[1] = Len(a) /\ Len(a) \in Nat
      BY <1>1, <1>2 DEF LastPlace
    <3> HIDE DEF last, new, n
    <3> QED  BY <1>3, <2>1, <3>1 DEF Before
  <2> QED  BY <2>2, <2>3 DEF a
<1>6. CASE ~new /\ x[1] = n
  <2> DEFINE old == p[n].records
  <2>1. /\ Len(a) = n /\ a[n].records = Append(old, r)
        /\ Len(Append(old, r)) = Len(old) + 1
        /\ \A k \in 1..Len(old) : Append(old, r)[k] = old[k]
        /\ Append(old, r)[Len(old) + 1] = r
    <3>1. Len(a) = n /\ a[n].records = Append(old, r) /\ old \in Seq(Record)
      BY <1>1, <1>2, <1>6
    <3> HIDE DEF old, n, new
    <3> QED  BY <3>1, AppendProperties
  <2>2. CASE x[2] = Len(old) + 1
    <3>1. x = last /\ RecordAt(a, x) = r
      BY <1>3, <1>6, <2>1, <2>2 DEF RecordAt, LastPlace
    <3> QED  BY <3>1 DEF a
  <2>3. CASE x[2] # Len(old) + 1
    <3>1. x[2] \in 1..Len(old) /\ x[2] < Len(old) + 1
      BY <1>2, <1>3, <1>6, <2>1, <2>3
    <3>2. x \in Positions(p) /\ RecordAt(a, x) = RecordAt(p, x)
      BY <1>2, <1>3, <1>6, <2>1, <3>1 DEF Positions, RecordAt
    <3>3. Before(x, last) /\ ~Before(last, x)
      <4>1. last[1] = x[1] /\ last[2] = Len(old) + 1 /\ Len(old) \in Nat
        BY <1>2, <1>6, <2>1 DEF LastPlace
      <4> HIDE DEF last, new, n, old
      <4> QED  BY <1>3, <3>1, <4>1 DEF Before
    <3> QED  BY <3>2, <3>3 DEF a
  <2> QED  BY <2>2, <2>3
<1> QED  BY <1>4, <1>5, <1>6

LEMMA AppendKeepsOrder ==
  ASSUME NEW p \in Partition, NEW r \in Record, NEW n \in Nat, Ascending(p, n), r.number = n + 1
  PROVE  Ascending(AppendRecord(p, r), n + 1)
<1> DEFINE a == AppendRecord(p, r)
           last == LastPlace(a)
<1>1. \A x \in Positions(a) : \/ x = last /\ RecordAt(a, x) = r
                              \/ /\ x \in Positions(p) /\ RecordAt(a, x) = RecordAt(p, x)
                                 /\ Before(x, last) /\ ~Before(last, x)
  BY AppendPositions
<1>2. \A x \in Positions(p) : RecordAt(p, x).number \in Nat
  BY PositionFields
<1>3. /\ Len(a) \in Nat /\ Len(a[Len(a)].records) \in Nat
  BY AppendRecordShape, PartitionFields
<1>4. ~Before(last, last)
  BY <1>3 DEF Before, LastPlace
<1> HIDE DEF a, last
<1>5. ASSUME NEW x \in Positions(a)
      PROVE  RecordAt(a, x).number <= n + 1
  BY <1>1, <1>2 DEF Ascending
<1>6. ASSUME NEW x \in Positions(a), NEW y \in Positions(a), Before(x, y)
      PROVE  RecordAt(a, x).number < RecordAt(a, y).number
  BY <1>1, <1>2, <1>4, <1>6 DEF Ascending
<1>7. Ascending(a, n + 1)
  BY <1>5, <1>6 DEF Ascending
<1> QED  BY <1>7 DEF a

LEMMA DropKeepsOrder ==
  ASSUME NEW p \in Partition, NEW d \in 0..(Len(p) - 1), NEW n, NEW i, NEW m,
         Ascending(p, n), RoutedTo(p, i, m)
  PROVE  Ascending(DropSegments(p, d), n) /\ RoutedTo(DropSegments(p, d), i, m)
<1> DEFINE q == DropSegments(p, d)
           old(x) == <<x[1] + d, x[2]>>
<1>1. /\ q \in Partition /\ Len(q) = Len(p) - d
      /\ \A s \in 1..(Len(p) - d) : q[s] = p[s + d]
      /\ Len(p) \in Nat /\ d \in Nat
  BY DropSegmentsShape, PartitionFields
<1> HIDE DEF q
<1>2. ASSUME NEW x \in Positions(q)
      PROVE  /\ old(x) \in Positions(p) /\ RecordAt(q, x) = RecordAt(p, old(x))
             /\ x[1] \in Nat /\ x[2] \in Nat
  <2>1. /\ x[1] \in 1..Len(q) /\ x[1] \in Nat /\ x[2] \in Nat
        /\ x[2] \in 1..SegmentRecords /\ x[2] <= Len(q[x[1]].records)
    BY <1>1, PositionFields, SizeAssumption DEF Positions
  <2>2. x[1] + d \in 1..Len(p) /\ q[x[1]] = p[x[1] + d]
    BY <1>1, <2>1
  <2> QED  BY <2>1, <2>2 DEF Positions, RecordAt
<1>3. \A x, y \in Positions(q) : Before(x, y) => Before(old(x), old(y))
  <2> TAKE x, y \in Positions(q)
  <2>1. {x[1], x[2], y[1], y[2], d} \subseteq Nat
    BY <1>1, <1>2
  <2>2. old(x)[1] = x[1] + d /\ old(x)[2] = x[2] /\ old(y)[1] = y[1] + d /\ old(y)[2] = y[2]
    OBVIOUS
  <2> HIDE DEF old
  <2> QED  BY <2>1, <2>2 DEF Before
<1> HIDE DEF old
<1>4. Ascending(q, n)
  BY <1>2, <1>3 DEF Ascending
<1>5. RoutedTo(q, i, m)
  BY <1>2 DEF RoutedTo
<1> QED  BY <1>4, <1>5 DEF q

LEMMA NewPartitionOrder ==
  ASSUME NEW n, NEW i, NEW m
  PROVE  Ascending(NewPartition, n) /\ RoutedTo(NewPartition, i, m)
<1>1. Positions(NewPartition) = {}
  <2> SUFFICES ASSUME NEW x \in Positions(NewPartition) PROVE FALSE
    OBVIOUS
  <2>1. /\ x[1] \in 1..Len(NewPartition) /\ x[2] \in Nat \ {0}
        /\ x[2] <= Len(NewPartition[x[1]].records)
    BY PositionFields, NewPartitionType
  <2>2. x[1] = 1 /\ Len(NewPartition[1].records) = 0
    BY <2>1, NewPartitionType
  <2> QED  BY <2>1, <2>2
<1> QED  BY <1>1 DEF Ascending, RoutedTo

LEMMA KeyStep ==
  ASSUME StorageInv, StorageInv', KeyInv, [Next]_vars
  PROVE  KeyInv'
<1>1. /\ topics \in [Topic -> Seq(Partition)] /\ produced \in Nat
  BY BoundAssumption DEF StorageInv
<1>2. \A t \in Topic : \A i \in 1..Len(topics[t]) : topics[t][i] \in Partition
  BY <1>1, ElementOfSeq
<1> SUFFICES ASSUME NEW t \in Topic, NEW i \in 1..Len(topics'[t])
             PROVE  /\ Ascending(topics'[t][i], produced')
                    /\ RoutedTo(topics'[t][i], i, Len(topics'[t]))
  BY DEF KeyInv, Ascending, RoutedTo, Positions, Before, RecordAt
<1>3. CASE UNCHANGED <<topics, produced>>
  BY <1>3 DEF KeyInv
<1>4. ASSUME NEW u \in Topic, NEW n \in 1..DefaultPartitions,
             topics[u] = << >>, topics' = [topics EXCEPT ![u] = OpenTopic(u, n)],
             produced' = produced
      PROVE  /\ Ascending(topics'[t][i], produced')
             /\ RoutedTo(topics'[t][i], i, Len(topics'[t]))
  <2>1. /\ u # t => topics'[t] = topics[t]
        /\ Len(topics'[u]) = n
        /\ \A k \in 1..n : topics'[u][k] = NewPartition
    BY <1>4, CreateShape
  <2> QED  BY <1>4, <2>1, NewPartitionOrder DEF KeyInv
<1>5. ASSUME NEW u \in Topic, NEW key \in Key \cup {NoKey}, Produce(u, key)
      PROVE  /\ Ascending(topics'[t][i], produced')
             /\ RoutedTo(topics'[t][i], i, Len(topics'[t]))
  <2>1. PICK parts \in Seq(Partition) : \E k \in 1..Len(parts) : AppendsTo(u, key, parts, k)
    BY <1>5, ProduceShape
  <2>2. PICK k \in 1..Len(parts) : AppendsTo(u, key, parts, k)
    BY <2>1
  <2>3. produced' = produced + 1
    BY <1>5 DEF Produce
  <2>4. ASSUME NEW p \in Partition, Ascending(p, produced)
        PROVE  Ascending(p, produced + 1)
    <3>1. \A x \in Positions(p) : RecordAt(p, x).number \in Nat
      BY PositionFields
    <3> QED  BY <1>1, <2>4, <3>1 DEF Ascending
  <2>5. CASE u # t
    <3>1. topics'[t] = topics[t]
      BY <2>2, <2>5 DEF AppendsTo
    <3> QED  BY <1>2, <2>3, <2>4, <3>1 DEF KeyInv
  <2>6. CASE u = t
    <3>1. /\ i \in 1..Len(parts) /\ Len(topics'[t]) = Len(parts)
          /\ parts[i] \in Partition
      BY <2>2, <2>6, ElementOfSeq DEF AppendsTo
    <3>2. Ascending(parts[i], produced) /\ RoutedTo(parts[i], i, Len(parts))
      BY <2>2, <2>6, <3>1, NewPartitionOrder DEF AppendsTo, KeyInv
    <3>3. CASE i # k
      <4>1. topics'[t][i] = parts[i]
        BY <2>2, <2>6, <3>1, <3>3 DEF AppendsTo
      <4> QED  BY <2>3, <2>4, <3>1, <3>2, <4>1
    <3>4. CASE i = k
      <4> DEFINE r == NewRecord(key)
                 a == AppendRecord(parts[i], r)
      <4>1. topics'[t][i] = a /\ r \in Record /\ i = Route(parts, key) + 1
        BY <2>2, <2>6, <3>1, <3>4 DEF AppendsTo
      <4>2. r.number = produced + 1 /\ r.key = key
        BY DEF NewRecord
      <4> HIDE DEF r
      <4>3. Ascending(a, produced + 1)
        BY <1>1, <3>1, <3>2, <4>1, <4>2, AppendKeepsOrder
      <4>4. \A x \in Positions(a) :
              \/ RecordAt(a, x) = r
              \/ x \in Positions(parts[i]) /\ RecordAt(a, x) = RecordAt(parts[i], x)
        BY <3>1, <4>1, AppendPositions
      <4>5. key \in Key => i = (Hash[key] % Len(parts)) + 1
        BY <4>1, KeyAssumption DEF Route
      <4> HIDE DEF a
      <4>6. RoutedTo(a, i, Len(parts))
        BY <3>2, <4>2, <4>4, <4>5 DEF RoutedTo
      <4> QED  BY <2>3, <3>1, <4>1, <4>3, <4>6
    <3> QED  BY <3>3, <3>4
  <2> QED  BY <2>5, <2>6
<1>6. CASE RetentionSweep
  <2>1. Len(topics'[t]) = Len(topics[t])
    BY <1>6, SweepShape
  <2>2. PICK n \in 0..(Len(topics[t][i]) - 1) : topics'[t][i] = DropSegments(topics[t][i], n)
    BY <1>6, <2>1, SweepShape
  <2>3. produced' = produced
    BY <1>6 DEF RetentionSweep
  <2>4. /\ topics[t][i] \in Partition
        /\ Ascending(topics[t][i], produced)
        /\ RoutedTo(topics[t][i], i, Len(topics[t]))
    BY <1>2, <2>1 DEF KeyInv
  <2>5. /\ Ascending(DropSegments(topics[t][i], n), produced)
        /\ RoutedTo(DropSegments(topics[t][i], n), i, Len(topics[t]))
    BY <2>4, DropKeepsOrder
  <2> QED  BY <2>1, <2>2, <2>3, <2>5
<1> QED  BY <1>3, <1>4, <1>5, <1>6, StepCases

LEMMA KeyInvKeepsOrder ==
  ASSUME StorageInv, KeyInv
  PROVE  KeyOrder
<1> SUFFICES ASSUME NEW t \in Topic, NEW i \in 1..Len(topics[t]), NEW j \in 1..Len(topics[t]),
                    NEW x \in Positions(topics[t][i]), NEW y \in Positions(topics[t][j]),
                    RecordAt(topics[t][i], x).key \in Key,
                    RecordAt(topics[t][i], x).key = RecordAt(topics[t][j], y).key
             PROVE  /\ i = j
                    /\ Before(x, y) =>
                         RecordAt(topics[t][i], x).number < RecordAt(topics[t][j], y).number
  BY DEF KeyOrder
<1>1. i = j
  <2>1. /\ RoutedTo(topics[t][i], i, Len(topics[t]))
        /\ RoutedTo(topics[t][j], j, Len(topics[t]))
    BY DEF KeyInv
  <2>2. i = (Hash[RecordAt(topics[t][i], x).key] % Len(topics[t])) + 1
    BY <2>1 DEF RoutedTo
  <2>3. j = (Hash[RecordAt(topics[t][j], y).key] % Len(topics[t])) + 1
    BY <2>1 DEF RoutedTo
  <2> QED  BY <2>2, <2>3
<1> QED  BY <1>1 DEF KeyInv, Ascending

\* The records of a key are in one partition, in the order in which they were
\* produced, for any number of partitions, keys and crashes (Broker.produce
\* routes by crc32, which does not change between processes).
THEOREM KeyOrderHolds == Spec => []KeyOrder
<1>1. Init => StorageInv /\ KeyInv
  <2> SUFFICES ASSUME Init PROVE StorageInv /\ KeyInv
    OBVIOUS
  <2>1. \A t \in Topic : Len(topics[t]) = 0
    BY EmptySeq DEF Init
  <2> QED  BY <2>1, StorageInit DEF KeyInv
<1>2. StorageInv /\ KeyInv /\ [Next]_vars => (StorageInv /\ KeyInv)'
  BY StorageStep, KeyStep
<1>3. StorageInv /\ KeyInv => KeyOrder
  BY KeyInvKeepsOrder
<1> QED  BY <1>1, <1>2, <1>3, PTL DEF Spec

-----------------------------------------------------------------------------
(* Types *)

Offsets == [Group -> [Place -> -1..MaxRecords]]
Request == {Idle} \cup FetchRequest \cup CommitRequest

\* The offsets, what the groups have gone past, and what a handler keeps between
\* its steps: it reads a partition that exists.
GroupsType ==
  /\ offsets \in Offsets /\ offsets_file \in Offsets
  /\ confirmed \in Offsets
  /\ passed \in [Group -> [Place -> SUBSET Nat]]
  /\ request \in [Consumer -> Request]
  /\ \A c \in Consumer : request[c].at = "fetch" =>
       request[c].place[2] < Len(topics[request[c].place[1]])

LEMMA RequestFields ==
  ASSUME NEW r \in Request
  PROVE  /\ r.at = "idle" => r = Idle
         /\ r.at = "fetch" => r \in FetchRequest
         /\ r.at \in {"commit", "assign", "write", "respond"} => r \in CommitRequest
         /\ r \in CommitRequest =>
              /\ r.place \in Place /\ r.offset \in 0..MaxRecords
              /\ r.at \in {"commit", "assign", "write", "respond"}
         /\ r \in FetchRequest =>
              r.place \in Place /\ r.after \in -1..MaxRecords /\ r.at = "fetch"
BY DEF Request, Idle, FetchRequest, CommitRequest

\* What read_after returns: all offsets from the one asked for to the last.
LEMMA ReadAfterRange ==
  ASSUME NEW p \in Partition, NEW offset \in Int, offset >= -1, ReadAfter(p, offset, Limit) # {}
  PROVE  LET found == ReadAfter(p, offset, Limit)
             last == CHOOSE k \in found : \A j \in found : j <= k
         IN  /\ found \subseteq Nat /\ last \in found
             /\ \A k \in found : k > offset /\ k <= last /\ k < HighWatermark(p)
             /\ (offset + 1)..last \subseteq found
<1> DEFINE found == ReadAfter(p, offset, Limit)
           start == IF offset >= 0 THEN offset + 1 ELSE 0
           end == start + Limit - 1
           hw == HighWatermark(p)
<1>1. start \in Nat /\ start = offset + 1 /\ end \in Int /\ hw \in Nat
  BY PartitionFields, SizeAssumption
<1>2. found = {k \in start..end : start >= FirstOffset(p) /\ k < hw}
  BY DEF ReadAfter
<1> HIDE DEF start, end, hw, found
<1>3. /\ \A k \in found : k \in Nat /\ k > offset /\ k < hw
      /\ found \subseteq start..end /\ found # {}
  <2>1. found # {}
    BY DEF found
  <2> QED  BY <1>1, <1>2, <2>1
<1>4. \E k \in found : \A j \in found : j <= k
  <2>1. start \in Int /\ end \in Int /\ found \subseteq start..end /\ found # {}
    BY <1>1, <1>3
  <2> QED  BY ONLY <2>1, GreatestExists
<1>5. \A last \in found : (offset + 1)..last \subseteq found
  BY <1>1, <1>2
<1> QED  BY <1>3, <1>4, <1>5 DEF found, hw

LEMMA PartitionsStay ==
  ASSUME StorageInv, [Next]_vars
  PROVE  \A t \in Topic : Len(topics'[t]) = Len(topics[t]) \/ Len(topics[t]) = 0
<1>1. CASE UNCHANGED <<topics, produced>>
  BY <1>1
<1>2. ASSUME NEW t \in Topic, NEW n \in 1..DefaultPartitions,
             topics[t] = << >>, topics' = [topics EXCEPT ![t] = OpenTopic(t, n)]
      PROVE  \A u \in Topic : Len(topics'[u]) = Len(topics[u]) \/ Len(topics[u]) = 0
  BY <1>2, CreateShape, EmptySeq
<1>3. ASSUME NEW t \in Topic, NEW key \in Key \cup {NoKey}, Produce(t, key)
      PROVE  \A u \in Topic : Len(topics'[u]) = Len(topics[u]) \/ Len(topics[u]) = 0
  <2>1. PICK parts \in Seq(Partition) : \E k \in 1..Len(parts) : AppendsTo(t, key, parts, k)
    BY <1>3, ProduceShape
  <2>2. PICK k \in 1..Len(parts) : AppendsTo(t, key, parts, k)
    BY <2>1
  <2> QED  BY <2>2, EmptySeq DEF AppendsTo
<1>4. CASE RetentionSweep
  BY <1>4, SweepShape
<1> QED  BY <1>1, <1>2, <1>3, <1>4, StepCases

LEMMA GroupsInit ==
  ASSUME Init
  PROVE  GroupsType
<1>1. -1 \in -1..MaxRecords
  BY BoundAssumption
<1>2. [g \in Group |-> [q \in Place |-> -1]] \in Offsets
  BY <1>1 DEF Offsets
<1>3. Idle.at = "idle" /\ Idle \in Request
  BY DEF Idle, Request
<1>4. passed \in [Group -> [Place -> SUBSET Nat]]
  BY DEF Init
<1> QED  BY <1>2, <1>3, <1>4 DEF Init, GroupsType

\* A partition that a request names stays.
LEMMA FetchStays ==
  ASSUME StorageInv, [Next]_vars, request' \in [Consumer -> Request],
         \A d \in Consumer : request'[d].at = "fetch" =>
           request'[d].place[2] < Len(topics[request'[d].place[1]])
  PROVE  \A d \in Consumer : request'[d].at = "fetch" =>
           request'[d].place[2] < Len(topics'[request'[d].place[1]])
<1> SUFFICES ASSUME NEW d \in Consumer, request'[d].at = "fetch"
             PROVE  request'[d].place[2] < Len(topics'[request'[d].place[1]])
  OBVIOUS
<1> DEFINE s == request'[d]
<1>1. s \in FetchRequest
  BY RequestFields
<1>2. s.place[2] < Len(topics[s.place[1]])
  OBVIOUS
<1>3. s.place[1] \in Topic /\ s.place[2] \in Nat
  BY <1>1, SizeAssumption DEF FetchRequest, Place
<1> HIDE DEF s
<1>4. Len(topics[s.place[1]]) # 0
  BY <1>2, <1>3
<1>5. Len(topics'[s.place[1]]) = Len(topics[s.place[1]])
  BY <1>3, <1>4, PartitionsStay
<1>6. s.place[2] < Len(topics'[s.place[1]])
  BY <1>2, <1>5
<1> QED  BY <1>6 DEF s

\* A change of the request of one client.
LEMMA SetRequest ==
  ASSUME StorageInv, GroupsType, [Next]_vars, NEW c \in Consumer, NEW r \in Request,
         request' = [request EXCEPT ![c] = r],
         r.at = "fetch" => r.place[2] < Len(topics[r.place[1]])
  PROVE  /\ request' \in [Consumer -> Request]
         /\ \A d \in Consumer : request'[d].at = "fetch" =>
              request'[d].place[2] < Len(topics'[request'[d].place[1]])
<1>1. request' \in [Consumer -> Request]
  BY DEF GroupsType
<1>2. \A d \in Consumer : request'[d].at = "fetch" =>
        request'[d].place[2] < Len(topics[request'[d].place[1]])
  BY DEF GroupsType
<1> QED  BY <1>1, <1>2, FetchStays

LEMMA SetAt ==
  ASSUME NEW r \in CommitRequest, NEW a \in {"commit", "assign", "write", "respond"}
  PROVE  /\ [r EXCEPT !.at = a] \in CommitRequest
         /\ [r EXCEPT !.at = a].at = a
         /\ [r EXCEPT !.at = a].place = r.place
         /\ [r EXCEPT !.at = a].offset = r.offset
BY DEF CommitRequest

\* Setting, and raising, an offset of a group.
LEMMA SetOffset ==
  ASSUME NEW f \in Offsets, NEW g \in Group, NEW q \in Place, NEW k \in -1..MaxRecords
  PROVE  /\ [f EXCEPT ![g][q] = k] \in Offsets
         /\ \A h \in Group : h # g => [f EXCEPT ![g][q] = k][h] = f[h]
         /\ [f EXCEPT ![g][q] = k][g][q] = k
         /\ \A x \in Place : x # q => [f EXCEPT ![g][q] = k][g][x] = f[g][x]
BY DEF Offsets

LEMMA RaiseType ==
  ASSUME NEW f \in Offsets, NEW g \in Group, NEW q \in Place, NEW k \in 0..MaxRecords
  PROVE  /\ Raise(f, g, q, k) \in Offsets
         /\ \A h \in Group : \A x \in Place :
              Raise(f, g, q, k)[h][x] = IF h = g /\ x = q /\ k > f[g][q] THEN k ELSE f[h][x]
<1>1. f[g][q] \in -1..MaxRecords /\ k \in -1..MaxRecords
  BY BoundAssumption DEF Offsets
<1> QED  BY <1>1 DEF Raise, Offsets

\* What a group has gone past only grows.
LEMMA PassedGrows ==
  ASSUME passed \in [Group -> [Place -> SUBSET Nat]],
         NEW g \in Group, NEW q \in Place, NEW ks \in SUBSET Nat,
         passed' = Passed(g, q, ks)
  PROVE  /\ passed' \in [Group -> [Place -> SUBSET Nat]]
         /\ passed'[g][q] = passed[g][q] \cup ks
         /\ \A h \in Group : \A x \in Place : passed[h][x] \subseteq passed'[h][x]
BY DEF Passed

\* The steps of one client.
ClientStep(c) ==
  \/ Handler(c)
  \/ \E q \in Place : \/ Consume(c, q[1], q[2])
                      \/ \E offset \in Posted : CommitOffset(c, q, offset)

\* What they do to the requests, the offsets and the history.
ConsumeEffect(c) ==
  \E q \in Place :
    /\ request[c] = Idle /\ up
    /\ q[2] < Len(topics[q[1]])
    /\ request' = [request EXCEPT ![c] =
                     [at |-> "fetch", place |-> q, after |-> offsets[GroupOf[c]][q]]]
    /\ UNCHANGED <<up, offsets, offsets_file, passed, confirmed>>

FetchEffect(c) ==
  /\ request[c].at = "fetch"
  /\ \E found \in SUBSET Nat :
       /\ passed' = Passed(GroupOf[c], request[c].place, found)
       /\ \/ request' = [request EXCEPT ![c] = Idle]
          \/ \E last \in found :
               /\ last <= MaxRecords
               /\ (request[c].after + 1)..last \subseteq found
               /\ request' = [request EXCEPT ![c] =
                    [at |-> "commit", place |-> request[c].place, offset |-> last]]
  /\ UNCHANGED <<up, offsets, offsets_file, confirmed>>

PostEffect(c) ==
  \E q \in Place : \E offset \in Posted :
    /\ request[c] = Idle /\ up
    /\ request' = [request EXCEPT ![c] = [at |-> "commit", place |-> q, offset |-> offset]]
    /\ passed' = Passed(GroupOf[c], q, 0..offset)
    /\ UNCHANGED <<up, offsets, offsets_file, confirmed>>

LEMMA FetchShape ==
  ASSUME StorageInv, GroupsType, NEW c \in Consumer, Fetch(c)
  PROVE  FetchEffect(c)
<1> DEFINE r == request[c]
           p == topics[r.place[1]][r.place[2] + 1]
           found == ReadAfter(p, r.after, Limit)
           last == CHOOSE k \in found : \A j \in found : j <= k
<1>1. r.at = "fetch" /\ r \in Request
  BY DEF Fetch, GroupsType
<1>2. /\ r.place[1] \in Topic /\ r.place[2] \in Nat /\ r.after \in Int /\ r.after >= -1
  BY <1>1, RequestFields, SizeAssumption, BoundAssumption DEF Place
<1>3. r.place[2] < Len(topics[r.place[1]])
  BY <1>1 DEF GroupsType
<1>4. r.place[2] + 1 \in 1..Len(topics[r.place[1]]) /\ topics[r.place[1]] \in Seq(Partition)
  BY <1>2, <1>3, LenProperties, SMTT(40) DEF StorageInv
<1>5. p \in Partition /\ HighWatermark(p) \in Nat /\ HighWatermark(p) <= produced
  BY <1>2, <1>4, ElementOfSeq, PartitionFields DEF StorageInv
<1>6. produced \in Nat /\ MaxRecords \in Nat /\ produced <= MaxRecords
  BY BoundAssumption DEF StorageInv
<1>7. /\ UNCHANGED <<up, offsets, offsets_file, confirmed>>
      /\ passed' = Passed(GroupOf[c], r.place, found)
      /\ request' = [request EXCEPT ![c] =
           IF found = {} THEN Idle
           ELSE [at |-> "commit", place |-> r.place, offset |-> last]]
  BY DEF Fetch, broker, groups, history
<1>8. found # {} =>
        /\ found \subseteq Nat /\ last \in found
        /\ \A k \in found : k > r.after /\ k <= last /\ k < HighWatermark(p)
        /\ (r.after + 1)..last \subseteq found
  BY <1>2, <1>5, ReadAfterRange
<1> HIDE DEF found, p, last
<1>9. found # {} => last <= MaxRecords
  BY <1>5, <1>6, <1>8
<1>10. CASE found = {}
  <2>1. found \in SUBSET Nat /\ request' = [request EXCEPT ![c] = Idle]
    BY <1>7, <1>10
  <2> QED  BY <1>1, <1>7, <2>1 DEF FetchEffect
<1>11. CASE found # {}
  <2>1. /\ found \in SUBSET Nat /\ last \in found
        /\ request' = [request EXCEPT ![c] =
             [at |-> "commit", place |-> r.place, offset |-> last]]
    BY <1>7, <1>8, <1>11
  <2> QED  BY <1>1, <1>7, <1>8, <1>9, <1>11, <2>1 DEF FetchEffect
<1> QED  BY <1>10, <1>11

\* The steps, as the groups see them.
LEMMA GroupCases ==
  ASSUME StorageInv, GroupsType, [Next]_vars
  PROVE  \/ UNCHANGED <<up, offsets, offsets_file, request, passed, confirmed>>
         \/ \E c \in Consumer : \/ ConsumeEffect(c) \/ FetchEffect(c) \/ PostEffect(c)
                                \/ CheckOffset(c) \/ AssignOffset(c)
                                \/ WriteOffsets(c) \/ Respond(c)
         \/ Fail
         \/ Restart
<1>1. ASSUME NEW t \in Topic
      PROVE  /\ \A n \in 1..DefaultPartitions : CreateTopic(t, n) =>
                  UNCHANGED <<up, offsets, offsets_file, request, passed, confirmed>>
             /\ \A n \in 1..(DefaultPartitions - 1) : CrashInCreate(t, n) => Fail
             /\ \A key \in Key \cup {NoKey} : Produce(t, key) =>
                  UNCHANGED <<up, offsets, offsets_file, request, passed, confirmed>>
  BY DEF CreateTopic, CrashInCreate, Produce, groups, history
<1>2. ASSUME NEW c \in Consumer, NEW q \in Place
      PROVE  /\ Consume(c, q[1], q[2]) => ConsumeEffect(c)
             /\ \A offset \in Posted : CommitOffset(c, q, offset) => PostEffect(c)
  <2>1. q = <<q[1], q[2]>>
    BY DEF Place
  <2>2. ASSUME Consume(c, q[1], q[2]) PROVE ConsumeEffect(c)
    BY <2>1, <2>2 DEF Consume, ConsumeEffect, broker, groups, history
  <2>3. ASSUME NEW offset \in Posted, CommitOffset(c, q, offset) PROVE PostEffect(c)
    BY <2>3 DEF CommitOffset, PostEffect, broker, groups, history
  <2> QED  BY <2>2, <2>3
<1>3. \A c \in Consumer : Fetch(c) => FetchEffect(c)
  BY FetchShape
<1>4. RetentionSweep => UNCHANGED <<up, offsets, offsets_file, request, passed, confirmed>>
  BY DEF RetentionSweep, groups, history
<1>5. Crash => Fail
  BY DEF Crash
<1>6. UNCHANGED vars => UNCHANGED <<up, offsets, offsets_file, request, passed, confirmed>>
  BY DEF vars, broker, groups, history
<1> QED  BY <1>1, <1>2, <1>3, <1>4, <1>5, <1>6 DEF Next, Handler

LEMMA GroupsStep ==
  ASSUME StorageInv, GroupsType, [Next]_vars
  PROVE  GroupsType'
<1>1. CASE UNCHANGED <<up, offsets, offsets_file, request, passed, confirmed>>
  BY <1>1, FetchStays DEF GroupsType
<1> SUFFICES ASSUME ~UNCHANGED <<up, offsets, offsets_file, request, passed, confirmed>>
             PROVE  GroupsType'
  BY <1>1
<1>2. ASSUME NEW c \in Consumer, ConsumeEffect(c)
      PROVE  GroupsType'
  <2>1. PICK q \in Place :
          /\ q[2] < Len(topics[q[1]])
          /\ request' = [request EXCEPT ![c] =
               [at |-> "fetch", place |-> q, after |-> offsets[GroupOf[c]][q]]]
          /\ UNCHANGED <<offsets, offsets_file, passed, confirmed>>
    BY <1>2 DEF ConsumeEffect
  <2> DEFINE r == [at |-> "fetch", place |-> q, after |-> offsets[GroupOf[c]][q]]
  <2>2. r \in Request /\ r.place = q
    BY DEF GroupsType, Offsets, Group, Request, FetchRequest
  <2> HIDE DEF r
  <2>3. request' = [request EXCEPT ![c] = r]
    BY <2>1 DEF r
  <2> QED  BY <2>1, <2>2, <2>3, SetRequest DEF GroupsType
<1>3. ASSUME NEW c \in Consumer, FetchEffect(c)
      PROVE  GroupsType'
  <2>1. request[c] \in FetchRequest /\ request[c].place \in Place /\ GroupOf[c] \in Group
    BY <1>3, RequestFields DEF FetchEffect, GroupsType, Group
  <2>2. PICK found \in SUBSET Nat :
          /\ passed' = Passed(GroupOf[c], request[c].place, found)
          /\ \/ request' = [request EXCEPT ![c] = Idle]
             \/ \E last \in found :
                  /\ last <= MaxRecords
                  /\ request' = [request EXCEPT ![c] =
                       [at |-> "commit", place |-> request[c].place, offset |-> last]]
          /\ UNCHANGED <<offsets, offsets_file, confirmed>>
    BY <1>3 DEF FetchEffect
  <2>3. passed' \in [Group -> [Place -> SUBSET Nat]]
    BY <2>1, <2>2, PassedGrows DEF GroupsType
  <2>4. CASE request' = [request EXCEPT ![c] = Idle]
    <3>1. Idle \in Request /\ Idle.at = "idle"
      BY DEF Idle, Request
    <3> QED  BY <2>2, <2>3, <2>4, <3>1, SetRequest DEF GroupsType
  <2>5. ASSUME NEW last \in found, last <= MaxRecords,
               request' = [request EXCEPT ![c] =
                 [at |-> "commit", place |-> request[c].place, offset |-> last]]
        PROVE  GroupsType'
    <3> DEFINE r == [at |-> "commit", place |-> request[c].place, offset |-> last]
    <3>1. last \in 0..MaxRecords
      BY <2>5, BoundAssumption
    <3>2. r \in Request /\ r.at = "commit"
      BY <2>1, <3>1 DEF Request, CommitRequest
    <3> HIDE DEF r
    <3>3. request' = [request EXCEPT ![c] = r]
      BY <2>5 DEF r
    <3> QED  BY <2>2, <2>3, <3>2, <3>3, SetRequest DEF GroupsType
  <2> QED  BY <2>2, <2>4, <2>5
<1>4. ASSUME NEW c \in Consumer, PostEffect(c)
      PROVE  GroupsType'
  <2>1. PICK q \in Place, offset \in Posted :
          /\ request' = [request EXCEPT ![c] =
               [at |-> "commit", place |-> q, offset |-> offset]]
          /\ passed' = Passed(GroupOf[c], q, 0..offset)
          /\ UNCHANGED <<offsets, offsets_file, confirmed>>
    BY <1>4 DEF PostEffect
  <2> DEFINE r == [at |-> "commit", place |-> q, offset |-> offset]
  <2>2. r \in Request /\ r.at = "commit"
    BY BoundAssumption DEF Request, CommitRequest
  <2> HIDE DEF r
  <2>3. request' = [request EXCEPT ![c] = r]
    BY <2>1 DEF r
  <2>4. GroupOf[c] \in Group /\ 0..offset \in SUBSET Nat
    BY BoundAssumption DEF Group
  <2>5. passed' \in [Group -> [Place -> SUBSET Nat]]
    BY <2>1, <2>4, PassedGrows DEF GroupsType
  <2> QED  BY <2>1, <2>2, <2>3, <2>5, SetRequest DEF GroupsType
<1>10. ASSUME NEW c \in Consumer, CheckOffset(c)
       PROVE  GroupsType'
  <2> DEFINE a == IF MayCommit(offsets[GroupOf[c]][request[c].place], request[c].offset)
                  THEN "assign" ELSE "respond"
             r == [request[c] EXCEPT !.at = a]
  <2>1. request[c] \in CommitRequest
    BY <1>10, RequestFields DEF CheckOffset, GroupsType
  <2>2. r \in CommitRequest /\ r.at = a /\ a # "fetch"
    <3>1. a \in {"commit", "assign", "write", "respond"} /\ a # "fetch"
      OBVIOUS
    <3> HIDE DEF a
    <3> QED  BY <2>1, <3>1, SetAt
  <2>3. request' = [request EXCEPT ![c] = r]
    BY <1>10 DEF CheckOffset, GroupsType
  <2>4. UNCHANGED <<offsets, offsets_file, passed, confirmed>>
    BY <1>10 DEF CheckOffset, groups, history
  <2>5. r \in Request
    BY <2>2 DEF Request
  <2> HIDE DEF r, a
  <2> QED  BY <2>2, <2>3, <2>4, <2>5, SetRequest DEF GroupsType
<1>5. ASSUME NEW c \in Consumer, AssignOffset(c)
      PROVE  GroupsType'
  <2> DEFINE r == [request[c] EXCEPT !.at = "write"]
  <2>1. request[c] \in CommitRequest
    BY <1>5, RequestFields DEF AssignOffset, GroupsType
  <2>2. r \in CommitRequest /\ r.at = "write"
    BY <2>1, SetAt
  <2>3. request' = [request EXCEPT ![c] = r]
    BY <1>5 DEF AssignOffset, GroupsType
  <2>4. UNCHANGED <<offsets_file, passed, confirmed>>
    BY <1>5 DEF AssignOffset, history
  <2>5. /\ GroupOf[c] \in Group /\ request[c].place \in Place
        /\ request[c].offset \in -1..MaxRecords
    BY <2>1, RequestFields, BoundAssumption DEF Group, Request
  <2>6. offsets' = [offsets EXCEPT ![GroupOf[c]][request[c].place] = request[c].offset]
    BY <1>5 DEF AssignOffset
  <2>7. offsets' \in Offsets
    <3>1. offsets \in Offsets
      BY DEF GroupsType
    <3> QED  BY <2>5, <2>6, <3>1, SetOffset
  <2>8. r \in Request
    BY <2>2 DEF Request
  <2> HIDE DEF r
  <2> QED  BY <2>2, <2>3, <2>4, <2>7, <2>8, SetRequest DEF GroupsType
<1>6. ASSUME NEW c \in Consumer, WriteOffsets(c)
      PROVE  GroupsType'
  <2> DEFINE r == [request[c] EXCEPT !.at = "respond"]
  <2>1. request[c] \in CommitRequest
    BY <1>6, RequestFields DEF WriteOffsets, GroupsType
  <2>2. r \in CommitRequest /\ r.at = "respond"
    BY <2>1, SetAt
  <2>3. request' = [request EXCEPT ![c] = r]
    BY <1>6 DEF WriteOffsets, GroupsType
  <2>4. UNCHANGED <<offsets, passed, confirmed>>
    BY <1>6 DEF WriteOffsets, history
  <2>5. offsets_file' = [offsets_file EXCEPT ![GroupOf[c]] = offsets[GroupOf[c]]]
    BY <1>6 DEF WriteOffsets
  <2>6. offsets_file' \in Offsets
    BY <2>5 DEF GroupsType, Offsets, Group
  <2>7. r \in Request
    BY <2>2 DEF Request
  <2> HIDE DEF r
  <2> QED  BY <2>2, <2>3, <2>4, <2>6, <2>7, SetRequest DEF GroupsType
<1>7. ASSUME NEW c \in Consumer, Respond(c)
      PROVE  GroupsType'
  <2>1. request[c] \in CommitRequest
    BY <1>7, RequestFields DEF Respond, GroupsType
  <2>2. /\ GroupOf[c] \in Group /\ request[c].place \in Place
        /\ request[c].offset \in 0..MaxRecords
    BY <2>1, RequestFields DEF Group, Request
  <2>3. Idle \in Request /\ Idle.at = "idle"
    BY DEF Idle, Request
  <2>4. confirmed' \in Offsets
    <3>1. confirmed \in Offsets
      BY DEF GroupsType
    <3>2. confirmed' = Raise(confirmed, GroupOf[c], request[c].place, request[c].offset)
      BY <1>7 DEF Respond
    <3> QED  BY <2>2, <3>1, <3>2, RaiseType
  <2>5. UNCHANGED <<offsets, offsets_file, passed>> /\ request' = [request EXCEPT ![c] = Idle]
    BY <1>7 DEF Respond, groups
  <2> QED  BY <2>3, <2>4, <2>5, SetRequest DEF GroupsType
<1>8. CASE Fail
  <2>1. -1 \in -1..MaxRecords
    BY BoundAssumption
  <2>2. offsets' \in Offsets
    BY <1>8, <2>1 DEF Fail, Offsets
  <2>3. request' \in [Consumer -> Request] /\ \A c \in Consumer : request'[c].at = "idle"
    BY <1>8 DEF Fail, Idle, Request
  <2> QED  BY <1>8, <2>2, <2>3 DEF Fail, GroupsType
<1>9. CASE Restart
  BY <1>9 DEF Restart, GroupsType, history
<1> QED  BY <1>2, <1>3, <1>4, <1>5, <1>6, <1>7, <1>8, <1>9, <1>10, GroupCases

\* The attributes keep their types: no partition and no offset leaves its range,
\* and the partition that a handler has still to read does not go away (topics are
\* never deleted, and a restart finds as many directories as there were).
THEOREM TypeCorrect == Spec => []TypeOK
<1>1. Init => StorageInv /\ GroupsType
  BY StorageInit, GroupsInit
<1>2. StorageInv /\ GroupsType /\ [Next]_vars => (StorageInv /\ GroupsType)'
  BY StorageStep, GroupsStep
<1>3. StorageInv /\ GroupsType => TypeOK
  <2> SUFFICES ASSUME StorageInv, GroupsType PROVE TypeOK
    OBVIOUS
  <2>1. \A g \in Group : {offsets[g], offsets_file[g]} \subseteq [Place -> -1..MaxRecords]
    BY DEF GroupsType, Offsets
  <2>2. {rr, produced} \subseteq 0..MaxRecords
    BY BoundAssumption DEF StorageInv
  <2>3. /\ up \in BOOLEAN
        /\ \A t \in Topic : Len(topics[t]) <= DefaultPartitions
    BY DEF StorageInv
  <2>4. /\ request \in [Consumer -> {Idle} \cup FetchRequest \cup CommitRequest]
        /\ \A c \in Consumer : request[c].at = "fetch" =>
             request[c].place[2] < Len(topics[request[c].place[1]])
    BY Zenon DEF GroupsType, Request
  <2> QED  BY <2>1, <2>2, <2>3, <2>4, Zenon DEF TypeOK
<1> QED  BY <1>1, <1>2, <1>3, PTL DEF Spec

-----------------------------------------------------------------------------
(* Nothing is passed over, whatever the clients of a group do at a time *)

Reached(g, q, n) == 0..n \subseteq passed[g][q]

\* Every offset that is in memory, in the file or in a request stands for what the
\* group has gone past.
SkipInv ==
  /\ \A g \in Group : \A q \in Place :
       Reached(g, q, offsets[g][q]) /\ Reached(g, q, offsets_file[g][q])
  /\ \A c \in Consumer :
       LET r == request[c]
       IN  /\ r.at = "fetch" => Reached(GroupOf[c], r.place, r.after)
           /\ r.at \in {"commit", "assign"} => Reached(GroupOf[c], r.place, r.offset)

LEMMA SkipInit ==
  ASSUME Init
  PROVE  SkipInv
<1>1. 0..(-1) = {}
  OBVIOUS
<1>2. \A g \in Group : \A q \in Place : offsets[g][q] = -1 /\ offsets_file[g][q] = -1
  BY DEF Init
<1>3. \A c \in Consumer : request[c].at = "idle"
  BY DEF Init, Idle
<1> QED  BY <1>1, <1>2, <1>3 DEF SkipInv, Reached

\* A step of the client c that leaves the offsets alone: what c has now in its
\* request is what matters.
LEMMA SkipRequest ==
  ASSUME GroupsType, SkipInv, NEW c \in Consumer, NEW r,
         request' = [request EXCEPT ![c] = r],
         UNCHANGED <<offsets, offsets_file>>,
         \A h \in Group : \A x \in Place : passed[h][x] \subseteq passed'[h][x],
         r.at = "fetch" => 0..r.after \subseteq passed'[GroupOf[c]][r.place],
         r.at \in {"commit", "assign"} => 0..r.offset \subseteq passed'[GroupOf[c]][r.place]
  PROVE  SkipInv'
<1>1. /\ request \in [Consumer -> Request]
      /\ \A d \in Consumer : GroupOf[d] \in Group
  BY DEF GroupsType, Group
<1>2. \A h \in Group : \A q \in Place :
        Reached(h, q, offsets[h][q])' /\ Reached(h, q, offsets_file[h][q])'
  BY DEF SkipInv, Reached
<1>3. /\ request'[c] = r
      /\ \A d \in Consumer : d # c => request'[d] = request[d]
  BY <1>1
<1>4. ASSUME NEW d \in Consumer, d # c
      PROVE  LET s == request'[d]
             IN  /\ s.at = "fetch" => 0..s.after \subseteq passed'[GroupOf[d]][s.place]
                 /\ s.at \in {"commit", "assign"} =>
                      0..s.offset \subseteq passed'[GroupOf[d]][s.place]
  <2>1. request'[d] = request[d] /\ request[d] \in Request /\ GroupOf[d] \in Group
    BY <1>1, <1>3, <1>4
  <2>2. CASE request[d].at = "fetch"
    <3>1. request[d].place \in Place /\ Reached(GroupOf[d], request[d].place, request[d].after)
      BY <2>1, <2>2, RequestFields DEF SkipInv
    <3> QED  BY <2>1, <2>2, <3>1 DEF Reached
  <2>3. CASE request[d].at \in {"commit", "assign"}
    <3>1. request[d].place \in Place /\ Reached(GroupOf[d], request[d].place, request[d].offset)
      BY <2>1, <2>3, RequestFields DEF SkipInv
    <3> QED  BY <2>1, <2>3, <3>1 DEF Reached
  <2> QED  BY <2>1, <2>2, <2>3
<1> QED  BY <1>2, <1>3, <1>4 DEF SkipInv, Reached

LEMMA SkipStep ==
  ASSUME StorageInv, GroupsType, SkipInv, [Next]_vars
  PROVE  SkipInv'
<1>1. /\ offsets \in Offsets /\ offsets_file \in Offsets
      /\ passed \in [Group -> [Place -> SUBSET Nat]]
      /\ request \in [Consumer -> Request]
      /\ \A c \in Consumer : GroupOf[c] \in Group
  BY DEF GroupsType, Group
<1>2. CASE UNCHANGED <<up, offsets, offsets_file, request, passed, confirmed>>
  BY <1>2 DEF SkipInv, Reached
<1>3. ASSUME NEW c \in Consumer, ConsumeEffect(c)
      PROVE  SkipInv'
  <2>1. PICK q \in Place :
          /\ request' = [request EXCEPT ![c] =
               [at |-> "fetch", place |-> q, after |-> offsets[GroupOf[c]][q]]]
          /\ UNCHANGED <<offsets, offsets_file, passed>>
    BY <1>3 DEF ConsumeEffect
  <2> DEFINE r == [at |-> "fetch", place |-> q, after |-> offsets[GroupOf[c]][q]]
  <2>2. /\ r.at = "fetch" /\ r.place = q
        /\ 0..r.after \subseteq passed'[GroupOf[c]][r.place]
    BY <1>1, <2>1 DEF SkipInv, Reached
  <2>3. request' = [request EXCEPT ![c] = r]
    BY <2>1
  <2> HIDE DEF r
  <2> QED  BY <2>1, <2>2, <2>3, SkipRequest
<1>4. ASSUME NEW c \in Consumer, FetchEffect(c)
      PROVE  SkipInv'
  <2> DEFINE g == GroupOf[c]
             q == request[c].place
             after == request[c].after
  <2>1. PICK found \in SUBSET Nat :
          /\ passed' = Passed(g, q, found)
          /\ \/ request' = [request EXCEPT ![c] = Idle]
             \/ \E last \in found :
                  /\ (after + 1)..last \subseteq found
                  /\ request' = [request EXCEPT ![c] =
                       [at |-> "commit", place |-> q, offset |-> last]]
          /\ UNCHANGED <<offsets, offsets_file>>
    BY <1>4 DEF FetchEffect
  <2>2. g \in Group /\ q \in Place /\ after \in Int /\ after >= -1
    BY <1>1, <1>4, RequestFields, BoundAssumption DEF FetchEffect
  <2>3. 0..after \subseteq passed[g][q]
    BY <1>4 DEF FetchEffect, SkipInv, Reached
  <2> HIDE DEF g, q, after
  <2>4. /\ passed'[g][q] = passed[g][q] \cup found
        /\ \A h \in Group : \A x \in Place : passed[h][x] \subseteq passed'[h][x]
    BY <1>1, <2>1, <2>2, PassedGrows
  <2>5. CASE request' = [request EXCEPT ![c] = Idle]
    <3>1. Idle.at = "idle"
      BY DEF Idle
    <3> QED  BY <2>1, <2>4, <2>5, <3>1, SkipRequest
  <2>6. ASSUME NEW last \in found, (after + 1)..last \subseteq found,
               request' = [request EXCEPT ![c] =
                 [at |-> "commit", place |-> q, offset |-> last]]
        PROVE  SkipInv'
    <3> DEFINE r == [at |-> "commit", place |-> q, offset |-> last]
    <3>1. 0..last \subseteq passed'[g][q]
      <4> SUFFICES ASSUME NEW k \in 0..last PROVE k \in passed'[g][q]
        OBVIOUS
      <4>1. last \in Nat /\ k \in Int
        OBVIOUS
      <4>2. k \in 0..after \/ k \in (after + 1)..last
        BY <2>2, <4>1
      <4> QED  BY <2>3, <2>4, <2>6, <4>2
    <3>2. r.at = "commit" /\ 0..r.offset \subseteq passed'[GroupOf[c]][r.place]
      BY <3>1 DEF g
    <3>3. request' = [request EXCEPT ![c] = r]
      BY <2>6
    <3> HIDE DEF r
    <3> QED  BY <2>1, <2>4, <3>2, <3>3, SkipRequest
  <2> QED  BY <2>1, <2>5, <2>6
<1>5. ASSUME NEW c \in Consumer, PostEffect(c)
      PROVE  SkipInv'
  <2>1. PICK q \in Place, offset \in Posted :
          /\ request' = [request EXCEPT ![c] =
               [at |-> "commit", place |-> q, offset |-> offset]]
          /\ passed' = Passed(GroupOf[c], q, 0..offset)
          /\ UNCHANGED <<offsets, offsets_file>>
    BY <1>5 DEF PostEffect
  <2> DEFINE r == [at |-> "commit", place |-> q, offset |-> offset]
  <2>2. GroupOf[c] \in Group /\ 0..offset \in SUBSET Nat
    BY <1>1, BoundAssumption
  <2>3. /\ 0..offset \subseteq passed'[GroupOf[c]][q]
        /\ \A h \in Group : \A x \in Place : passed[h][x] \subseteq passed'[h][x]
    <3> DEFINE ks == 0..offset
    <3>1. ks \in SUBSET Nat /\ passed' = Passed(GroupOf[c], q, ks)
      BY <2>1, <2>2
    <3> HIDE DEF ks
    <3>2. /\ ks \subseteq passed'[GroupOf[c]][q]
          /\ \A h \in Group : \A x \in Place : passed[h][x] \subseteq passed'[h][x]
      BY <1>1, <2>2, <3>1, PassedGrows
    <3> QED  BY <3>2 DEF ks
  <2>4. r.at = "commit" /\ 0..r.offset \subseteq passed'[GroupOf[c]][r.place]
    BY <2>3
  <2>5. request' = [request EXCEPT ![c] = r]
    BY <2>1
  <2> HIDE DEF r
  <2> QED  BY <2>1, <2>3, <2>4, <2>5, SkipRequest
<1>6. ASSUME NEW c \in Consumer, CheckOffset(c)
      PROVE  SkipInv'
  <2> DEFINE a == IF MayCommit(offsets[GroupOf[c]][request[c].place], request[c].offset)
                  THEN "assign" ELSE "respond"
             r == [request[c] EXCEPT !.at = a]
  <2>1. /\ request[c].at = "commit"
        /\ request' = [request EXCEPT ![c] = r]
        /\ UNCHANGED <<offsets, offsets_file, passed>>
    BY <1>1, <1>6 DEF CheckOffset, groups, history
  <2>2. /\ r.at # "fetch"
        /\ 0..r.offset \subseteq passed'[GroupOf[c]][r.place]
    <3>1. request[c] \in CommitRequest
      BY <1>1, <2>1, RequestFields
    <3>2. r.at = a /\ r.place = request[c].place /\ r.offset = request[c].offset
      <4>1. a \in {"commit", "assign", "write", "respond"}
        OBVIOUS
      <4> HIDE DEF a
      <4> QED  BY <3>1, <4>1, SetAt
    <3>3. Reached(GroupOf[c], request[c].place, request[c].offset)
      BY <2>1 DEF SkipInv
    <3> HIDE DEF r
    <3> QED  BY <2>1, <3>2, <3>3 DEF Reached
  <2> HIDE DEF r
  <2> QED  BY <2>1, <2>2, SkipRequest
<1>7. ASSUME NEW c \in Consumer, AssignOffset(c)
      PROVE  SkipInv'
  <2> DEFINE g == GroupOf[c]
             q == request[c].place
             k == request[c].offset
             r == [request[c] EXCEPT !.at = "write"]
  <2>1. /\ request[c].at = "assign"
        /\ request' = [request EXCEPT ![c] = r]
        /\ offsets' = [offsets EXCEPT ![g][q] = k]
        /\ UNCHANGED <<offsets_file, passed>>
    BY <1>1, <1>7 DEF AssignOffset, history
  <2>2. request[c] \in CommitRequest /\ g \in Group /\ q \in Place /\ k \in -1..MaxRecords
    BY <1>1, <2>1, RequestFields, BoundAssumption
  <2>3. r.at = "write"
    BY <2>2, SetAt
  <2>4. Reached(g, q, k)
    BY <2>1 DEF SkipInv
  <2> HIDE DEF g, q, k, r
  <2>5. /\ offsets'[g][q] = k
        /\ \A x \in Place : x # q => offsets'[g][x] = offsets[g][x]
        /\ \A h \in Group : h # g => offsets'[h] = offsets[h]
    <3>1. offsets \in Offsets /\ offsets' = [offsets EXCEPT ![g][q] = k]
      BY <1>1, <2>1
    <3> QED  BY ONLY <2>2, <3>1, SetOffset
  <2>6. \A h \in Group : \A x \in Place :
          Reached(h, x, offsets[h][x])' /\ Reached(h, x, offsets_file[h][x])'
    BY <2>1, <2>4, <2>5 DEF SkipInv, Reached
  <2>7. request'[c] = r /\ \A d \in Consumer : d # c => request'[d] = request[d]
    BY <1>1, <2>1
  <2> QED  BY <2>1, <2>3, <2>6, <2>7 DEF SkipInv, Reached
<1>8. ASSUME NEW c \in Consumer, WriteOffsets(c)
      PROVE  SkipInv'
  <2> DEFINE g == GroupOf[c]
             r == [request[c] EXCEPT !.at = "respond"]
  <2>1. /\ request[c].at = "write"
        /\ request' = [request EXCEPT ![c] = r]
        /\ offsets_file' = [offsets_file EXCEPT ![g] = offsets[g]]
        /\ UNCHANGED <<offsets, passed>>
    BY <1>1, <1>8 DEF WriteOffsets, history
  <2>2. request[c] \in CommitRequest /\ g \in Group
    BY <1>1, <2>1, RequestFields
  <2>3. r.at = "respond"
    BY <2>2, SetAt
  <2> HIDE DEF g, r
  <2>4. /\ offsets_file'[g] = offsets[g]
        /\ \A h \in Group : h # g => offsets_file'[h] = offsets_file[h]
    BY <1>1, <2>1, <2>2 DEF Offsets
  <2>5. \A h \in Group : \A x \in Place :
          Reached(h, x, offsets[h][x])' /\ Reached(h, x, offsets_file[h][x])'
    BY <2>1, <2>4 DEF SkipInv, Reached
  <2>6. request'[c] = r /\ \A d \in Consumer : d # c => request'[d] = request[d]
    BY <1>1, <2>1
  <2> QED  BY <2>1, <2>3, <2>5, <2>6 DEF SkipInv, Reached
<1>9. ASSUME NEW c \in Consumer, Respond(c)
      PROVE  SkipInv'
  <2>1. /\ request' = [request EXCEPT ![c] = Idle]
        /\ UNCHANGED <<offsets, offsets_file, passed>>
    BY <1>9 DEF Respond, groups
  <2>2. Idle.at = "idle"
    BY DEF Idle
  <2> QED  BY <2>1, <2>2, SkipRequest
<1>10. CASE Fail
  <2>1. 0..(-1) = {}
    OBVIOUS
  <2>2. /\ \A g \in Group : \A q \in Place : offsets'[g][q] = -1
        /\ \A c \in Consumer : request'[c].at = "idle"
        /\ UNCHANGED <<offsets_file, passed>>
    BY <1>10 DEF Fail, Idle
  <2> QED  BY <2>1, <2>2 DEF SkipInv, Reached
<1>11. CASE Restart
  BY <1>11 DEF Restart, history, SkipInv, Reached
<1> QED  BY <1>2, <1>3, <1>4, <1>5, <1>6, <1>7, <1>8, <1>9, <1>10, <1>11, GroupCases

\* A group passes over no record, for any number of clients of the group whose
\* handlers run at a time, of crashes and of sweeps (do_GET commits the last offset
\* of what it has read; a commit that comes late takes the offset back at worst).
THEOREM NothingSkippedHolds == Spec => []NothingSkipped
<1>1. Init => StorageInv /\ GroupsType /\ SkipInv
  BY StorageInit, GroupsInit, SkipInit
<1>2. StorageInv /\ GroupsType /\ SkipInv /\ [Next]_vars
        => (StorageInv /\ GroupsType /\ SkipInv)'
  BY StorageStep, GroupsStep, SkipStep
<1>3. SkipInv => NothingSkipped
  BY DEF SkipInv, Reached, NothingSkipped
<1> QED  BY <1>1, <1>2, <1>3, PTL DEF Spec

-----------------------------------------------------------------------------
(* Confirmed offsets, for groups of one client *)

\* No two clients are in one group.  With two, one of them may be told that an
\* earlier offset is committed while the other has yet to write the file.
OneClientPerGroup == \A c, d \in Consumer : GroupOf[c] = GroupOf[d] => c = d

\* Where the handler of a client is, and what the offsets of its group are:
\* memory and file differ only between the assignment and the write, by the
\* offset that is being committed.
ClientInv(c) ==
  LET r == request[c]
      memory == offsets[GroupOf[c]]
      file == offsets_file[GroupOf[c]]
  IN  /\ r.at # "idle" => up
      /\ up /\ r.at # "write" => memory = file
      /\ r.at = "assign" => memory[r.place] <= r.offset
      /\ r.at = "write" => /\ \A q \in Place : q # r.place => memory[q] = file[q]
                           /\ memory[r.place] = r.offset
                           /\ file[r.place] <= r.offset
      /\ r.at = "respond" => r.offset <= file[r.place]

ConfirmInv == CommitDurable /\ \A c \in Consumer : ClientInv(c)

LEMMA ConfirmInit ==
  ASSUME Init
  PROVE  ConfirmInv
<1>1. \A c \in Consumer : request[c].at = "idle" /\ offsets[GroupOf[c]] = offsets_file[GroupOf[c]]
  BY DEF Init, Idle
<1>2. CommitDurable
  BY DEF Init, CommitDurable
<1> QED  BY <1>1, <1>2 DEF ConfirmInv, ClientInv

\* A client whose request and whose group's offsets a step leaves alone.
LEMMA OtherClient ==
  ASSUME NEW d \in Consumer, ClientInv(d), request'[d] = request[d], up' = up,
         offsets'[GroupOf[d]] = offsets[GroupOf[d]],
         offsets_file'[GroupOf[d]] = offsets_file[GroupOf[d]]
  PROVE  ClientInv(d)'
BY DEF ClientInv

LEMMA ConfirmStep ==
  ASSUME OneClientPerGroup, StorageInv, GroupsType, GroupsType', ConfirmInv, [Next]_vars
  PROVE  ConfirmInv'
<1>1. /\ offsets \in Offsets /\ offsets_file \in Offsets
      /\ confirmed \in Offsets
      /\ request \in [Consumer -> Request]
  BY DEF GroupsType
<1>2. ASSUME NEW f \in Offsets, NEW g \in Group, NEW q \in Place
      PROVE  f[g][q] \in Int /\ f[g][q] >= -1
  BY <1>2, BoundAssumption DEF Offsets
<1>3. \A c \in Consumer : GroupOf[c] \in Group
  BY DEF Group
<1>4. CommitDurable /\ \A c \in Consumer : ClientInv(c)
  BY DEF ConfirmInv
<1>5. CASE UNCHANGED <<up, offsets, offsets_file, request, passed, confirmed>>
  BY <1>4, <1>5 DEF ConfirmInv, CommitDurable, ClientInv
\* A step of c that leaves the offsets of the group alone.
<1>6. ASSUME NEW c \in Consumer, NEW r, request' = [request EXCEPT ![c] = r],
             UNCHANGED <<up, offsets, offsets_file, confirmed>>,
             ClientInv(c)'
      PROVE  ConfirmInv'
  <2>1. CommitDurable'
    BY <1>4, <1>6 DEF CommitDurable
  <2>2. ASSUME NEW d \in Consumer, d # c
        PROVE  ClientInv(d)'
    <3>1. request'[d] = request[d]
      BY <1>1, <1>6, <2>2
    <3> QED  BY <1>4, <1>6, <3>1, OtherClient
  <2> QED  BY <1>6, <2>1, <2>2 DEF ConfirmInv
<1>7. ASSUME NEW c \in Consumer, ConsumeEffect(c)
      PROVE  ConfirmInv'
  <2>1. PICK q \in Place :
          /\ request[c] = Idle /\ up
          /\ request' = [request EXCEPT ![c] =
               [at |-> "fetch", place |-> q, after |-> offsets[GroupOf[c]][q]]]
          /\ UNCHANGED <<up, offsets, offsets_file, confirmed>>
    BY <1>7 DEF ConsumeEffect
  <2>2. request'[c].at = "fetch" /\ request[c].at = "idle"
    BY <1>1, <2>1 DEF Idle
  <2>3. ClientInv(c)'
    BY <1>4, <2>1, <2>2 DEF ClientInv
  <2> QED  BY <1>6, <2>1, <2>3
<1>8. ASSUME NEW c \in Consumer, FetchEffect(c)
      PROVE  ConfirmInv'
  <2>1. PICK r :
          /\ r = Idle \/ \E q, k : r = [at |-> "commit", place |-> q, offset |-> k]
          /\ request' = [request EXCEPT ![c] = r]
    BY <1>8 DEF FetchEffect
  <2>2. r.at = "idle" \/ r.at = "commit"
    BY <2>1 DEF Idle
  <2>3. request'[c] = r
    BY <1>1, <2>1
  <2>4. ClientInv(c)'
    BY <1>4, <1>8, <2>2, <2>3 DEF ClientInv, FetchEffect
  <2> QED  BY <1>6, <1>8, <2>1, <2>4 DEF FetchEffect
<1>9. ASSUME NEW c \in Consumer, PostEffect(c)
      PROVE  ConfirmInv'
  <2>1. PICK q \in Place, offset \in Posted :
          /\ request[c] = Idle /\ up
          /\ request' = [request EXCEPT ![c] =
               [at |-> "commit", place |-> q, offset |-> offset]]
          /\ UNCHANGED <<up, offsets, offsets_file, confirmed>>
    BY <1>9 DEF PostEffect
  <2>2. request'[c].at = "commit" /\ request[c].at = "idle"
    BY <1>1, <2>1 DEF Idle
  <2>3. ClientInv(c)'
    BY <1>4, <2>1, <2>2 DEF ClientInv
  <2> QED  BY <1>6, <2>1, <2>3
<1>15. ASSUME NEW c \in Consumer, CheckOffset(c)
       PROVE  ConfirmInv'
  <2> DEFINE r == request[c]
             memory == offsets[GroupOf[c]]
             may == MayCommit(memory[r.place], r.offset)
             a == IF may THEN "assign" ELSE "respond"
             s == [r EXCEPT !.at = a]
  <2>1. r \in CommitRequest /\ r.at = "commit"
    BY <1>1, <1>15, RequestFields DEF CheckOffset
  <2>2. r.offset \in Int /\ memory[r.place] \in Int
    <3>1. r.place \in Place /\ r.offset \in Int
      BY <2>1, RequestFields, BoundAssumption DEF Request
    <3> QED  BY <1>1, <1>2, <1>3, <3>1
  <2>3. /\ request' = [request EXCEPT ![c] = s]
        /\ UNCHANGED <<up, offsets, offsets_file, confirmed>>
    BY <1>1, <1>15 DEF CheckOffset, broker, groups, history
  <2>4. s.at = a /\ s.place = r.place /\ s.offset = r.offset
    <3>1. a \in {"commit", "assign", "write", "respond"}
      OBVIOUS
    <3> HIDE DEF a, r
    <3> QED  BY <2>1, <3>1, SetAt
  <2>5. up /\ memory = offsets_file[GroupOf[c]]
    BY <1>4, <2>1 DEF ClientInv
  <2>6. /\ a = "assign" => memory[r.place] <= r.offset
        /\ a = "respond" => r.offset <= memory[r.place]
        /\ a = "assign" \/ a = "respond"
    BY <2>2 DEF MayCommit
  <2>7. request'[c] = s
    BY <1>1, <2>3
  <2> HIDE DEF a, s, r
  <2>8. ClientInv(c)'
    BY <2>3, <2>4, <2>5, <2>6, <2>7 DEF ClientInv
  <2> QED  BY <1>6, <2>3, <2>8
<1>10. ASSUME NEW c \in Consumer, AssignOffset(c)
       PROVE  ConfirmInv'
  <2> DEFINE r == request[c]
             g == GroupOf[c]
  <2>1. r \in CommitRequest /\ r.at = "assign" /\ g \in Group
    BY <1>1, <1>3, <1>10, RequestFields DEF AssignOffset
  <2>2. r.place \in Place /\ r.offset \in -1..MaxRecords
    BY <2>1, RequestFields, BoundAssumption DEF Request
  <2>3. /\ request' = [request EXCEPT ![c].at = "write"]
        /\ offsets' = [offsets EXCEPT ![g][r.place] = r.offset]
        /\ UNCHANGED <<up, offsets_file, confirmed>>
    BY <1>10 DEF AssignOffset, broker, history
  <2>4. /\ request'[c].at = "write" /\ request'[c].place = r.place
        /\ request'[c].offset = r.offset
        /\ \A d \in Consumer : d # c => request'[d] = request[d]
    <3>1. request'[c] = [r EXCEPT !.at = "write"]
      BY <1>1, <2>3
    <3>2. \A d \in Consumer : d # c => request'[d] = request[d]
      BY <1>1, <2>3
    <3> HIDE DEF r
    <3> QED  BY <2>1, <3>1, <3>2, SetAt
  <2>5. CommitDurable'
    BY <1>4, <2>3 DEF CommitDurable
  <2>6. up /\ offsets[g] = offsets_file[g] /\ offsets[g][r.place] <= r.offset
    BY <1>4, <2>1 DEF ClientInv
  <2>7. /\ offsets'[g][r.place] = r.offset
        /\ \A q \in Place : q # r.place => offsets'[g][q] = offsets[g][q]
        /\ \A h \in Group : h # g => offsets'[h] = offsets[h]
    BY <1>1, <2>1, <2>2, <2>3, SetOffset
  <2>8. ClientInv(c)'
    BY <2>3, <2>4, <2>6, <2>7 DEF ClientInv
  <2>9. ASSUME NEW d \in Consumer, d # c
        PROVE  ClientInv(d)'
    <3>1. GroupOf[d] # g /\ GroupOf[d] \in Group
      BY <1>3, <2>9 DEF OneClientPerGroup
    <3> QED  BY <1>4, <2>3, <2>4, <2>7, <2>9, <3>1, OtherClient
  <2> QED  BY <2>5, <2>8, <2>9 DEF ConfirmInv
<1>11. ASSUME NEW c \in Consumer, WriteOffsets(c)
       PROVE  ConfirmInv'
  <2> DEFINE r == request[c]
             g == GroupOf[c]
  <2>1. r \in CommitRequest /\ r.at = "write" /\ g \in Group
    BY <1>1, <1>3, <1>11, RequestFields DEF WriteOffsets
  <2>2. r.place \in Place /\ r.offset \in Int
    BY <2>1, RequestFields, BoundAssumption DEF Request
  <2>3. /\ request' = [request EXCEPT ![c].at = "respond"]
        /\ offsets_file' = [offsets_file EXCEPT ![g] = offsets[g]]
        /\ UNCHANGED <<up, offsets, confirmed>>
    BY <1>11 DEF WriteOffsets, broker, history
  <2>4. /\ request'[c].at = "respond" /\ request'[c].place = r.place
        /\ request'[c].offset = r.offset
        /\ \A d \in Consumer : d # c => request'[d] = request[d]
    <3>1. request'[c] = [r EXCEPT !.at = "respond"]
      BY <1>1, <2>3
    <3>2. \A d \in Consumer : d # c => request'[d] = request[d]
      BY <1>1, <2>3
    <3> HIDE DEF r
    <3> QED  BY <2>1, <3>1, <3>2, SetAt
  <2>5. /\ offsets_file'[g] = offsets[g]
        /\ \A h \in Group : h # g => offsets_file'[h] = offsets_file[h]
    BY <1>1, <2>1, <2>3 DEF Offsets
  <2>6. /\ up
        /\ \A q \in Place : q # r.place => offsets[g][q] = offsets_file[g][q]
        /\ offsets[g][r.place] = r.offset
        /\ offsets_file[g][r.place] <= r.offset
    BY <1>4, <2>1 DEF ClientInv
  <2>7. \A q \in Place : offsets_file[g][q] <= offsets[g][q]
    BY <1>1, <1>2, <2>1, <2>6
  <2>8. CommitDurable'
    <3> SUFFICES ASSUME NEW h \in Group, NEW q \in Place
                 PROVE  confirmed[h][q] <= offsets_file'[h][q]
      BY <2>3 DEF CommitDurable
    <3>1. confirmed[h][q] <= offsets_file[h][q]
      BY <1>4 DEF CommitDurable
    <3>2. CASE h # g
      BY <2>5, <3>1, <3>2
    <3>3. CASE h = g
      <4>1. offsets_file[h][q] <= offsets_file'[h][q]
        BY <2>5, <2>7, <3>3
      <4>2. {confirmed[h][q], offsets_file[h][q], offsets_file'[h][q]} \subseteq Int
        BY <1>1, <1>2, <2>5, <3>3
      <4> QED  BY <3>1, <4>1, <4>2
    <3> QED  BY <3>2, <3>3
  <2>9. ClientInv(c)'
    BY <2>2, <2>3, <2>4, <2>5, <2>6 DEF ClientInv
  <2>10. ASSUME NEW d \in Consumer, d # c
         PROVE  ClientInv(d)'
    <3>1. GroupOf[d] # g /\ GroupOf[d] \in Group
      BY <1>3, <2>10 DEF OneClientPerGroup
    <3> QED  BY <1>4, <2>3, <2>4, <2>5, <2>10, <3>1, OtherClient
  <2> QED  BY <2>8, <2>9, <2>10 DEF ConfirmInv
<1>12. ASSUME NEW c \in Consumer, Respond(c)
       PROVE  ConfirmInv'
  <2> DEFINE r == request[c]
             g == GroupOf[c]
  <2>1. r \in CommitRequest /\ r.at = "respond" /\ g \in Group
    BY <1>1, <1>3, <1>12, RequestFields DEF Respond
  <2>2. r.place \in Place /\ r.offset \in 0..MaxRecords /\ r.offset \in Int
    BY <2>1, RequestFields, BoundAssumption DEF Request
  <2>3. /\ request' = [request EXCEPT ![c] = Idle]
        /\ confirmed' = Raise(confirmed, g, r.place, r.offset)
        /\ UNCHANGED <<up, offsets, offsets_file>>
    BY <1>12 DEF Respond, broker, groups
  <2>4. /\ request'[c].at = "idle"
        /\ \A d \in Consumer : d # c => request'[d] = request[d]
    BY <1>1, <2>3 DEF Idle
  <2>5. /\ up /\ offsets[g] = offsets_file[g]
        /\ r.offset <= offsets_file[g][r.place]
    BY <1>4, <2>1 DEF ClientInv
  <2>6. \A h \in Group : \A q \in Place :
          confirmed'[h][q] = IF h = g /\ q = r.place /\ r.offset > confirmed[g][r.place]
                             THEN r.offset ELSE confirmed[h][q]
    <3> HIDE DEF r, g
    <3> QED  BY <1>1, <2>1, <2>2, <2>3, RaiseType
  <2>7. CommitDurable'
    <3> SUFFICES ASSUME NEW h \in Group, NEW q \in Place
                 PROVE  confirmed'[h][q] <= offsets_file[h][q]
      BY <2>3 DEF CommitDurable
    <3>1. confirmed[h][q] <= offsets_file[h][q]
      BY <1>4 DEF CommitDurable
    <3> QED  BY <2>5, <2>6, <3>1
  <2>8. ClientInv(c)'
    BY <2>3, <2>4, <2>5 DEF ClientInv
  <2>9. ASSUME NEW d \in Consumer, d # c
        PROVE  ClientInv(d)'
    <3>1. GroupOf[d] # g /\ GroupOf[d] \in Group
      BY <1>3, <2>9 DEF OneClientPerGroup
    <3> QED  BY <1>4, <2>3, <2>4, <2>9, <3>1, OtherClient
  <2> QED  BY <2>7, <2>8, <2>9 DEF ConfirmInv
<1>13. CASE Fail
  <2>1. \A c \in Consumer : request'[c].at = "idle"
    BY <1>13 DEF Fail, Idle
  <2>2. ~up' /\ UNCHANGED <<offsets_file, confirmed>>
    BY <1>13 DEF Fail
  <2>3. \A c \in Consumer : ClientInv(c)'
    BY <2>1, <2>2 DEF ClientInv
  <2> QED  BY <1>4, <2>2, <2>3 DEF ConfirmInv, CommitDurable
<1>14. CASE Restart
  <2>1. ~up /\ offsets' = offsets_file /\ UNCHANGED <<offsets_file, confirmed, request>>
    BY <1>14 DEF Restart, history
  <2>2. \A c \in Consumer : request[c].at = "idle"
    BY <1>4, <2>1 DEF ClientInv
  <2>3. \A c \in Consumer : ClientInv(c)'
    BY <2>1, <2>2 DEF ClientInv
  <2> QED  BY <1>4, <2>1, <2>3 DEF ConfirmInv, CommitDurable
<1> QED  BY <1>5, <1>7, <1>8, <1>9, <1>10, <1>11, <1>12, <1>13, <1>14, <1>15, GroupCases

\* An offset whose commit was confirmed is in the file (ConsumerGroup.commit
\* writes the file before it returns), for any number of groups of one client.
THEOREM CommitDurableHolds ==
  ASSUME OneClientPerGroup
  PROVE  Spec => []CommitDurable
<1>1. Init => StorageInv /\ GroupsType /\ ConfirmInv
  BY StorageInit, GroupsInit, ConfirmInit
<1>2. StorageInv /\ GroupsType /\ ConfirmInv /\ [Next]_vars
        => (StorageInv /\ GroupsType /\ ConfirmInv)'
  BY StorageStep, GroupsStep, ConfirmStep
<1>3. ConfirmInv => CommitDurable
  BY DEF ConfirmInv
<1> QED  BY <1>1, <1>2, <1>3, PTL DEF Spec
=============================================================================
