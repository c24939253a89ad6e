-------------------------- MODULE CommitLogProofs --------------------------
(***************************************************************************)
(* Proofs about CommitLog, for every size of segments, records and index   *)
(* intervals, and every length of log.                                     *)
(*                                                                         *)
(* The model's recursive functions (a replay of records, the stores after  *)
(* each record of a batch, the concatenation of the files) are functions   *)
(* that satisfy an equation; a lemma for each shows, by the least length   *)
(* without one, that such a function exists, and the proofs go by its      *)
(* equation from there.                                                    *)
(***************************************************************************)
EXTENDS CommitLog, BoundTheorems, SequenceTheorems, FiniteSetTheorems

-----------------------------------------------------------------------------
(* Numbers in order *)

\* MinIn and MaxIn of a set that has such an element.
LEMMA MinInIs ==
  ASSUME NEW S, S \subseteq Int, NEW x \in S, \A y \in S : x <= y
  PROVE  MinIn(S) = x
<1>1. \A z \in S : (\A y \in S : z <= y) => z = x
  OBVIOUS
<1> QED  BY <1>1 DEF MinIn

LEMMA MaxInIs ==
  ASSUME NEW S, S \subseteq Int, NEW x \in S, \A y \in S : y <= x
  PROVE  MaxIn(S) = x
<1>1. \A z \in S : (\A y \in S : y <= z) => z = x
  OBVIOUS
<1> QED  BY <1>1 DEF MaxIn

\* The number of elements below x grows with x.
LEMMA RankGrows ==
  ASSUME NEW S, S \subseteq Int, IsFiniteSet(S), NEW x \in S, NEW z \in Int, x < z
  PROVE  /\ Cardinality({y \in S : y < x}) \in Nat
         /\ Cardinality({y \in S : y < x}) < Cardinality({y \in S : y < z})
<1> DEFINE A == {y \in S : y < x}
           B == {y \in S : y < z}
<1>1. IsFiniteSet(B) /\ IsFiniteSet(A)
  BY FS_Subset
<1>2. A \in SUBSET B /\ A # B
  <2>1. x \in B /\ ~(x \in A)
    OBVIOUS
  <2>2. \A y \in A : y \in B
    OBVIOUS
  <2> HIDE DEF A, B
  <2> QED  BY <2>1, <2>2
<1>3. Cardinality(A) <= Cardinality(B) /\ Cardinality(A) # Cardinality(B)
  <2> HIDE DEF A, B
  <2> QED  BY <1>1, <1>2, FS_Subset
<1>4. Cardinality(A) \in Nat /\ Cardinality(B) \in Nat
  BY <1>1, FS_CardinalityType
<1> QED  BY <1>3, <1>4

LEMMA RankBound ==
  ASSUME NEW S, S \subseteq Int, IsFiniteSet(S), NEW x \in S
  PROVE  /\ Cardinality(S) \in Nat
         /\ Cardinality({y \in S : y < x}) \in Nat
         /\ Cardinality({y \in S : y < x}) < Cardinality(S)
<1> DEFINE A == {y \in S : y < x}
<1>1. A \in SUBSET S /\ A # S
  OBVIOUS
<1>2. IsFiniteSet(A) /\ Cardinality(A) <= Cardinality(S) /\ Cardinality(A) # Cardinality(S)
  <2> HIDE DEF A
  <2> QED  BY <1>1, FS_Subset
<1>3. Cardinality(A) \in Nat /\ Cardinality(S) \in Nat
  BY <1>2, FS_CardinalityType
<1> QED  BY <1>2, <1>3

\* Every number below the cardinality is the rank of some element.
LEMMA RankOnto ==
  ASSUME NEW S, S \subseteq Int, IsFiniteSet(S), NEW k \in 1..Cardinality(S)
  PROVE  \E x \in S : Cardinality({y \in S : y < x}) = k - 1
<1> DEFINE n == Cardinality(S)
           rank == [x \in S |-> Cardinality({y \in S : y < x})]
           T == 0..(n - 1)
<1>1. n \in Nat
  BY FS_CardinalityType
<1>2. rank \in [S -> T]
  <2> SUFFICES ASSUME NEW x \in S PROVE Cardinality({y \in S : y < x}) \in T
    OBVIOUS
  <2>1. Cardinality({y \in S : y < x}) \in Nat /\ Cardinality({y \in S : y < x}) < n
    BY RankBound
  <2> QED  BY <1>1, <2>1
<1>3. \A x, z \in S : rank[x] = rank[z] => x = z
  <2> SUFFICES ASSUME NEW x \in S, NEW z \in S, x < z
               PROVE  rank[x] # rank[z]
    OBVIOUS
  <2>1. /\ Cardinality({y \in S : y < x}) \in Nat
        /\ Cardinality({y \in S : y < x}) < Cardinality({y \in S : y < z})
    BY RankGrows
  <2>2. Cardinality({y \in S : y < z}) \in Nat
    BY RankBound
  <2> QED  BY <2>1, <2>2
<1>4. IsFiniteSet(T) /\ Cardinality(T) = n
  <2>1. 0 \in Int /\ n - 1 \in Int /\ (IF 0 > n - 1 THEN 0 ELSE n - 1 - 0 + 1) = n
    BY <1>1
  <2> QED  BY <2>1, FS_Interval
<1> HIDE DEF rank, T, n
<1>5. rank \in Injection(S, T)
  BY <1>2, <1>3 DEF Injection, IsInjective
<1>6. rank \in Surjection(S, T)
  <2>1. Cardinality(S) = Cardinality(T)
    BY <1>4 DEF n
  <2> QED  BY <1>4, <1>5, <2>1, FS_Injection
<1>7. k - 1 \in T
  BY <1>1 DEF T, n
<1>8. PICK x \in S : rank[x] = k - 1
  BY <1>6, <1>7 DEF Surjection
<1> QED  BY <1>8 DEF rank

\* InOrder lists a finite set of numbers in increasing order.
LEMMA InOrderLists ==
  ASSUME NEW S, S \subseteq Int, IsFiniteSet(S)
  PROVE  /\ Cardinality(S) \in Nat
         /\ InOrder(S) \in [1..Cardinality(S) -> S]
         /\ \A k, l \in 1..Cardinality(S) : k < l => InOrder(S)[k] < InOrder(S)[l]
         /\ \A x \in S : \E k \in 1..Cardinality(S) : InOrder(S)[k] = x
<1> DEFINE rank(x) == Cardinality({y \in S : y < x})
           n == Cardinality(S)
<1>1. n \in Nat
  BY FS_CardinalityType
<1>2. \A k \in 1..n : InOrder(S)[k] \in S /\ rank(InOrder(S)[k]) = k - 1
  <2> TAKE k \in 1..n
  <2>1. \E x \in S : rank(x) = k - 1
    BY RankOnto
  <2>2. InOrder(S)[k] = CHOOSE x \in S : rank(x) = k - 1
    BY DEF InOrder
  <2> HIDE DEF rank
  <2> QED  BY <2>1, <2>2
<1>3. DOMAIN InOrder(S) = 1..n /\ InOrder(S) = [k \in 1..n |-> InOrder(S)[k]]
  BY SMTT(40) DEF InOrder
<1>4. \A x \in S, z \in S : x < z => rank(x) < rank(z)
  BY RankGrows
<1>5. \A x \in S : rank(x) \in Nat /\ rank(x) < n
  BY RankBound
<1> HIDE DEF rank
<1>6. \A x \in S, z \in S : rank(x) = rank(z) => x = z
  <2> TAKE x \in S, z \in S
  <2>1. x \in Int /\ z \in Int /\ rank(x) \in Int /\ rank(z) \in Int
    BY <1>5
  <2>2. (x < z => rank(x) < rank(z)) /\ (z < x => rank(z) < rank(x))
    BY <1>4
  <2> QED  BY <2>1, <2>2
<1>7. \A x \in S : \E k \in 1..n : InOrder(S)[k] = x
  <2> TAKE x \in S
  <2>1. rank(x) + 1 \in 1..n /\ (rank(x) + 1) - 1 = rank(x)
    BY <1>1, <1>5
  <2>2. InOrder(S)[rank(x) + 1] = x
    BY <1>2, <1>6, <2>1
  <2> QED  BY <2>1, <2>2
<1>8. \A k, l \in 1..n : k < l => InOrder(S)[k] < InOrder(S)[l]
  <2> TAKE k, l \in 1..n
  <2> HAVE k < l
  <2>1. rank(InOrder(S)[k]) < rank(InOrder(S)[l])
    BY <1>1, <1>2
  <2>2. InOrder(S)[k] \in S /\ InOrder(S)[l] \in S
    BY <1>2
  <2>3. rank(InOrder(S)[k]) \in Nat /\ rank(InOrder(S)[l]) \in Nat
    BY <1>5, <2>2
  <2>4. InOrder(S)[l] < InOrder(S)[k] => rank(InOrder(S)[l]) < rank(InOrder(S)[k])
    BY <1>4, <2>2
  <2>5. InOrder(S)[k] # InOrder(S)[l]
    BY <2>1, <2>3
  <2>6. InOrder(S)[k] \in Int /\ InOrder(S)[l] \in Int
    BY <2>2
  <2> QED  BY <2>1, <2>3, <2>4, <2>5, <2>6
<1> QED  BY <1>1, <1>2, <1>3, <1>7, <1>8

\* InOrder of an interval.
LEMMA InOrderInterval ==
  ASSUME NEW a \in Int, NEW b \in Int, a <= b + 1
  PROVE  /\ Cardinality(a..b) = b - a + 1
         /\ \A k \in 1..(b - a + 1) : InOrder(a..b)[k] = a + k - 1
<1>1. Cardinality(a..b) = b - a + 1
  BY FS_Interval
<1>2. ASSUME NEW k \in 1..(b - a + 1)
      PROVE  InOrder(a..b)[k] = a + k - 1
  <2>1. \A x \in a..b : Cardinality({y \in a..b : y < x}) = x - a
    <3> TAKE x \in a..b
    <3>1. {y \in a..b : y < x} = a..(x - 1)
      OBVIOUS
    <3>2. x - 1 \in Int /\ (IF a > x - 1 THEN 0 ELSE (x - 1) - a + 1) = x - a
      OBVIOUS
    <3>3. Cardinality(a..(x - 1)) = x - a
      BY <3>2, FS_Interval
    <3> QED  BY <3>1, <3>3
  <2>2. InOrder(a..b)[k] = CHOOSE x \in a..b : Cardinality({y \in a..b : y < x}) = k - 1
    BY <1>1 DEF InOrder
  <2>3. \A x \in a..b : Cardinality({y \in a..b : y < x}) = k - 1 <=> x = a + k - 1
    BY <2>1
  <2>4. a + k - 1 \in a..b
    OBVIOUS
  <2> QED  BY <2>2, <2>3, <2>4
<1> QED  BY <1>1, <1>2

-----------------------------------------------------------------------------
(* Replays of a file *)

\* g holds the segment after each of the first n records.
Follows(g, base, rs, n) ==
  /\ g[0] = FreshSegment(base)
  /\ \A k \in 1..n : g[k] = Extended(g[k - 1], rs[k].offset, rs[k].position, rs[k].length)

Replays(g, base, rs, n) ==
  g = [k \in 0..n |->
         IF k = 0 THEN FreshSegment(base)
         ELSE Extended(g[k - 1], rs[k].offset, rs[k].position, rs[k].length)]

LEMMA ReplaysFollows ==
  ASSUME NEW g, NEW base, NEW rs, NEW n \in Nat, Replays(g, base, rs, n)
  PROVE  Follows(g, base, rs, n)
<1>1. \A k \in 0..n : g[k] = IF k = 0 THEN FreshSegment(base)
         ELSE Extended(g[k - 1], rs[k].offset, rs[k].position, rs[k].length)
  BY Zenon DEF Replays
<1>2. 0 \in 0..n /\ \A k \in 1..n : k \in 0..n /\ k # 0
  OBVIOUS
<1> QED  BY <1>1, <1>2, Zenon DEF Follows

\* A replay exists for every length.
LEMMA ReplayExists ==
  ASSUME NEW base, NEW rs, NEW n \in Nat
  PROVE  \E g : Replays(g, base, rs, n)
<1> DEFINE Bad == {m \in Nat : ~\E g : Replays(g, base, rs, m)}
<1> SUFFICES ASSUME Bad # {} PROVE FALSE
  BY Zenon
<1>1. PICK m \in Bad : \A y \in Bad : m <= y
  <2>1. Bad \subseteq Nat
    OBVIOUS
  <2> HIDE DEF Bad
  <2> QED  BY <2>1, LeastExists
<1>2. CASE m = 0
  <2> DEFINE g == [k \in 0..0 |-> FreshSegment(base)]
  <2>1. Replays(g, base, rs, 0)
    <3>1. \A k \in 0..0 : k = 0
      OBVIOUS
    <3> QED  BY <3>1, Zenon DEF Replays
  <2> QED  BY <1>1, <1>2, <2>1, Zenon
<1>3. CASE m # 0
  <2>1. m \in Nat /\ m - 1 \in Nat /\ ~(m <= m - 1)
    BY <1>3
  <2>2. PICK g : Replays(g, base, rs, m - 1)
    BY <1>1, <2>1, Zenon
  <2> DEFINE e == Extended(g[m - 1], rs[m].offset, rs[m].position, rs[m].length)
             h == [k \in 0..m |-> IF k = m THEN e ELSE g[k]]
  <2>3. \A k \in 0..m : k # 0 => k - 1 \in 0..m /\ k - 1 # m
    BY <2>1
  <2>4. \A k \in 0..m : k # m => k \in 0..(m - 1)
    BY <2>1
  <2>5. \A k \in 0..(m - 1) : g[k] = IF k = 0 THEN FreshSegment(base)
          ELSE Extended(g[k - 1], rs[k].offset, rs[k].position, rs[k].length)
    BY <2>2, Zenon DEF Replays
  <2>6. \A k \in 0..m : k # 0 => h[k - 1] = g[k - 1]
    BY <2>3, Zenon
  <2>7. \A k \in 0..m : (IF k = m THEN e ELSE g[k]) = IF k = 0 THEN FreshSegment(base)
          ELSE Extended(h[k - 1], rs[k].offset, rs[k].position, rs[k].length)
    <3> TAKE k \in 0..m
    <3>1. CASE k = m
      BY <1>3, <2>6, <3>1, Zenon
    <3>2. CASE k # m
      <4> HIDE DEF e, h
      <4> QED  BY <2>4, <2>5, <2>6, <3>2, Zenon
    <3> QED  BY <3>1, <3>2
  <2>8. Replays(h, base, rs, m)
    BY <2>7, Zenon DEF Replays
  <2> QED  BY <1>1, <2>8, Zenon
<1> QED  BY <1>2, <1>3

\* Two replays of the same records agree.
LEMMA FollowsUnique ==
  ASSUME NEW base, NEW rs, NEW n \in Nat, NEW g, NEW h,
         Follows(g, base, rs, n), Follows(h, base, rs, n)
  PROVE  g[n] = h[n]
<1> DEFINE Bad == {m \in 0..n : g[m] # h[m]}
<1> SUFFICES ASSUME Bad # {} PROVE FALSE
  OBVIOUS
<1>1. PICK m \in Bad : \A y \in Bad : m <= y
  <2>1. Bad \subseteq Nat
    OBVIOUS
  <2> HIDE DEF Bad
  <2> QED  BY <2>1, LeastExists
<1>2. m # 0
  BY <1>1 DEF Follows
<1>3. m \in 1..n /\ m - 1 \in 0..n /\ ~(m <= m - 1)
  BY <1>1, <1>2
<1>4. g[m - 1] = h[m - 1]
  BY <1>1, <1>3, Zenon
<1>5. g[m] = h[m]
  BY <1>3, <1>4, Zenon DEF Follows
<1> QED  BY <1>1, <1>5

\* RecoveredSegment is the last segment of a replay, of whichever one.
LEMMA RecoveredFollows ==
  ASSUME NEW base, NEW file, Len(file.records) \in Nat
  PROVE  \E g : /\ Follows(g, base, file.records, Len(file.records))
                /\ RecoveredSegment(base, file) = g[Len(file.records)]
<1> DEFINE n == Len(file.records)
           g == CHOOSE g : Replays(g, base, file.records, n)
<1>1. \E h : Replays(h, base, file.records, n)
  BY ReplayExists
<1>2. Replays(g, base, file.records, n)
  <2> HIDE DEF n
  <2> QED  BY <1>1, Zenon
<1>3. Follows(g, base, file.records, n)
  <2> HIDE DEF g
  <2> QED  BY <1>2, ReplaysFollows
<1>4. RecoveredSegment(base, file) = g[n]
  BY Zenon DEF RecoveredSegment, Replays
<1> HIDE DEF g
<1> QED  BY <1>3, <1>4, Zenon

LEMMA RecoveredIs ==
  ASSUME NEW base, NEW file, Len(file.records) \in Nat, NEW h,
         Follows(h, base, file.records, Len(file.records))
  PROVE  RecoveredSegment(base, file) = h[Len(file.records)]
<1>1. PICK g : /\ Follows(g, base, file.records, Len(file.records))
               /\ RecoveredSegment(base, file) = g[Len(file.records)]
  BY RecoveredFollows
<1> QED  BY <1>1, FollowsUnique

-----------------------------------------------------------------------------
(* The shape of a file and of the segment that a replay of it gives *)

WellFormed(b, rs) ==
  /\ rs \in Seq(Record)
  /\ \A k \in 1..Len(rs) : rs[k].offset = b + k - 1
  /\ Len(rs) > 0 => rs[1].position = 0
  /\ \A k \in 2..Len(rs) : rs[k].position = rs[k - 1].position + rs[k - 1].length

\* The segment after the first n records of the file.
Shape(seg, b, rs, n) ==
  /\ seg \in Segment
  /\ seg.base_offset = b
  /\ seg.next_offset = b + n
  /\ seg.size = IF n = 0 THEN 0 ELSE rs[n].position + rs[n].length
  /\ \A j \in 1..Len(seg.index) :
       seg.index[j][1] < n /\ seg.index[j][2] = rs[seg.index[j][1] + 1].position
  /\ \A i, j \in 1..Len(seg.index) : i < j => seg.index[i][1] < seg.index[j][1]
  /\ seg.last_indexed_position =
       IF seg.index = << >> THEN -1 ELSE seg.index[Len(seg.index)][2]

LEMMA RecordType ==
  ASSUME NEW b, NEW rs, WellFormed(b, rs), NEW k \in 1..Len(rs)
  PROVE  /\ Len(rs) \in Nat
         /\ rs[k] \in Record
         /\ rs[k].offset \in Nat /\ rs[k].position \in Nat
         /\ rs[k].length \in Nat \ {0} /\ rs[k].length \in Payload
         /\ rs[k].offset = b + k - 1
<1>1. rs[k] \in Record
  BY DEF WellFormed
<1>2. Len(rs) \in Nat
  BY DEF WellFormed
<1> QED  BY <1>1, <1>2, CommitLogAssumption DEF WellFormed, Record

LEMMA FreshShape ==
  ASSUME NEW b \in Nat, NEW rs
  PROVE  Shape(FreshSegment(b), b, rs, 0)
<1>1. << >> \in Seq(Entry) /\ Len(<< >>) = 0
  OBVIOUS
<1> QED  BY <1>1 DEF Shape, Segment, FreshSegment

LEMMA SegmentFields ==
  ASSUME NEW seg \in Segment
  PROVE  /\ seg = [base_offset |-> seg.base_offset, size |-> seg.size,
                   next_offset |-> seg.next_offset, index |-> seg.index,
                   last_indexed_position |-> seg.last_indexed_position]
         /\ seg.base_offset \in Nat /\ seg.size \in Nat /\ seg.next_offset \in Nat
         /\ seg.index \in Seq(Entry) /\ Len(seg.index) \in Nat
         /\ seg.last_indexed_position \in Int
BY DEF Segment

LEMMA ExtendedIs ==
  ASSUME NEW seg \in Segment, NEW offset, NEW position, NEW length
  PROVE  \/ Extended(seg, offset, position, length) =
              [base_offset |-> seg.base_offset, size |-> position + length,
               next_offset |-> offset + 1, index |-> seg.index,
               last_indexed_position |-> seg.last_indexed_position]
         \/ Extended(seg, offset, position, length) =
              [base_offset |-> seg.base_offset, size |-> position + length,
               next_offset |-> offset + 1,
               index |-> Append(seg.index, <<offset - seg.base_offset, position>>),
               last_indexed_position |-> position]
<1> DEFINE added == Append(seg.index, <<offset - seg.base_offset, position>>)
           m == MaybeIndex(seg, offset, position)
<1>1. PICK b, z, n, i, l : seg = [base_offset |-> b, size |-> z, next_offset |-> n, index |-> i,
                                  last_indexed_position |-> l]
  BY SegmentFields
<1>2. \/ m = seg
      \/ m = [seg EXCEPT !.index = added, !.last_indexed_position = position]
  BY DEF MaybeIndex
<1> HIDE DEF added
<1>3. [seg EXCEPT !.index = added, !.last_indexed_position = position] =
        [base_offset |-> b, size |-> z, next_offset |-> n, index |-> added,
         last_indexed_position |-> position]
  <2>1. [seg EXCEPT !.index = added, !.last_indexed_position = position] =
          [[seg EXCEPT !.index = added] EXCEPT !.last_indexed_position = position]
    OBVIOUS
  <2>2. [seg EXCEPT !.index = added] =
          [base_offset |-> b, size |-> z, next_offset |-> n, index |-> added,
           last_indexed_position |-> l]
    BY <1>1
  <2>3. [[base_offset |-> b, size |-> z, next_offset |-> n, index |-> added,
          last_indexed_position |-> l] EXCEPT !.last_indexed_position = position] =
          [base_offset |-> b, size |-> z, next_offset |-> n, index |-> added,
           last_indexed_position |-> position]
    OBVIOUS
  <2> QED  BY <2>1, <2>2, <2>3
<1>4. Extended(seg, offset, position, length) =
        [m EXCEPT !.size = position + length, !.next_offset = offset + 1]
  BY DEF Extended
<1> HIDE DEF m
<1>5. CASE m = seg
  <2>1. Extended(seg, offset, position, length) =
          [base_offset |-> b, size |-> position + length,
           next_offset |-> offset + 1, index |-> i, last_indexed_position |-> l]
    BY <1>1, <1>4, <1>5
  <2> QED  BY <1>1, <2>1
<1>6. CASE m = [base_offset |-> b, size |-> z, next_offset |-> n, index |-> added,
                last_indexed_position |-> position]
  <2>1. Extended(seg, offset, position, length) =
          [base_offset |-> b, size |-> position + length,
           next_offset |-> offset + 1, index |-> added, last_indexed_position |-> position]
    BY <1>4, <1>6
  <2>2. seg.base_offset = b
    BY <1>1
  <2> QED  BY <2>1, <2>2 DEF added
<1> QED  BY <1>2, <1>3, <1>5, <1>6

\* One more record keeps the shape and adds at most the entry of the record.
LEMMA ExtendedShape ==
  ASSUME NEW b \in Nat, NEW rs, WellFormed(b, rs), NEW n \in 1..Len(rs), NEW seg,
         Shape(seg, b, rs, n - 1)
  PROVE  LET e == Extended(seg, rs[n].offset, rs[n].position, rs[n].length)
         IN  /\ Shape(e, b, rs, n)
             /\ \/ e.index = seg.index
                \/ e.index = Append(seg.index, <<n - 1, rs[n].position>>)
<1> DEFINE E == Extended(seg, rs[n].offset, rs[n].position, rs[n].length)
<1>1. PICK position, length : position = rs[n].position /\ length = rs[n].length
  OBVIOUS
<1>2. /\ rs[n].offset \in Nat /\ position \in Nat /\ length \in Nat
      /\ rs[n].offset = b + n - 1
      /\ Len(rs) \in Nat /\ n \in Nat /\ n # 0 /\ n - 1 \in Nat
  BY <1>1, RecordType
<1>3. /\ seg \in Segment /\ seg.base_offset = b /\ seg.index \in Seq(Entry)
      /\ Len(seg.index) \in Nat /\ seg.last_indexed_position \in Int
  BY SegmentFields DEF Shape
<1>4. PICK index, last :
        /\ E = [base_offset |-> seg.base_offset, size |-> rs[n].position + rs[n].length,
                next_offset |-> rs[n].offset + 1, index |-> index, last_indexed_position |-> last]
        /\ \/ index = seg.index /\ last = seg.last_indexed_position
           \/ /\ index = Append(seg.index, <<rs[n].offset - seg.base_offset, rs[n].position>>)
              /\ last = rs[n].position
  <2>1. \/ E = [base_offset |-> seg.base_offset, size |-> rs[n].position + rs[n].length,
                next_offset |-> rs[n].offset + 1, index |-> seg.index,
                last_indexed_position |-> seg.last_indexed_position]
        \/ E = [base_offset |-> seg.base_offset, size |-> rs[n].position + rs[n].length,
                next_offset |-> rs[n].offset + 1,
                index |-> Append(seg.index, <<rs[n].offset - seg.base_offset, rs[n].position>>),
                last_indexed_position |-> rs[n].position]
    BY <1>3, ExtendedIs
  <2> HIDE DEF E
  <2> QED  BY <2>1, Zenon
<1>5. /\ E.base_offset = b /\ E.size = position + length /\ E.next_offset = b + n
      /\ E.index = index /\ E.last_indexed_position = last
  BY <1>1, <1>2, <1>3, <1>4, SMTT(40)
<1>6. rs[n].offset - seg.base_offset = n - 1
  BY <1>2, <1>3
<1> DEFINE m == Len(seg.index)
<1>7. \A j \in 1..m : seg.index[j][1] \in Nat
  BY <1>3, SMTT(40) DEF Entry
<1>8. \A j \in 1..m : seg.index[j][1] < n - 1 /\ seg.index[j][2] = rs[seg.index[j][1] + 1].position
  BY DEF Shape
<1>9. \A i, j \in 1..m : i < j => seg.index[i][1] < seg.index[j][1]
  BY DEF Shape
<1>10. seg.last_indexed_position = IF seg.index = << >> THEN -1 ELSE seg.index[m][2]
  BY DEF Shape
<1>11. ASSUME /\ index \in Seq(Entry) /\ last \in Int
              /\ \A j \in 1..Len(index) : index[j][1] < n /\ index[j][2] = rs[index[j][1] + 1].position
              /\ \A i, j \in 1..Len(index) : i < j => index[i][1] < index[j][1]
              /\ last = IF index = << >> THEN -1 ELSE index[Len(index)][2]
       PROVE  Shape(E, b, rs, n)
  <2>1. E \in Segment
    <3>1. /\ seg.base_offset \in Nat /\ rs[n].position + rs[n].length \in Nat
          /\ rs[n].offset + 1 \in Nat
      BY <1>1, <1>2, <1>3, SMTT(40)
    <3> HIDE DEF E
    <3> QED  BY <1>4, <1>11, <3>1 DEF Segment
  <2> HIDE DEF E
  <2>2. E.size = IF n = 0 THEN 0 ELSE rs[n].position + rs[n].length
    BY <1>1, <1>2, <1>5
  <2> QED  BY <1>5, <1>11, <2>1, <2>2 DEF Shape
<1>12. CASE index = seg.index /\ last = seg.last_indexed_position
  <2>1. \A j \in 1..m : seg.index[j][1] < n
    BY <1>2, <1>7, <1>8
  <2>2. Shape(E, b, rs, n)
    <3> HIDE DEF E
    <3> QED  BY <1>3, <1>8, <1>9, <1>10, <1>11, <1>12, <2>1
  <2> QED  BY <1>5, <1>12, <2>2
<1>13. CASE /\ index = Append(seg.index, <<rs[n].offset - seg.base_offset, rs[n].position>>)
            /\ last = rs[n].position
  <2>0. <<n - 1, position>> \in Entry
    BY <1>2 DEF Entry
  <2>1. PICK entry : entry = <<n - 1, position>> /\ entry \in Entry
    BY <2>0
  <2>2. entry[1] = n - 1 /\ entry[2] = position
    BY <2>1
  <2>3. index = Append(seg.index, entry)
    BY <1>1, <1>6, <1>13, <2>1
  <2>4. /\ index \in Seq(Entry) /\ Len(index) = m + 1 /\ index # << >>
        /\ \A j \in 1..m : index[j] = seg.index[j]
        /\ index[m + 1] = entry
    BY <1>3, <2>1, <2>3, AppendProperties
  <2> HIDE DEF m
  <2>5. m \in Nat
    BY <1>3 DEF m
  <2>6. \A j \in 1..(m + 1) : j \in 1..m \/ j = m + 1
    BY <2>5
  <2>7. ASSUME NEW j \in 1..(m + 1)
        PROVE  index[j][1] < n /\ index[j][2] = rs[index[j][1] + 1].position
    <3>1. CASE j \in 1..m
      <4>1. /\ index[j] = seg.index[j] /\ seg.index[j][1] \in Nat /\ seg.index[j][1] < n - 1
            /\ seg.index[j][2] = rs[seg.index[j][1] + 1].position
        BY <1>7, <1>8, <2>4, <3>1
      <4> QED  BY <1>2, <4>1
    <3>2. CASE j = m + 1
      <4>1. index[j][1] = n - 1 /\ index[j][2] = rs[n].position /\ n - 1 + 1 = n /\ n - 1 < n
        BY <1>1, <1>2, <2>2, <2>4, <3>2
      <4> QED  BY <4>1
    <3> QED  BY <2>6, <3>1, <3>2
  <2>8. ASSUME NEW i \in 1..(m + 1), NEW j \in 1..(m + 1), i < j
        PROVE  index[i][1] < index[j][1]
    <3>1. i \in 1..m
      BY <2>5, <2>8
    <3>2. CASE j \in 1..m
      BY <1>9, <2>4, <2>8, <3>1, <3>2
    <3>3. CASE j = m + 1
      BY <1>8, <2>2, <2>4, <3>1, <3>3
    <3> QED  BY <2>6, <3>2, <3>3
  <2>9. last = index[Len(index)][2] /\ last \in Int
    BY <1>1, <1>2, <1>13, <2>2, <2>4
  <2>10. Shape(E, b, rs, n)
    <3> HIDE DEF E
    <3> QED  BY <1>11, <2>4, <2>7, <2>8, <2>9
  <2> QED  BY <1>1, <1>5, <2>1, <2>3, <2>10
<1> QED  BY <1>4, <1>12, <1>13

\* Every segment of a replay has its shape.
LEMMA FollowsShape ==
  ASSUME NEW b \in Nat, NEW rs, WellFormed(b, rs), NEW g, Follows(g, b, rs, Len(rs))
  PROVE  \A n \in 0..Len(rs) : Shape(g[n], b, rs, n)
<1> DEFINE Bad == {m \in 0..Len(rs) : ~Shape(g[m], b, rs, m)}
<1> SUFFICES ASSUME Bad # {} PROVE FALSE
  OBVIOUS
<1>1. PICK m \in Bad : \A y \in Bad : m <= y
  <2>1. Bad \subseteq Nat
    OBVIOUS
  <2> HIDE DEF Bad
  <2> QED  BY <2>1, LeastExists
<1>2. m # 0
  BY <1>1, FreshShape DEF Follows
<1>3. m \in 1..Len(rs) /\ m - 1 \in 0..Len(rs) /\ ~(m <= m - 1)
  BY <1>1, <1>2
<1>4. Shape(g[m - 1], b, rs, m - 1)
  BY <1>1, <1>3, Zenon
<1>5. g[m] = Extended(g[m - 1], rs[m].offset, rs[m].position, rs[m].length)
  BY <1>3 DEF Follows
<1>6. Shape(g[m], b, rs, m)
  BY <1>3, <1>4, <1>5, ExtendedShape
<1> QED  BY <1>1, <1>6

\* The index after n records is the part of any later one that is below n.
LEMMA FollowsIndex ==
  ASSUME NEW b \in Nat, NEW rs, WellFormed(b, rs), NEW g, Follows(g, b, rs, Len(rs)),
         NEW n \in 0..Len(rs), NEW m \in n..Len(rs)
  PROVE  /\ Len(g[n].index) <= Len(g[m].index)
         /\ \A j \in 1..Len(g[n].index) : g[m].index[j] = g[n].index[j]
         /\ \A j \in (Len(g[n].index) + 1)..Len(g[m].index) : g[m].index[j][1] >= n
<1> DEFINE P(k) == /\ Len(g[n].index) <= Len(g[k].index)
                   /\ \A j \in 1..Len(g[n].index) : g[k].index[j] = g[n].index[j]
                   /\ \A j \in (Len(g[n].index) + 1)..Len(g[k].index) : g[k].index[j][1] >= n
           Bad == {k \in n..Len(rs) : ~P(k)}
<1> SUFFICES ASSUME Bad # {} PROVE FALSE
  OBVIOUS
<1>0. Len(rs) \in Nat /\ n \in Nat
  BY DEF WellFormed
<1>1. PICK k \in Bad : \A y \in Bad : k <= y
  <2>1. Bad \subseteq Nat
    BY <1>0
  <2> HIDE DEF Bad
  <2> QED  BY <2>1, LeastExists
<1>2. \A i \in 0..Len(rs) : g[i].index \in Seq(Entry) /\ Len(g[i].index) \in Nat
  BY FollowsShape, SegmentFields DEF Shape
<1>3. k # n
  <2>1. P(n)
    BY <1>2
  <2> QED  BY <1>1, <2>1
<1>4. /\ k \in 1..Len(rs) /\ k - 1 \in n..Len(rs) /\ ~(k <= k - 1)
      /\ k \in Nat /\ n <= k - 1 /\ k - 1 \in 0..Len(rs) /\ k \in 0..Len(rs)
  BY <1>0, <1>1, <1>3
<1>5. P(k - 1)
  <2> HIDE DEF P
  <2> QED  BY <1>1, <1>4
<1>6. g[k] = Extended(g[k - 1], rs[k].offset, rs[k].position, rs[k].length)
  BY <1>4 DEF Follows
<1>7. \/ g[k].index = g[k - 1].index
      \/ g[k].index = Append(g[k - 1].index, <<k - 1, rs[k].position>>)
  <2>1. Shape(g[k - 1], b, rs, k - 1)
    BY <1>4, FollowsShape
  <2> QED  BY <1>4, <1>6, <2>1, ExtendedShape
<1>8. CASE g[k].index = Append(g[k - 1].index, <<k - 1, rs[k].position>>)
  <2>0. k - 1 \in Nat /\ rs[k].position \in Nat
    BY <1>4, RecordType
  <2>01. <<k - 1, rs[k].position>> \in Entry /\ <<k - 1, rs[k].position>>[1] = k - 1
    BY <2>0 DEF Entry
  <2>1. PICK entry : entry = <<k - 1, rs[k].position>> /\ entry \in Entry /\ entry[1] = k - 1
    BY <2>01
  <2>2. /\ Len(g[k].index) = Len(g[k - 1].index) + 1
        /\ \A j \in 1..Len(g[k - 1].index) : g[k].index[j] = g[k - 1].index[j]
        /\ g[k].index[Len(g[k - 1].index) + 1] = entry
    <3>1. PICK Y : Y = g[k - 1].index
      OBVIOUS
    <3>2. Y \in Seq(Entry)
      BY <1>2, <1>4, <3>1
    <3>3. /\ Len(Append(Y, entry)) = Len(Y) + 1
          /\ \A j \in 1..Len(Y) : Append(Y, entry)[j] = Y[j]
          /\ Append(Y, entry)[Len(Y) + 1] = entry
      <4>1. entry \in Entry
        BY <2>1
      <4> QED  BY <3>2, <4>1, AppendProperties
    <3>4. g[k].index = Append(Y, entry)
      BY <1>8, <2>1, <3>1
    <3> QED  BY <3>1, <3>3, <3>4, ZenonT(40)
  <2>3. PICK X, Y, Z : X = g[n].index /\ Y = g[k - 1].index /\ Z = g[k].index
    OBVIOUS
  <2>4. Len(X) \in Nat /\ Len(Y) \in Nat
    BY <1>2, <1>4, <2>3
  <2>5. /\ Len(X) <= Len(Y)
        /\ \A j \in 1..Len(X) : Y[j] = X[j]
        /\ \A j \in (Len(X) + 1)..Len(Y) : Y[j][1] >= n
    BY <1>5, <2>3
  <2>6. /\ Len(Z) = Len(Y) + 1
        /\ \A j \in 1..Len(Y) : Z[j] = Y[j]
        /\ Z[Len(Y) + 1] = entry
    BY <2>2, <2>3
  <2>7. /\ Len(X) <= Len(Z)
        /\ \A j \in 1..Len(X) : Z[j] = X[j]
    BY <2>4, <2>5, <2>6
  <2>8. \A j \in (Len(X) + 1)..Len(Z) : Z[j][1] >= n
    <3> TAKE j \in (Len(X) + 1)..Len(Z)
    <3>1. CASE j = Len(Y) + 1
      BY <1>0, <1>4, <2>1, <2>6, <3>1
    <3>2. CASE j # Len(Y) + 1
      <4>0. Len(Z) = Len(Y) + 1
        BY <2>6
      <4>1. j \in (Len(X) + 1)..Len(Y) /\ j \in 1..Len(Y)
        BY <2>4, <3>2, <4>0
      <4> QED  BY <2>5, <2>6, <4>1
    <3> QED  BY <3>1, <3>2
  <2>9. P(k)
    BY <2>3, <2>7, <2>8
  <2> QED  BY <1>1, <2>9
<1>9. CASE g[k].index = g[k - 1].index
  BY <1>1, <1>5, <1>9
<1> QED  BY <1>7, <1>8, <1>9

-----------------------------------------------------------------------------
(* Recovery, reads and truncation of one segment *)

LEMMA RecoveredShape ==
  ASSUME NEW b \in Nat, NEW file, WellFormed(b, file.records)
  PROVE  Shape(RecoveredSegment(b, file), b, file.records, Len(file.records))
<1>1. Len(file.records) \in Nat
  BY DEF WellFormed
<1>2. PICK g : /\ Follows(g, b, file.records, Len(file.records))
               /\ RecoveredSegment(b, file) = g[Len(file.records)]
  BY <1>1, RecoveredFollows
<1>3. Len(file.records) \in 0..Len(file.records)
  BY <1>1
<1> QED  BY <1>2, <1>3, FollowsShape

LEMMA RecoveredSame ==
  ASSUME NEW b, NEW file, NEW other, Len(file.records) \in Nat, other.records = file.records
  PROVE  RecoveredSegment(b, other) = RecoveredSegment(b, file)
<1>1. PICK g : /\ Follows(g, b, file.records, Len(file.records))
               /\ RecoveredSegment(b, file) = g[Len(file.records)]
  BY RecoveredFollows
<1> QED  BY <1>1, RecoveredIs

LEMMA RecoveredEmpty ==
  ASSUME NEW b, NEW file, file.records = << >>
  PROVE  RecoveredSegment(b, file) = FreshSegment(b)
<1>1. Len(file.records) = 0
  OBVIOUS
<1>2. PICK g : /\ Follows(g, b, file.records, Len(file.records))
               /\ RecoveredSegment(b, file) = g[Len(file.records)]
  BY <1>1, RecoveredFollows
<1> QED  BY <1>1, <1>2 DEF Follows

\* What an append makes of a segment is what a recovery would make of its file.
LEMMA RecoveredAppend ==
  ASSUME NEW b, NEW file, NEW other, file.records \in Seq(Record), NEW r \in Record,
         other.records = Append(file.records, r)
  PROVE  RecoveredSegment(b, other) =
           Extended(RecoveredSegment(b, file), r.offset, r.position, r.length)
<1>1. PICK rs, n : rs = file.records /\ n = Len(rs)
  OBVIOUS
<1>2. n \in Nat
  BY <1>1
<1>3. PICK g : Follows(g, b, rs, n) /\ RecoveredSegment(b, file) = g[n]
  BY <1>1, <1>2, RecoveredFollows
<1>4. PICK more : more = Append(rs, r)
  OBVIOUS
<1>5. Len(more) = n + 1 /\ (\A i \in 1..n : more[i] = rs[i]) /\ more[n + 1] = r
  BY <1>1, <1>4, AppendProperties
<1> DEFINE e == Extended(g[n], r.offset, r.position, r.length)
           h == [k \in 0..(n + 1) |-> IF k = n + 1 THEN e ELSE g[k]]
<1>6. h[0] = g[0] /\ h[n + 1] = e /\ h[n] = g[n]
  BY <1>2
<1>7. \A k \in 1..n : h[k] = g[k] /\ h[k - 1] = g[k - 1]
  BY <1>2
<1> HIDE DEF h, e
<1>8. \A k \in 1..(n + 1) :
        h[k] = Extended(h[k - 1], more[k].offset, more[k].position, more[k].length)
  <2> TAKE k \in 1..(n + 1)
  <2>1. CASE k = n + 1
    <3>1. k - 1 = n
      BY <1>2, <2>1
    <3> QED  BY <1>5, <1>6, <2>1, <3>1 DEF e
  <2>2. CASE k # n + 1
    <3>1. k \in 1..n
      BY <1>2, <2>2
    <3> QED  BY <1>3, <1>5, <1>7, <3>1 DEF Follows
  <2> QED  BY <2>1, <2>2
<1>9. Follows(h, b, more, n + 1)
  BY <1>3, <1>6, <1>8 DEF Follows
<1>10. other.records = more /\ Len(other.records) = n + 1 /\ n + 1 \in Nat
  BY <1>1, <1>2, <1>4, <1>5
<1>11. RecoveredSegment(b, other) = h[n + 1]
  BY <1>9, <1>10, RecoveredIs
<1> QED  BY <1>3, <1>6, <1>11 DEF e

\* A record lies behind the records before it.
LEMMA PositionsGrow ==
  ASSUME NEW b \in Nat, NEW rs, WellFormed(b, rs), NEW i \in 1..Len(rs), NEW j \in 1..Len(rs)
  PROVE  /\ i <= j => rs[i].position <= rs[j].position
         /\ i < j => rs[i].position < rs[j].position
<1> DEFINE Bad == {m \in i..Len(rs) : ~(/\ rs[i].position <= rs[m].position
                                        /\ i < m => rs[i].position < rs[m].position)}
<1>0. Len(rs) \in Nat /\ i \in Nat /\ j \in Nat
  BY DEF WellFormed
<1> SUFFICES ASSUME Bad # {} PROVE FALSE
  BY <1>0
<1>1. PICK m \in Bad : \A y \in Bad : m <= y
  <2>1. Bad \subseteq Nat
    BY <1>0
  <2> HIDE DEF Bad
  <2> QED  BY <2>1, LeastExists
<1>2. \A k \in 1..Len(rs) : rs[k].position \in Nat /\ rs[k].length \in Nat \ {0}
  BY RecordType
<1>3. m # i
  BY <1>0, <1>1, <1>2
<1>4. m \in 2..Len(rs) /\ m - 1 \in i..Len(rs) /\ ~(m <= m - 1) /\ m - 1 \in 1..Len(rs)
      /\ m \in 1..Len(rs)
  BY <1>0, <1>1, <1>3
<1>5. rs[i].position <= rs[m - 1].position
  BY <1>1, <1>4
<1>6. rs[m].position = rs[m - 1].position + rs[m - 1].length
  BY <1>4 DEF WellFormed
<1>7. rs[i].position < rs[m].position
  <2>1. /\ rs[i].position \in Nat /\ rs[m - 1].position \in Nat /\ rs[m].position \in Nat
        /\ rs[m - 1].length \in Nat \ {0}
    BY <1>2, <1>4
  <2> QED  BY <1>5, <1>6, <2>1, SMTT(40)
<1>8. rs[i].position <= rs[m].position
  BY <1>2, <1>4, <1>7
<1> QED  BY <1>1, <1>7, <1>8

\* A prefix of a file is a file.
LEMMA PrefixWellFormed ==
  ASSUME NEW b \in Nat, NEW rs, WellFormed(b, rs), NEW n \in 0..Len(rs)
  PROVE  /\ WellFormed(b, SubSeq(rs, 1, n))
         /\ Len(SubSeq(rs, 1, n)) = n
         /\ \A k \in 1..n : SubSeq(rs, 1, n)[k] = rs[k]
<1>1. rs \in Seq(Record) /\ Len(rs) \in Nat /\ n \in Nat
  BY DEF WellFormed
<1>2. PICK t : t = SubSeq(rs, 1, n)
  OBVIOUS
<1>3. t \in Seq(Record) /\ Len(t) = n /\ \A k \in 1..n : t[k] = rs[k]
  BY <1>1, <1>2
<1>4. n \in Int /\ \A k \in 1..n : k \in 1..Len(rs)
  BY <1>1
<1>5. \A k \in 2..n : k \in 1..n /\ k - 1 \in 1..n /\ k \in 2..Len(rs)
  BY <1>1
<1>6. \A k \in 1..Len(t) : t[k].offset = b + k - 1
  BY <1>3, <1>4 DEF WellFormed
<1>7. Len(t) > 0 => t[1].position = 0
  <2> SUFFICES ASSUME Len(t) > 0 PROVE t[1].position = 0
    OBVIOUS
  <2>1. Len(rs) > 0 /\ 1 \in 1..n
    BY <1>1, <1>3
  <2> QED  BY <1>3, <2>1 DEF WellFormed
<1>8. \A k \in 2..Len(t) : t[k].position = t[k - 1].position + t[k - 1].length
  BY <1>3, <1>5 DEF WellFormed
<1>9. WellFormed(b, t)
  BY <1>3, <1>6, <1>7, <1>8 DEF WellFormed
<1> QED  BY <1>2, <1>3, <1>9

\* A read of a segment finds the record of the offset, through the index.
LEMMA SegmentReadIs ==
  ASSUME NEW b \in Nat, NEW file, WellFormed(b, file.records), NEW seg,
         Shape(seg, b, file.records, Len(file.records)), NEW offset \in Nat
  PROVE  SegmentRead(seg, file, offset) =
           IF b <= offset /\ offset < b + Len(file.records)
           THEN {file.records[offset - b + 1]} ELSE {}
<1>1. PICK rs, n : rs = file.records /\ n = Len(rs)
  OBVIOUS
<1>2. n \in Nat /\ WellFormed(b, rs) /\ Shape(seg, b, rs, n)
  BY <1>1 DEF WellFormed
<1>3. seg.base_offset = b /\ seg.next_offset = b + n
  BY <1>2 DEF Shape
<1> DEFINE start == StartPosition(seg, offset)
           scanned == {k \in 1..n : rs[k].position >= start /\ rs[k].offset >= offset}
<1>4. SegmentRead(seg, file, offset) =
        IF /\ offset >= b /\ offset < b + n
           /\ \E k \in 1..n : rs[k].position = start
           /\ scanned # {}
           /\ rs[MinIn(scanned)].offset = offset
        THEN {rs[MinIn(scanned)]} ELSE {}
  BY <1>1, <1>3 DEF SegmentRead
<1> SUFFICES ASSUME offset >= b, offset < b + n
             PROVE  SegmentRead(seg, file, offset) = {rs[offset - b + 1]}
  <2> HIDE DEF start, scanned
  <2> QED  BY <1>1, <1>2, <1>4
<1>5. PICK K : K = offset - b + 1 /\ K \in 1..n
  BY <1>2
<1>6. \A k \in 1..n : /\ rs[k].offset = b + k - 1 /\ rs[k].position \in Nat
  BY <1>1, <1>2, RecordType
<1>7. \E k \in 1..n : k <= K /\ rs[k].position = start
  <2> DEFINE below == {k \in 1..Len(seg.index) : seg.index[k][1] <= offset - b}
  <2>1. start = IF below = {} THEN 0 ELSE seg.index[MaxIn(below)][2]
    BY <1>3 DEF StartPosition
  <2>2. CASE below = {}
    <3>1. rs[1].position = 0 /\ 1 \in 1..n /\ 1 <= K
      BY <1>1, <1>2, <1>5 DEF WellFormed
    <3> HIDE DEF below, start
    <3> QED  BY <2>1, <2>2, <3>1
  <2>3. CASE below # {}
    <3>1. seg.index \in Seq(Entry) /\ Len(seg.index) \in Nat
      BY <1>2, SegmentFields DEF Shape
    <3>2. below \subseteq 1..Len(seg.index) /\ below \subseteq Int
      BY <3>1
    <3>3. PICK m \in below : \A y \in below : y <= m
      <4>1. 1 \in Int /\ Len(seg.index) \in Int
        BY <3>1
      <4> HIDE DEF below
      <4> QED  BY <2>3, <3>2, <4>1, GreatestExists
    <3>4. MaxIn(below) = m
      <4> HIDE DEF below
      <4> QED  BY <3>2, <3>3, MaxInIs
    <3>5. m \in 1..Len(seg.index) /\ seg.index[m][1] <= offset - b
      BY <3>3
    <3>6. seg.index[m][1] \in Nat /\ seg.index[m][1] < n
      BY <1>2, <3>1, <3>5, SMTT(40) DEF Shape, Entry
    <3>7. seg.index[m][2] = rs[seg.index[m][1] + 1].position
      BY <1>2, <3>5 DEF Shape
    <3>8. start = rs[seg.index[m][1] + 1].position
      BY <2>1, <2>3, <3>4, <3>7
    <3>9. seg.index[m][1] + 1 \in 1..n /\ seg.index[m][1] + 1 <= K
      BY <1>2, <1>5, <3>5, <3>6
    <3> HIDE DEF start
    <3> QED  BY <3>8, <3>9
  <2> QED  BY <2>2, <2>3
<1>8. PICK k \in 1..n : k <= K /\ rs[k].position = start
  BY <1>7
<1>9. start \in Nat /\ rs[K].position >= start
  <2>1. rs[k].position <= rs[K].position
    BY <1>1, <1>2, <1>5, <1>8, PositionsGrow
  <2> HIDE DEF start
  <2> QED  BY <1>5, <1>6, <1>8, <2>1
<1>10. K \in scanned /\ \A y \in scanned : K <= y
  <2> HIDE DEF start
  <2> QED  BY <1>2, <1>5, <1>6, <1>9
<1>11. MinIn(scanned) = K
  <2>1. scanned \subseteq Int
    BY <1>2
  <2> HIDE DEF scanned
  <2> QED  BY <1>10, <2>1, MinInIs
<1>12. scanned # {} /\ rs[K].offset = offset
  <2>1. rs[K].offset = offset
    BY <1>2, <1>5, <1>6
  <2> HIDE DEF scanned
  <2> QED  BY <1>10, <2>1
<1> HIDE DEF scanned, start
<1> QED  BY <1>4, <1>5, <1>8, <1>11, <1>12

LEMMA ChosenPrefix ==
  ASSUME NEW T, NEW s \in Seq(T), NEW m \in 0..Len(s)
  PROVE  /\ Chosen(s, 1..m) = [k \in 1..m |-> s[k]]
         /\ Chosen(s, 1..m) \in Seq(T)
         /\ Len(Chosen(s, 1..m)) = m
         /\ Chosen(s, 1..m) = SubSeq(s, 1, m)
<1>1. m \in Nat /\ Len(s) \in Nat
  OBVIOUS
<1>2. Cardinality(1..m) = m /\ \A k \in 1..m : InOrder(1..m)[k] = k
  <2>1. 1 \in Int /\ m \in Int /\ 1 <= m + 1 /\ m - 1 + 1 = m /\ \A k \in 1..m : 1 + k - 1 = k
    BY <1>1
  <2> QED  BY <2>1, InOrderInterval
<1>3. Chosen(s, 1..m) = [k \in 1..m |-> s[k]]
  BY <1>2 DEF Chosen
<1>4. [k \in 1..m |-> s[k]] \in Seq(T) /\ Len([k \in 1..m |-> s[k]]) = m
  BY <1>1
<1>5. SubSeq(s, 1, m) \in Seq(T) /\ Len(SubSeq(s, 1, m)) = m /\ \A k \in 1..m : SubSeq(s, 1, m)[k] = s[k]
  BY <1>1
<1>6. [k \in 1..m |-> s[k]] = SubSeq(s, 1, m)
  BY <1>4, <1>5, SeqEqual
<1> QED  BY <1>3, <1>4, <1>6

File == [records : Seq(Record), torn : BOOLEAN]

\* Truncation leaves a prefix of the file, and in memory exactly what a
\* recovery of that prefix would give.
LEMMA TruncatedIs ==
  ASSUME NEW b \in Nat, NEW file \in File, WellFormed(b, file.records), NEW offset \in Nat,
         NEW seg, seg = RecoveredSegment(b, file)
  PROVE  \E n \in 0..Len(file.records) :
           /\ TruncatedFile(seg, file, offset) \in File
           /\ ~file.torn => ~TruncatedFile(seg, file, offset).torn
           /\ TruncatedFile(seg, file, offset).records = SubSeq(file.records, 1, n)
           /\ TruncatedSegment(seg, file, offset) =
                RecoveredSegment(b, TruncatedFile(seg, file, offset))
<1>1. PICK rs, N : rs = file.records /\ N = Len(rs)
  OBVIOUS
<1>2. /\ N \in Nat /\ WellFormed(b, rs) /\ rs \in Seq(Record) /\ Shape(seg, b, rs, N)
  <2>1. Shape(seg, b, rs, N)
    BY <1>1, RecoveredShape
  <2>2. rs \in Seq(Record) /\ WellFormed(b, rs)
    BY <1>1 DEF WellFormed
  <2> QED  BY <1>1, <2>1, <2>2
<1>3. seg \in Segment /\ seg.base_offset = b
  BY <1>2 DEF Shape
<1>4. CASE offset <= b
  <2>1. TruncatedFile(seg, file, offset) = EmptyFile
    BY <1>3, <1>4 DEF TruncatedFile
  <2>2. TruncatedSegment(seg, file, offset) = FreshSegment(b)
    BY <1>3, <1>4 DEF TruncatedSegment
  <2>3. EmptyFile \in File /\ EmptyFile.records = << >> /\ EmptyFile.torn = FALSE
    BY DEF EmptyFile, File
  <2>4. SubSeq(rs, 1, 0) = << >> /\ 0 \in 0..N
    BY <1>2
  <2> QED  BY <1>1, <2>1, <2>2, <2>3, <2>4, RecoveredEmpty
<1>5. CASE offset > b /\ SegmentRead(seg, file, offset) = {}
  <2>0. ~(offset <= b)
    BY <1>5
  <2>1. TruncatedFile(seg, file, offset) = file
    BY <1>3, <1>5, <2>0 DEF TruncatedFile
  <2>2. TruncatedSegment(seg, file, offset) = seg
    BY <1>3, <1>5, <2>0 DEF TruncatedSegment
  <2>3. SubSeq(rs, 1, N) = rs /\ N \in 0..N
    BY <1>1, <1>2, SubSeqFull
  <2> QED  BY <1>1, <2>1, <2>2, <2>3
<1>6. CASE offset > b /\ SegmentRead(seg, file, offset) # {}
  <2>0. ~(offset <= b)
    BY <1>6
  <2>1. offset < b + N /\ SegmentRead(seg, file, offset) = {rs[offset - b + 1]}
    BY <1>1, <1>2, <1>6, SegmentReadIs
  <2>2. PICK n : n = offset - b /\ n \in 1..(N - 1) /\ n + 1 \in 1..N /\ n \in 1..N /\ n \in 0..N
    BY <1>2, <1>6, <2>1
  <2>3. PICK cut : cut = rs[n + 1] /\ SegmentRead(seg, file, offset) = {cut}
    BY <2>1, <2>2
  <2>4. (CHOOSE r \in SegmentRead(seg, file, offset) : TRUE) = cut
    BY <2>3
  <2>5. {j \in 1..N : rs[j].position < cut.position} = 1..n
    <3>1. \A k \in 1..N : rs[k].position \in Nat
      BY <1>1, <1>2, RecordType
    <3>2. \A j \in 1..N : j <= n => rs[j].position < cut.position
      <4> SUFFICES ASSUME NEW j \in 1..N, j <= n PROVE rs[j].position < rs[n + 1].position
        BY <2>3
      <4>1. j < n + 1
        BY <1>2, <2>2
      <4> QED  BY <1>1, <1>2, <2>2, <4>1, PositionsGrow
    <3>3. \A j \in 1..N : j > n => cut.position <= rs[j].position
      <4> SUFFICES ASSUME NEW j \in 1..N, j > n PROVE rs[n + 1].position <= rs[j].position
        BY <2>3
      <4>1. n + 1 <= j
        BY <1>2, <2>2
      <4> QED  BY <1>1, <1>2, <2>2, <4>1, PositionsGrow
    <3>4. cut.position \in Nat
      BY <2>2, <2>3, <3>1
    <3> QED  BY <1>2, <2>2, <3>1, <3>2, <3>3, <3>4
  <2>6. TruncatedFile(seg, file, offset) = [file EXCEPT !.records = SubSeq(rs, 1, n)]
    <3>1. TruncatedFile(seg, file, offset) =
            [file EXCEPT !.records = Chosen(@, {j \in 1..Len(@) : @[j].position < cut.position})]
      BY <1>3, <1>6, <2>0, <2>4 DEF TruncatedFile
    <3>2. Chosen(rs, 1..n) = SubSeq(rs, 1, n)
      BY <1>1, <1>2, <2>2, ChosenPrefix
    <3> QED  BY <1>1, <2>5, <3>1, <3>2
  <2>7. PICK new : new = TruncatedFile(seg, file, offset)
    OBVIOUS
  <2>8. SubSeq(rs, 1, n) \in Seq(Record) /\ Len(SubSeq(rs, 1, n)) = n
    BY <1>1, <1>2, <2>2, PrefixWellFormed DEF WellFormed
  <2>9. new \in File /\ new.records = SubSeq(rs, 1, n) /\ new.torn = file.torn
    BY <2>6, <2>7, <2>8 DEF File
  <2>10. PICK g : Follows(g, b, rs, N) /\ seg = g[N]
    BY <1>1, <1>2, RecoveredFollows
  <2>11. RecoveredSegment(b, new) = g[n]
    <3>1. \A k \in 1..n : new.records[k] = rs[k] /\ k \in 1..N
      BY <1>1, <1>2, <2>2, <2>9, PrefixWellFormed
    <3>2. Follows(g, b, new.records, n)
      BY <2>10, <3>1 DEF Follows
    <3>3. Len(new.records) = n /\ n \in Nat
      BY <2>2, <2>8, <2>9
    <3> QED  BY <3>2, <3>3, RecoveredIs
  <2>12. PICK h : h = g[n]
    OBVIOUS
  <2>13. Shape(h, b, rs, n)
    BY <1>1, <1>2, <2>2, <2>10, <2>12, FollowsShape
  <2>14. h \in Segment /\ h.base_offset = b /\ h.next_offset = offset /\ h.size = cut.position
    <3>1. n # 0 /\ b + n = offset
      BY <1>2, <2>2
    <3>2. rs[n + 1].position = rs[n].position + rs[n].length
      <4>1. PICK k \in 2..N : k = n + 1 /\ k - 1 = n
        BY <1>2, <2>2
      <4>2. rs[k].position = rs[k - 1].position + rs[k - 1].length
        BY <1>1, <1>2 DEF WellFormed
      <4> QED  BY <4>1, <4>2
    <3> QED  BY <2>3, <2>13, <3>1, <3>2 DEF Shape
  <2>15. PICK chosen :
           chosen = Chosen(seg.index, {j \in 1..Len(seg.index) : seg.index[j][1] < offset - b})
    OBVIOUS
  <2>16. chosen = h.index
    <3>1. PICK X, Y : X = h.index /\ Y = seg.index
      OBVIOUS
    <3>2. X \in Seq(Entry) /\ Y \in Seq(Entry) /\ Len(X) \in Nat /\ Len(Y) \in Nat
      BY <1>3, <2>14, <3>1, SegmentFields
    <3>3. N \in n..N
      BY <1>2, <2>2
    <3>4. /\ Len(X) <= Len(Y)
          /\ \A j \in 1..Len(X) : Y[j] = X[j]
          /\ \A j \in (Len(X) + 1)..Len(Y) : Y[j][1] >= n
      <4>1. /\ Len(g[n].index) <= Len(g[N].index)
            /\ \A j \in 1..Len(g[n].index) : g[N].index[j] = g[n].index[j]
            /\ \A j \in (Len(g[n].index) + 1)..Len(g[N].index) : g[N].index[j][1] >= n
        <5>1. Follows(g, b, rs, Len(rs)) /\ n \in 0..Len(rs) /\ N \in n..Len(rs)
          BY <1>1, <2>2, <2>10, <3>3
        <5> QED  BY <1>2, <5>1, FollowsIndex
      <4> QED  BY <2>10, <2>12, <3>1, <4>1
    <3>5. \A j \in 1..Len(X) : X[j][1] < n
      BY <2>13, <3>1 DEF Shape
    <3>6. \A j \in 1..Len(Y) : Y[j][1] \in Nat
      BY <3>2 DEF Entry
    <3>7. {j \in 1..Len(Y) : Y[j][1] < n} = 1..Len(X)
      <4>1. n \in Nat /\ \A j \in 1..Len(Y) : j \in 1..Len(X) \/ j \in (Len(X) + 1)..Len(Y)
        BY <2>2, <3>2
      <4>2. \A j \in 1..Len(X) : j \in 1..Len(Y) /\ Y[j][1] < n
        BY <3>2, <3>4, <3>5
      <4>3. \A j \in 1..Len(Y) : Y[j][1] < n => j \in 1..Len(X)
        BY <3>4, <3>6, <4>1
      <4> QED  BY <4>2, <4>3
    <3>8. chosen = Chosen(Y, 1..Len(X))
      BY <2>2, <2>15, <3>1, <3>7
    <3>9. Len(X) \in 0..Len(Y)
      BY <3>2, <3>4
    <3>10. /\ Chosen(Y, 1..Len(X)) \in Seq(Entry) /\ Len(Chosen(Y, 1..Len(X))) = Len(X)
           /\ \A j \in 1..Len(X) : Chosen(Y, 1..Len(X))[j] = Y[j]
      BY <3>2, <3>9, ChosenPrefix
    <3>11. Chosen(Y, 1..Len(X)) = X
      BY <3>2, <3>4, <3>10, SeqEqual
    <3> QED  BY <3>1, <3>8, <3>11
  <2>17. PICK last : last = IF chosen = << >> THEN -1 ELSE Last(chosen)[2]
    OBVIOUS
  <2>18. last = h.last_indexed_position
    BY <2>13, <2>16, <2>17 DEF Shape, Last
  <2>19. TruncatedSegment(seg, file, offset) =
           [seg EXCEPT !.size = cut.position, !.next_offset = offset, !.index = chosen,
                       !.last_indexed_position = last]
    BY <1>3, <1>6, <2>0, <2>4, <2>15, <2>17 DEF TruncatedSegment
  <2>20. [seg EXCEPT !.size = cut.position, !.next_offset = offset, !.index = chosen,
                     !.last_indexed_position = last] =
           [base_offset |-> b, size |-> cut.position, next_offset |-> offset, index |-> chosen,
            last_indexed_position |-> last]
    <3>1. PICK z, m, i, l : seg = [base_offset |-> b, size |-> z, next_offset |-> m,
                                   index |-> i, last_indexed_position |-> l]
      BY <1>3, SegmentFields
    <3>3. PICK p : p = cut.position
      OBVIOUS
    <3>2. [seg EXCEPT !.size = p, !.next_offset = offset, !.index = chosen,
                      !.last_indexed_position = last] =
          [[[[seg EXCEPT !.size = p] EXCEPT !.next_offset = offset]
              EXCEPT !.index = chosen] EXCEPT !.last_indexed_position = last]
      OBVIOUS
    <3>4. [seg EXCEPT !.size = p] =
            [base_offset |-> b, size |-> p, next_offset |-> m, index |-> i,
             last_indexed_position |-> l]
      BY <3>1
    <3>5. [[base_offset |-> b, size |-> p, next_offset |-> m, index |-> i,
            last_indexed_position |-> l] EXCEPT !.next_offset = offset] =
            [base_offset |-> b, size |-> p, next_offset |-> offset, index |-> i,
             last_indexed_position |-> l]
      OBVIOUS
    <3>6. [[base_offset |-> b, size |-> p, next_offset |-> offset, index |-> i,
            last_indexed_position |-> l] EXCEPT !.index = chosen] =
            [base_offset |-> b, size |-> p, next_offset |-> offset, index |-> chosen,
             last_indexed_position |-> l]
      OBVIOUS
    <3>7. [[base_offset |-> b, size |-> p, next_offset |-> offset, index |-> chosen,
            last_indexed_position |-> l] EXCEPT !.last_indexed_position = last] =
            [base_offset |-> b, size |-> p, next_offset |-> offset, index |-> chosen,
             last_indexed_position |-> last]
      OBVIOUS
    <3>8. [seg EXCEPT !.size = p, !.next_offset = offset, !.index = chosen,
                      !.last_indexed_position = last] =
            [base_offset |-> b, size |-> p, next_offset |-> offset, index |-> chosen,
             last_indexed_position |-> last]
      BY <3>2, <3>4, <3>5, <3>6, <3>7, Zenon
    <3> QED  BY <3>3, <3>8, Zenon
  <2>21. TruncatedSegment(seg, file, offset) = h
    BY <2>14, <2>16, <2>18, <2>19, <2>20, SegmentFields
  <2> QED  BY <1>1, <2>2, <2>7, <2>9, <2>11, <2>12, <2>21
<1> QED  BY <1>2, <1>4, <1>5, <1>6

-----------------------------------------------------------------------------
(* Stores: the disk, and the segments of an open log *)

\* Crashes inside appends and retention only: the others can leave a gap.
Orderly == Faults \subseteq {"append", "retention"}

Contiguous(d) ==
  \A b \in DOMAIN d :
    (\A c \in DOMAIN d : c <= b) \/ b + Len(d[b].records) \in DOMAIN d \ {b}

DiskInv(d) ==
  /\ d \in [DOMAIN d -> File]
  /\ DOMAIN d \subseteq Nat /\ IsFiniteSet(DOMAIN d) /\ DOMAIN d # {}
  /\ \A b \in DOMAIN d : WellFormed(b, d[b].records)
  /\ \A b, c \in DOMAIN d : b < c => b + Len(d[b].records) <= c
  /\ Orderly => Contiguous(d)

\* The segments are what a recovery of the files would give, in their order.
SegmentsInv(d, ss) ==
  /\ ss \in Seq(Segment) /\ Len(ss) > 0
  /\ \A k \in 1..Len(ss) :
       /\ ss[k].base_offset \in DOMAIN d
       /\ ~d[ss[k].base_offset].torn
       /\ ss[k] = RecoveredSegment(ss[k].base_offset, d[ss[k].base_offset])
  /\ \A k, l \in 1..Len(ss) : k < l => ss[k].base_offset < ss[l].base_offset
  /\ \A b \in DOMAIN d : \E k \in 1..Len(ss) : ss[k].base_offset = b

StoreInv(s, n) ==
  /\ DiskInv(s.disk) /\ SegmentsInv(s.disk, s.segments)
  /\ n = s.segments[Len(s.segments)].next_offset

\* e holds every record of d, in files that have grown or are new.
Grows(d, e) ==
  /\ DOMAIN d \subseteq DOMAIN e
  /\ \A b \in DOMAIN d : /\ Len(d[b].records) <= Len(e[b].records)
                         /\ \A k \in 1..Len(d[b].records) : e[b].records[k] = d[b].records[k]
  /\ \A c \in DOMAIN e : \E b \in DOMAIN d : b <= c

LEMMA FileTypes ==
  ASSUME NEW d, DiskInv(d), NEW b \in DOMAIN d
  PROVE  /\ b \in Nat /\ d[b] \in File /\ d[b].records \in Seq(Record)
         /\ Len(d[b].records) \in Nat /\ d[b].torn \in BOOLEAN
         /\ WellFormed(b, d[b].records)
<1>1. b \in Nat /\ d[b] \in File /\ WellFormed(b, d[b].records)
  BY DEF DiskInv
<1> QED  BY <1>1 DEF File

LEMMA GrowsReflexive ==
  ASSUME NEW d, DiskInv(d)
  PROVE  Grows(d, d)
<1>1. \A b \in DOMAIN d : b \in Nat /\ Len(d[b].records) \in Nat
  BY FileTypes
<1> QED  BY <1>1 DEF Grows

LEMMA GrowsTransitive ==
  ASSUME NEW c, NEW d, NEW e, DiskInv(c), DiskInv(d), DiskInv(e), Grows(c, d), Grows(d, e)
  PROVE  Grows(c, e)
<1>1. DOMAIN c \subseteq DOMAIN d /\ DOMAIN d \subseteq DOMAIN e
  BY DEF Grows
<1>2. ASSUME NEW b \in DOMAIN c
      PROVE  /\ Len(c[b].records) <= Len(e[b].records)
             /\ \A k \in 1..Len(c[b].records) : e[b].records[k] = c[b].records[k]
  <2>1. Len(c[b].records) \in Nat /\ Len(d[b].records) \in Nat /\ Len(e[b].records) \in Nat
    BY <1>1, FileTypes
  <2>2. Len(c[b].records) <= Len(d[b].records) /\ Len(d[b].records) <= Len(e[b].records)
    BY <1>1 DEF Grows
  <2>3. \A k \in 1..Len(c[b].records) : k \in 1..Len(d[b].records)
    BY <2>1, <2>2
  <2>4. \A k \in 1..Len(c[b].records) : e[b].records[k] = c[b].records[k]
    BY <1>1, <2>3 DEF Grows
  <2> QED  BY <2>1, <2>2, <2>4
<1>3. ASSUME NEW x \in DOMAIN e
      PROVE  \E b \in DOMAIN c : b <= x
  <2>1. PICK y \in DOMAIN d : y <= x
    BY DEF Grows
  <2>2. PICK b \in DOMAIN c : b <= y
    BY DEF Grows
  <2>3. b \in Nat /\ y \in Nat /\ x \in Nat
    BY FileTypes
  <2> QED  BY <2>1, <2>2, <2>3
<1> QED  BY <1>1, <1>2, <1>3 DEF Grows

LEMMA RecordIn ==
  ASSUME NEW d, NEW b \in DOMAIN d, NEW k \in 1..Len(d[b].records)
  PROVE  d[b].records[k] \in Records(d)
BY DEF Records

LEMMA RecordFrom ==
  ASSUME NEW d, NEW r \in Records(d)
  PROVE  \E b \in DOMAIN d : \E k \in 1..Len(d[b].records) : r = d[b].records[k]
BY DEF Records

LEMMA GrowsRecords ==
  ASSUME NEW d, NEW e, DiskInv(d), DiskInv(e), Grows(d, e)
  PROVE  Records(d) \subseteq Records(e)
<1> SUFFICES ASSUME NEW b \in DOMAIN d, NEW k \in 1..Len(d[b].records)
             PROVE  d[b].records[k] \in Records(e)
  BY DEF Records
<1>1. b \in DOMAIN e /\ Len(d[b].records) \in Nat /\ Len(e[b].records) \in Nat
  BY FileTypes DEF Grows
<1>2. Len(d[b].records) <= Len(e[b].records) /\ e[b].records[k] = d[b].records[k]
  BY DEF Grows
<1>3. k \in 1..Len(e[b].records)
  BY <1>1, <1>2
<1> QED  BY <1>1, <1>2, <1>3 DEF Records

\* The active segment is the one of the last file.
LEMMA ActiveIsLast ==
  ASSUME NEW d, NEW ss, DiskInv(d), SegmentsInv(d, ss)
  PROVE  LET active == ss[Len(ss)]
             b == active.base_offset
         IN  /\ Len(ss) \in Nat /\ Len(ss) \in 1..Len(ss)
             /\ active \in Segment
             /\ b \in DOMAIN d /\ b \in Nat /\ \A c \in DOMAIN d : c <= b
             /\ active = RecoveredSegment(b, d[b])
             /\ ~d[b].torn
             /\ active.next_offset = b + Len(d[b].records)
             /\ active.size = FileSize(d[b])
             /\ active.size > 0 <=> Len(d[b].records) > 0
<1>1. PICK n, active, b : n = Len(ss) /\ active = ss[n] /\ b = active.base_offset
  OBVIOUS
<1>2. n \in Nat /\ n \in 1..n /\ active \in Segment
  BY <1>1 DEF SegmentsInv
<1>3. b \in DOMAIN d /\ ~d[b].torn /\ active = RecoveredSegment(b, d[b])
  BY <1>1, <1>2 DEF SegmentsInv
<1>4. b \in Nat /\ d[b].records \in Seq(Record) /\ WellFormed(b, d[b].records)
      /\ Len(d[b].records) \in Nat
  BY <1>3, FileTypes
<1>5. \A c \in DOMAIN d : c <= b
  <2> TAKE c \in DOMAIN d
  <2>1. PICK k \in 1..n : ss[k].base_offset = c
    BY <1>1 DEF SegmentsInv
  <2>2. k < n => c < b
    BY <1>1, <1>2, <2>1 DEF SegmentsInv
  <2>3. c \in Nat
    BY FileTypes
  <2> QED  BY <1>1, <1>2, <1>4, <2>1, <2>2, <2>3
<1>6. Shape(active, b, d[b].records, Len(d[b].records))
  BY <1>3, <1>4, RecoveredShape
<1>7. active.next_offset = b + Len(d[b].records)
  BY <1>6 DEF Shape
<1>8. PICK rs, m : rs = d[b].records /\ m = Len(rs)
  OBVIOUS
<1>9. active.size = IF m = 0 THEN 0 ELSE rs[m].position + rs[m].length
  BY <1>6, <1>8 DEF Shape
<1>10. rs = << >> <=> m = 0
  BY <1>4, <1>8
<1>11. active.size = FileSize(d[b])
  BY <1>8, <1>9, <1>10 DEF FileSize, Last
<1>12. active.size > 0 <=> m > 0
  <2>1. CASE m = 0
    BY <1>9, <2>1
  <2>2. CASE m # 0
    <3>1. m \in 1..Len(rs)
      BY <1>4, <1>8, <2>2
    <3>2. rs[m].position \in Nat /\ rs[m].length \in Nat \ {0}
      BY <1>4, <1>8, <3>1, RecordType
    <3> QED  BY <1>4, <1>8, <1>9, <2>2, <3>2
  <2> QED  BY <2>1, <2>2
<1> QED  BY <1>1, <1>2, <1>3, <1>4, <1>5, <1>7, <1>8, <1>11, <1>12

LEMMA PutType ==
  ASSUME NEW d, NEW b, NEW file \in File, d \in [DOMAIN d -> File]
  PROVE  Put(d, b, file) \in [DOMAIN d \cup {b} -> File]
BY DEF Put

\* A file that replaces the last one, and is no worse, keeps the disk in order.
LEMMA LastFileReplaced ==
  ASSUME NEW d, DiskInv(d), NEW b \in DOMAIN d, \A c \in DOMAIN d : c <= b,
         NEW file \in File, WellFormed(b, file.records)
  PROVE  DiskInv(Put(d, b, file))
<1>1. PICK e : e = Put(d, b, file)
  OBVIOUS
<1>2. /\ DOMAIN e = DOMAIN d /\ e[b] = file
      /\ \A c \in DOMAIN d : c # b => e[c] = d[c]
      /\ e \in [DOMAIN d -> File]
  <2>1. DOMAIN d \cup {b} = DOMAIN d
    OBVIOUS
  <2>2. d \in [DOMAIN d -> File]
    BY DEF DiskInv
  <2>3. e \in [DOMAIN d -> File]
    BY <1>1, <2>1, <2>2, PutType
  <2>4. /\ DOMAIN Put(d, b, file) = DOMAIN d /\ Put(d, b, file)[b] = file
        /\ \A c \in DOMAIN d : c # b => Put(d, b, file)[c] = d[c]
    BY DEF Put
  <2> QED  BY <1>1, <2>3, <2>4
<1>3. \A c \in DOMAIN d : c \in Nat
  BY FileTypes
<1>4. \A c \in DOMAIN e : WellFormed(c, e[c].records)
  BY <1>2 DEF DiskInv
<1>5. \A a, c \in DOMAIN e : a < c => a + Len(e[a].records) <= c
  <2> SUFFICES ASSUME NEW a \in DOMAIN d, NEW c \in DOMAIN d, a < c
               PROVE  a + Len(e[a].records) <= c
    BY <1>2
  <2>1. a # b
    BY <1>3
  <2> QED  BY <1>2, <2>1 DEF DiskInv
<1>6. ASSUME Orderly PROVE Contiguous(e)
  <2> SUFFICES ASSUME NEW a \in DOMAIN d
               PROVE  \/ \A c \in DOMAIN d : c <= a
                      \/ a + Len(e[a].records) \in DOMAIN d \ {a}
    BY <1>2 DEF Contiguous
  <2>1. CASE a = b
    BY <2>1
  <2>2. CASE a # b
    BY <1>2, <1>6, <2>2 DEF DiskInv, Contiguous
  <2> QED  BY <2>1, <2>2
<1>7. DOMAIN e \subseteq Nat /\ IsFiniteSet(DOMAIN e) /\ DOMAIN e # {}
  BY <1>2 DEF DiskInv
<1> QED  BY <1>1, <1>2, <1>4, <1>5, <1>6, <1>7 DEF DiskInv

\* Segment.append of the next record to the active segment.
LEMMA WrittenInv ==
  ASSUME NEW s, NEW n \in Nat, StoreInv(s, n), NEW length \in Payload
  PROVE  LET w == Written(s, n, length)
         IN  /\ StoreInv(w, n + 1)
             /\ w.segments[Len(w.segments)].size > 0
             /\ Grows(s.disk, w.disk)
<1>1. PICK d, ss, N, active, b, file :
        /\ d = s.disk /\ ss = s.segments /\ N = Len(ss) /\ active = ss[N]
        /\ b = active.base_offset /\ file = d[b]
  OBVIOUS
<1>2. DiskInv(d) /\ SegmentsInv(d, ss) /\ n = active.next_offset
  BY <1>1 DEF StoreInv
<1>3. /\ N \in Nat /\ N \in 1..N
      /\ active \in Segment
      /\ b \in DOMAIN d /\ b \in Nat /\ \A c \in DOMAIN d : c <= b
      /\ active = RecoveredSegment(b, file)
      /\ ~file.torn
      /\ n = b + Len(file.records)
      /\ active.size = FileSize(file)
  BY <1>1, <1>2, ActiveIsLast
<1>4. /\ file \in File /\ file.records \in Seq(Record) /\ Len(file.records) \in Nat
      /\ WellFormed(b, file.records)
  BY <1>1, <1>2, <1>3, FileTypes
<1>5. PICK r : r = [offset |-> n, position |-> FileSize(file), length |-> length]
  OBVIOUS
<1>6. FileSize(file) \in Nat
  BY <1>3, SegmentFields
<1>7. r \in Record /\ r.offset = n /\ r.position = FileSize(file) /\ r.length = length
  BY <1>5, <1>6 DEF Record
<1>8. PICK new : new = [file EXCEPT !.records = Append(file.records, r)]
  OBVIOUS
<1>9. PICK rs : rs = Append(file.records, r)
  OBVIOUS
<1>10. PICK m : m = Len(file.records)
  OBVIOUS
<1>11. /\ rs \in Seq(Record) /\ Len(rs) = m + 1 /\ m \in Nat
       /\ (\A k \in 1..m : rs[k] = file.records[k]) /\ rs[m + 1] = r
  BY <1>4, <1>7, <1>9, <1>10, AppendProperties
<1>12. new \in File /\ new.records = rs /\ ~new.torn
  BY <1>3, <1>4, <1>8, <1>9, <1>11 DEF File
<1>13. WellFormed(b, rs)
  <2>1. \A k \in 1..Len(rs) : rs[k].offset = b + k - 1
    <3> TAKE k \in 1..Len(rs)
    <3>1. CASE k = m + 1
      BY <1>3, <1>7, <1>10, <1>11, <3>1
    <3>2. CASE k # m + 1
      <4>1. k \in 1..m
        BY <1>11, <3>2
      <4> QED  BY <1>4, <1>10, <1>11, <4>1 DEF WellFormed
    <3> QED  BY <3>1, <3>2
  <2>2. file.records = << >> <=> m = 0
    BY <1>4, <1>10
  <2>3. rs[1].position = 0
    <3>1. CASE m = 0
      BY <1>7, <1>11, <2>2, <3>1 DEF FileSize
    <3>2. CASE m # 0
      <4>1. 1 \in 1..m /\ m > 0
        BY <1>11, <3>2
      <4> QED  BY <1>4, <1>10, <1>11, <4>1 DEF WellFormed
    <3> QED  BY <3>1, <3>2
  <2>4. \A k \in 2..Len(rs) : rs[k].position = rs[k - 1].position + rs[k - 1].length
    <3> TAKE k \in 2..Len(rs)
    <3>1. CASE k = m + 1
      <4>1. m # 0 /\ m \in 1..m /\ k - 1 = m
        BY <1>11, <3>1
      <4>2. r.position = rs[m].position + rs[m].length
        BY <1>7, <1>10, <1>11, <2>2, <4>1 DEF FileSize, Last
      <4> QED  BY <1>11, <3>1, <4>1, <4>2
    <3>2. CASE k # m + 1
      <4>1. k \in 2..m /\ k \in 1..m /\ k - 1 \in 1..m
        BY <1>11, <3>2
      <4>2. file.records[k].position = file.records[k - 1].position + file.records[k - 1].length
        BY <1>4, <1>10, <4>1 DEF WellFormed
      <4> QED  BY <1>11, <4>1, <4>2
    <3> QED  BY <3>1, <3>2
  <2> QED  BY <1>11, <2>1, <2>3, <2>4 DEF WellFormed
<1>14. PICK e, t, seg : /\ e = Put(d, b, new) /\ seg = Extended(active, n, active.size, length)
                        /\ t = [ss EXCEPT ![N] = seg]
  OBVIOUS
<1>15. Written(s, n, length) = [disk |-> e, segments |-> t]
  BY <1>1, <1>5, <1>8, <1>14 DEF Written, Last
<1>16. DiskInv(e)
  BY <1>2, <1>3, <1>12, <1>13, <1>14, LastFileReplaced
<1>17. /\ DOMAIN e = DOMAIN d /\ e[b] = new
       /\ \A c \in DOMAIN d : c # b => e[c] = d[c]
  <2>1. /\ DOMAIN Put(d, b, new) = DOMAIN d /\ Put(d, b, new)[b] = new
        /\ \A c \in DOMAIN d : c # b => Put(d, b, new)[c] = d[c]
    BY <1>3 DEF Put
  <2> QED  BY <1>14, <2>1
<1>18. seg = RecoveredSegment(b, new)
  BY <1>3, <1>4, <1>7, <1>9, <1>12, <1>14, RecoveredAppend
<1>19. Shape(seg, b, rs, m + 1)
  BY <1>3, <1>11, <1>12, <1>13, <1>18, RecoveredShape
<1>20. seg \in Segment /\ seg.base_offset = b /\ seg.next_offset = n + 1
  <2>1. seg \in Segment /\ seg.base_offset = b /\ seg.next_offset = b + (m + 1)
    BY <1>19 DEF Shape
  <2>2. b + (m + 1) = n + 1
    BY <1>3, <1>10, <1>11
  <2> QED  BY <2>1, <2>2
<1>21. /\ t \in Seq(Segment) /\ Len(t) = N /\ t[N] = seg
       /\ \A k \in 1..N : k # N => t[k] = ss[k]
  <2>1. ss \in Seq(Segment) /\ N \in 1..Len(ss)
    BY <1>1, <1>2, <1>3 DEF SegmentsInv
  <2> QED  BY <1>1, <1>14, <1>20, <2>1, ExceptSeq
<1>22. \A k \in 1..N : t[k].base_offset = ss[k].base_offset
  BY <1>1, <1>20, <1>21
<1>23. SegmentsInv(e, t)
  <2>1. ASSUME NEW k \in 1..N
        PROVE  /\ t[k].base_offset \in DOMAIN e
               /\ ~e[t[k].base_offset].torn
               /\ t[k] = RecoveredSegment(t[k].base_offset, e[t[k].base_offset])
    <3>1. CASE k = N
      BY <1>3, <1>12, <1>17, <1>18, <1>20, <1>21, <3>1
    <3>2. CASE k # N
      <4>1. k < N
        BY <1>3, <3>2
      <4>2. ss[k].base_offset < b
        BY <1>1, <1>2, <1>3, <4>1 DEF SegmentsInv
      <4>3. ss[k].base_offset \in DOMAIN d /\ ss[k].base_offset # b
        <5>1. ss[k].base_offset \in DOMAIN d
          BY <1>1, <1>2 DEF SegmentsInv
        <5>2. ss[k].base_offset \in Nat
          BY <1>2, <5>1, FileTypes
        <5> QED  BY <1>3, <4>2, <5>1, <5>2
      <4> QED  BY <1>1, <1>2, <1>17, <1>21, <3>2, <4>3, SMTT(40) DEF SegmentsInv
    <3> QED  BY <3>1, <3>2
  <2>2. \A k, l \in 1..N : k < l => t[k].base_offset < t[l].base_offset
    BY <1>1, <1>2, <1>22 DEF SegmentsInv
  <2>3. \A c \in DOMAIN e : \E k \in 1..N : t[k].base_offset = c
    <3>1. \A c \in DOMAIN d : \E k \in 1..N : ss[k].base_offset = c
      BY <1>1, <1>2 DEF SegmentsInv
    <3> QED  BY <1>17, <1>22, <3>1
  <2> QED  BY <1>3, <1>21, <2>1, <2>2, <2>3 DEF SegmentsInv
<1>24. StoreInv([disk |-> e, segments |-> t], n + 1)
  BY <1>16, <1>20, <1>21, <1>23 DEF StoreInv
<1>25. seg.size > 0
  <2>1. Len(e[b].records) > 0
    BY <1>11, <1>12, <1>17
  <2>2. t[Len(t)] = seg /\ seg.base_offset = b
    BY <1>20, <1>21
  <2> QED  BY <1>16, <1>23, <2>1, <2>2, ActiveIsLast
<1>26. Grows(d, e)
  <2>1. ASSUME NEW c \in DOMAIN d
        PROVE  /\ Len(d[c].records) <= Len(e[c].records)
               /\ \A k \in 1..Len(d[c].records) : e[c].records[k] = d[c].records[k]
    <3>1. CASE c = b
      <4>1. d[c].records = file.records /\ e[c].records = rs
        BY <1>1, <1>12, <1>17, <3>1
      <4>2. Len(file.records) = m /\ m <= m + 1
        BY <1>10, <1>11
      <4> QED  BY <1>11, <4>1, <4>2
    <3>2. CASE c # b
      <4>1. Len(d[c].records) \in Nat
        BY <1>2, FileTypes
      <4> QED  BY <1>17, <3>2, <4>1
    <3> QED  BY <3>1, <3>2
  <2>2. \A c \in DOMAIN e : c \in DOMAIN d /\ c <= c
    BY <1>2, <1>17, FileTypes
  <2> QED  BY <1>17, <2>1, <2>2 DEF Grows
<1> QED  BY <1>1, <1>15, <1>21, <1>24, <1>25, <1>26

\* _new_segment behind a segment that holds records: the file is a new one.
LEMMA RolledInv ==
  ASSUME NEW s, NEW n \in Nat, StoreInv(s, n), s.segments[Len(s.segments)].size > 0
  PROVE  /\ StoreInv(Rolled(s, n), n)
         /\ Grows(s.disk, Rolled(s, n).disk)
<1>1. PICK d, ss, N, b : /\ d = s.disk /\ ss = s.segments /\ N = Len(ss)
                         /\ b = ss[N].base_offset
  OBVIOUS
<1>2. DiskInv(d) /\ SegmentsInv(d, ss) /\ n = ss[N].next_offset /\ ss[N].size > 0
  BY <1>1 DEF StoreInv
<1>3. /\ N \in Nat /\ N \in 1..N /\ ss \in Seq(Segment)
      /\ b \in DOMAIN d /\ b \in Nat /\ \A c \in DOMAIN d : c <= b
      /\ n = b + Len(d[b].records) /\ Len(d[b].records) > 0
  <2>1. ss \in Seq(Segment)
    BY <1>2 DEF SegmentsInv
  <2> QED  BY <1>1, <1>2, <2>1, ActiveIsLast
<1>4. \A c \in DOMAIN d : c \in Nat /\ Len(d[c].records) \in Nat
  BY <1>2, FileTypes
<1>5. n > b /\ ~(n \in DOMAIN d) /\ \A c \in DOMAIN d : c < n
  BY <1>3, <1>4
<1>6. PICK e, t, seg : /\ e = Put(d, n, EmptyFile) /\ seg = FreshSegment(n)
                       /\ t = Append(ss, seg)
  OBVIOUS
<1>7. EmptyFile \in File /\ EmptyFile.records = << >> /\ ~EmptyFile.torn
  BY DEF EmptyFile, File
<1>8. RecoveredSegment(n, EmptyFile) = seg
  BY <1>6, <1>7, RecoveredEmpty
<1>9. Rolled(s, n) = [disk |-> e, segments |-> t]
  BY <1>1, <1>5, <1>6, <1>8 DEF Rolled
<1>10. /\ DOMAIN e = DOMAIN d \cup {n} /\ e[n] = EmptyFile
       /\ \A c \in DOMAIN d : e[c] = d[c]
  BY <1>5, <1>6 DEF Put
<1>11. seg \in Segment /\ seg.base_offset = n /\ seg.next_offset = n
  BY <1>6 DEF Segment, FreshSegment
<1>12. /\ t \in Seq(Segment) /\ Len(t) = N + 1 /\ t[N + 1] = seg
       /\ \A k \in 1..N : t[k] = ss[k]
  <2>1. ss \in Seq(Segment) /\ seg \in Segment /\ t = Append(ss, seg)
    BY <1>3, <1>6, <1>11
  <2>2. /\ t \in Seq(Segment) /\ Len(t) = Len(ss) + 1 /\ t[Len(ss) + 1] = seg
        /\ \A k \in 1..Len(ss) : t[k] = ss[k]
    BY <2>1, AppendProperties
  <2> QED  BY <1>1, <2>2
<1>13. WellFormed(n, EmptyFile.records) /\ Len(EmptyFile.records) = 0
  BY <1>7 DEF WellFormed
<1>14. DiskInv(e)
  <2>1. e \in [DOMAIN e -> File]
    <3>1. d \in [DOMAIN d -> File]
      BY <1>2 DEF DiskInv
    <3> QED  BY <1>6, <1>7, <1>10, <3>1, PutType
  <2>2. DOMAIN e \subseteq Nat /\ IsFiniteSet(DOMAIN e) /\ DOMAIN e # {}
    BY <1>2, <1>10, FS_AddElement, SMTT(40) DEF DiskInv
  <2>3. \A c \in DOMAIN e : WellFormed(c, e[c].records)
    BY <1>2, <1>10, <1>13 DEF DiskInv
  <2>4. ASSUME NEW a \in DOMAIN e, NEW c \in DOMAIN e, a < c
        PROVE  a + Len(e[a].records) <= c
    <3>1. a # n /\ a \in DOMAIN d
      BY <1>4, <1>5, <1>10, <2>4
    <3>2. CASE c = n
      <4>1. a = b \/ a < b
        BY <1>3, <1>4, <3>1
      <4>2. a < b => a + Len(d[a].records) <= b
        BY <1>2, <1>3, <3>1 DEF DiskInv
      <4> QED  BY <1>3, <1>4, <1>5, <1>10, <3>1, <3>2, <4>1, <4>2
    <3>3. CASE c # n
      BY <1>2, <1>10, <2>4, <3>1, <3>3 DEF DiskInv
    <3> QED  BY <3>2, <3>3
  <2>5. ASSUME Orderly PROVE Contiguous(e)
    <3> SUFFICES ASSUME NEW a \in DOMAIN e
                 PROVE  \/ \A c \in DOMAIN e : c <= a
                        \/ a + Len(e[a].records) \in DOMAIN e \ {a}
      BY DEF Contiguous
    <3>1. CASE a = n
      BY <1>4, <1>5, <1>10, <3>1
    <3>2. CASE a = b
      BY <1>3, <1>5, <1>10, <3>2
    <3>3. CASE a \in DOMAIN d /\ a # b
      <4>1. ~(\A c \in DOMAIN d : c <= a)
        BY <1>3, <1>4, <3>3
      <4>2. a + Len(d[a].records) \in DOMAIN d \ {a}
        BY <1>2, <2>5, <3>3, <4>1 DEF DiskInv, Contiguous
      <4> QED  BY <1>10, <3>3, <4>2
    <3> QED  BY <1>10, <3>1, <3>2, <3>3
  <2> QED  BY <2>1, <2>2, <2>3, <2>4, <2>5 DEF DiskInv
<1>15. SegmentsInv(e, t)
  <2>1. \A k \in 1..(N + 1) : k \in 1..N \/ k = N + 1
    BY <1>3
  <2>2. ASSUME NEW k \in 1..N
        PROVE  /\ t[k] = ss[k] /\ ss[k].base_offset \in DOMAIN d
               /\ ~d[ss[k].base_offset].torn
               /\ ss[k] = RecoveredSegment(ss[k].base_offset, d[ss[k].base_offset])
    BY <1>1, <1>2, <1>12 DEF SegmentsInv
  <2>3. ASSUME NEW k \in 1..(N + 1)
        PROVE  /\ t[k].base_offset \in DOMAIN e
               /\ ~e[t[k].base_offset].torn
               /\ t[k] = RecoveredSegment(t[k].base_offset, e[t[k].base_offset])
    <3>1. CASE k \in 1..N
      BY <1>10, <2>2, <3>1
    <3>2. CASE k = N + 1
      BY <1>7, <1>8, <1>10, <1>11, <1>12, <3>2
    <3> QED  BY <2>1, <3>1, <3>2
  <2>4. ASSUME NEW k \in 1..(N + 1), NEW l \in 1..(N + 1), k < l
        PROVE  t[k].base_offset < t[l].base_offset
    <3>1. k \in 1..N
      BY <1>3, <2>4
    <3>2. CASE l \in 1..N
      BY <1>1, <1>2, <2>2, <2>4, <3>1, <3>2 DEF SegmentsInv
    <3>3. CASE l = N + 1
      BY <1>5, <1>11, <1>12, <2>2, <3>1, <3>3
    <3> QED  BY <2>1, <3>2, <3>3
  <2>5. ASSUME NEW c \in DOMAIN e
        PROVE  \E k \in 1..(N + 1) : t[k].base_offset = c
    <3>1. CASE c = n
      <4>1. N + 1 \in 1..(N + 1)
        BY <1>3
      <4> QED  BY <1>11, <1>12, <3>1, <4>1
    <3>2. CASE c # n
      <4>1. c \in DOMAIN d
        BY <1>10, <3>2
      <4>2. PICK k \in 1..N : ss[k].base_offset = c
        BY <1>1, <1>2, <4>1 DEF SegmentsInv
      <4>3. k \in 1..(N + 1)
        BY <1>3
      <4> QED  BY <2>2, <4>2, <4>3
    <3> QED  BY <3>1, <3>2
  <2>6. N + 1 > 0
    BY <1>3
  <2> QED  BY <1>12, <2>3, <2>4, <2>5, <2>6 DEF SegmentsInv
<1>16. StoreInv([disk |-> e, segments |-> t], n)
  BY <1>11, <1>12, <1>14, <1>15 DEF StoreInv
<1>17. Grows(d, e)
  <2>1. \A c \in DOMAIN e : \E a \in DOMAIN d : a <= c
    BY <1>3, <1>4, <1>5, <1>10
  <2>2. \A a \in DOMAIN d : Len(d[a].records) <= Len(e[a].records)
    BY <1>4, <1>10
  <2> QED  BY <1>10, <2>1, <2>2 DEF Grows
<1> QED  BY <1>1, <1>9, <1>16, <1>17

\* A torn write adds invalid bytes and no record.
LEMMA TornInv ==
  ASSUME NEW s, NEW n, StoreInv(s, n)
  PROVE  DiskInv(Torn(s)) /\ Grows(s.disk, Torn(s))
<1>1. PICK d, ss, b, file : /\ d = s.disk /\ ss = s.segments /\ b = ss[Len(ss)].base_offset
                            /\ file = [d[b] EXCEPT !.torn = TRUE]
  OBVIOUS
<1>2. DiskInv(d) /\ SegmentsInv(d, ss)
  BY <1>1 DEF StoreInv
<1>3. b \in DOMAIN d /\ \A c \in DOMAIN d : c <= b
  BY <1>1, <1>2, ActiveIsLast
<1>4. d[b] \in File /\ WellFormed(b, d[b].records)
  BY <1>2, <1>3, FileTypes
<1>5. file \in File /\ file.records = d[b].records
  BY <1>1, <1>4 DEF File
<1>6. PICK e : e = Put(d, b, file)
  OBVIOUS
<1>7. Torn(s) = e
  BY <1>1, <1>6 DEF Torn, Last
<1>8. DiskInv(e)
  BY <1>2, <1>3, <1>4, <1>5, <1>6, LastFileReplaced
<1>9. DOMAIN e = DOMAIN d /\ \A c \in DOMAIN d : e[c].records = d[c].records
  BY <1>3, <1>5, <1>6 DEF Put
<1>10. Grows(d, e)
  <2>1. \A c \in DOMAIN d : c \in Nat /\ Len(d[c].records) \in Nat
    BY <1>2, FileTypes
  <2> QED  BY <1>9, <2>1 DEF Grows
<1> QED  BY <1>1, <1>7, <1>8, <1>10

-----------------------------------------------------------------------------
(* Batches *)

LEMMA AppendedExists ==
  ASSUME NEW batch, NEW many, NEW n \in Nat
  PROVE  \E a : a = [k \in 0..n |->
                       IF k = 0 THEN Store
                       ELSE Written(Prepared(a[k - 1], k, batch[k], many),
                                    next_offset + k - 1, batch[k])]
<1> DEFINE Is(a, m) == a = [k \in 0..m |->
                              IF k = 0 THEN Store
                              ELSE Written(Prepared(a[k - 1], k, batch[k], many),
                                           next_offset + k - 1, batch[k])]
           Bad == {m \in Nat : ~\E a : Is(a, m)}
<1> SUFFICES ASSUME Bad # {} PROVE FALSE
  BY Zenon
<1>1. PICK m \in Bad : \A y \in Bad : m <= y
  <2>1. Bad \subseteq Nat
    OBVIOUS
  <2> HIDE DEF Bad
  <2> QED  BY <2>1, LeastExists
<1>2. CASE m = 0
  <2> DEFINE a == [k \in 0..0 |-> Store]
  <2>1. Is(a, 0)
    <3>1. \A k \in 0..0 : k = 0
      OBVIOUS
    <3> QED  BY <3>1, Zenon
  <2> HIDE DEF Is
  <2> QED  BY <1>1, <1>2, <2>1, Zenon
<1>3. CASE m # 0
  <2>1. m \in Nat /\ m - 1 \in Nat /\ ~(m <= m - 1)
    BY <1>3
  <2>2. PICK a : Is(a, m - 1)
    <3> HIDE DEF Is
    <3> QED  BY <1>1, <2>1, Zenon
  <2> DEFINE w(k, x) == Written(Prepared(x, k, batch[k], many), next_offset + k - 1, batch[k])
             h == [k \in 0..m |-> IF k = m THEN w(m, a[m - 1]) ELSE a[k]]
  <2>3. \A k \in 0..m : k # 0 => k - 1 \in 0..m /\ k - 1 # m
    BY <2>1
  <2>4. \A k \in 0..m : k # m => k \in 0..(m - 1)
    BY <2>1
  <2>5. \A k \in 0..(m - 1) : a[k] = IF k = 0 THEN Store ELSE w(k, a[k - 1])
    BY <2>2, Zenon
  <2> HIDE DEF w
  <2>6. \A k \in 0..m : k # 0 => h[k - 1] = a[k - 1]
    BY <2>3, Zenon
  <2>7. \A k \in 0..m : (IF k = m THEN w(m, a[m - 1]) ELSE a[k]) =
                          IF k = 0 THEN Store ELSE w(k, h[k - 1])
    <3> TAKE k \in 0..m
    <3>1. CASE k = m
      BY <1>3, <2>6, <3>1, Zenon
    <3>2. CASE k # m
      <4> HIDE DEF h
      <4> QED  BY <2>4, <2>5, <2>6, <3>2, Zenon
    <3> QED  BY <3>1, <3>2
  <2>8. h = [k \in 0..m |-> IF k = 0 THEN Store ELSE w(k, h[k - 1])]
    BY <2>7, Zenon
  <2>9. Is(h, m)
    <3> HIDE DEF h
    <3> QED  BY <2>8, Zenon DEF w
  <2> HIDE DEF Is, h
  <2> QED  BY <1>1, <2>9, Zenon
<1> QED  BY <1>2, <1>3

\* The stores after each record of a batch.
LEMMA AppendedUnfolds ==
  ASSUME NEW batch, NEW many, Len(batch) \in Nat
  PROVE  /\ Appended(batch, many)[0] = Store
         /\ \A k \in 1..Len(batch) :
              Appended(batch, many)[k] =
                Written(Prepared(Appended(batch, many)[k - 1], k, batch[k], many),
                        next_offset + k - 1, batch[k])
<1> DEFINE Is(a) == a = [k \in 0..Len(batch) |->
                           IF k = 0 THEN Store
                           ELSE Written(Prepared(a[k - 1], k, batch[k], many),
                                        next_offset + k - 1, batch[k])]
<1>1. \E a : Is(a)
  BY AppendedExists
<1>2. Appended(batch, many) = CHOOSE a : Is(a)
  BY Zenon DEF Appended
<1>3. PICK a : a = Appended(batch, many) /\ Is(a)
  <2> HIDE DEF Is
  <2> QED  BY <1>1, <1>2, Zenon
<1>4. \A k \in 0..Len(batch) :
        a[k] = IF k = 0 THEN Store
               ELSE Written(Prepared(a[k - 1], k, batch[k], many), next_offset + k - 1, batch[k])
  BY <1>3, Zenon
<1>5. 0 \in 0..Len(batch) /\ \A k \in 1..Len(batch) : k \in 0..Len(batch) /\ k # 0
  OBVIOUS
<1> QED  BY <1>3, <1>4, <1>5, Zenon

\* A roll comes only behind a segment that holds records.
LEMMA PreparedInv ==
  ASSUME NEW s, NEW k \in Nat \ {0}, NEW length \in Payload, NEW many \in BOOLEAN,
         next_offset \in Nat, StoreInv(s, next_offset + k - 1),
         k > 1 => s.segments[Len(s.segments)].size > 0
  PROVE  /\ StoreInv(Prepared(s, k, length, many), next_offset + k - 1)
         /\ Grows(s.disk, Prepared(s, k, length, many).disk)
<1>1. CASE ~RollsBefore(s, k, length, many)
  BY <1>1, GrowsReflexive DEF Prepared, StoreInv
<1>2. CASE RollsBefore(s, k, length, many)
  <2>1. s.segments[Len(s.segments)].size > 0
    <3>1. s.segments[Len(s.segments)].size \in Nat
      BY ActiveIsLast, SegmentFields DEF StoreInv
    <3> QED  BY <1>2, <3>1, CommitLogAssumption DEF RollsBefore, Last
  <2>2. Prepared(s, k, length, many) = Rolled(s, next_offset + k - 1)
    BY <1>2 DEF Prepared
  <2>3. next_offset + k - 1 \in Nat
    OBVIOUS
  <2> QED  BY <2>1, <2>2, <2>3, RolledInv
<1> QED  BY <1>1, <1>2

LEMMA AppendedInv ==
  ASSUME NEW batch \in Seq(Payload), NEW many \in BOOLEAN, next_offset \in Nat,
         StoreInv(Store, next_offset), NEW k \in 0..Len(batch)
  PROVE  LET s == Appended(batch, many)[k]
         IN  /\ StoreInv(s, next_offset + k)
             /\ Grows(disk, s.disk)
             /\ k > 0 => s.segments[Len(s.segments)].size > 0
<1>0. PICK a : a = Appended(batch, many)
  OBVIOUS
<1> DEFINE P(m) == /\ StoreInv(a[m], next_offset + m)
                   /\ Grows(disk, a[m].disk)
                   /\ m > 0 => a[m].segments[Len(a[m].segments)].size > 0
           Bad == {m \in 0..Len(batch) : ~P(m)}
<1> SUFFICES ASSUME Bad # {} PROVE FALSE
  BY <1>0
<1>1. PICK m \in Bad : \A y \in Bad : m <= y
  <2>1. Bad \subseteq Nat
    OBVIOUS
  <2> HIDE DEF Bad
  <2> QED  BY <2>1, LeastExists
<1>2. Len(batch) \in Nat /\ DiskInv(disk)
  BY DEF StoreInv, Store
<1>3. m # 0
  <2>1. a[0] = Store
    BY <1>0, <1>2, AppendedUnfolds
  <2>2. P(0)
    BY <1>2, <2>1, GrowsReflexive DEF Store
  <2> HIDE DEF P
  <2> QED  BY <1>1, <2>2
<1>4. /\ m \in Nat \ {0} /\ m \in 1..Len(batch) /\ m - 1 \in 0..Len(batch) /\ ~(m <= m - 1)
      /\ m - 1 \in Nat
  BY <1>2, <1>1, <1>3
<1>5. P(m - 1)
  <2> HIDE DEF P
  <2> QED  BY <1>1, <1>4, Zenon
<1>6. PICK s : s = a[m - 1]
  OBVIOUS
<1>7. batch[m] \in Payload
  BY <1>4
<1>8. PICK p, n : p = Prepared(s, m, batch[m], many) /\ n = next_offset + m - 1
  OBVIOUS
<1>9. a[m] = Written(p, n, batch[m])
  <2>1. a[m] = Written(Prepared(a[m - 1], m, batch[m], many), next_offset + m - 1, batch[m])
    BY <1>0, <1>2, <1>4, AppendedUnfolds
  <2> QED  BY <1>6, <1>8, <2>1
<1>10. n \in Nat /\ next_offset + (m - 1) = n /\ n + 1 = next_offset + m /\ (m > 1 => m - 1 > 0)
  BY <1>4, <1>8
<1>11. /\ StoreInv(s, n) /\ Grows(disk, s.disk)
       /\ m > 1 => s.segments[Len(s.segments)].size > 0
  BY <1>5, <1>6, <1>10
<1>12. StoreInv(p, n) /\ Grows(s.disk, p.disk)
  BY <1>4, <1>7, <1>8, <1>11, PreparedInv
<1>13. /\ StoreInv(a[m], n + 1) /\ Grows(p.disk, a[m].disk)
       /\ a[m].segments[Len(a[m].segments)].size > 0
  BY <1>7, <1>9, <1>10, <1>12, WrittenInv
<1>14. Grows(disk, a[m].disk)
  <2>1. DiskInv(s.disk) /\ DiskInv(p.disk) /\ DiskInv(a[m].disk)
    BY <1>11, <1>12, <1>13 DEF StoreInv
  <2>2. Grows(disk, p.disk)
    BY <1>2, <1>11, <1>12, <2>1, GrowsTransitive
  <2> QED  BY <1>2, <1>13, <2>1, <2>2, GrowsTransitive
<1>15. P(m)
  BY <1>10, <1>13, <1>14
<1> QED  BY <1>1, <1>15

-----------------------------------------------------------------------------
(* Deleted, cut and damaged files *)

LEMMA KeptBases ==
  ASSUME SegmentsInv(disk, segments), NEW K, K \subseteq 1..Len(segments), NEW c
  PROVE  c \in DOMAIN disk \ Bases(K) <=>
           \E k \in 1..Len(segments) : ~(k \in K) /\ segments[k].base_offset = c
<1>1. PICK N : N = Len(segments) /\ N \in Nat
  BY DEF SegmentsInv
<1>2. ASSUME NEW k \in 1..N, NEW l \in 1..N, segments[k].base_offset = segments[l].base_offset
      PROVE  k = l
  <2>1. segments[k].base_offset \in Nat /\ segments[l].base_offset \in Nat
    BY <1>1, SegmentFields DEF SegmentsInv
  <2>2. ~(k < l) /\ ~(l < k)
    BY <1>1, <1>2, <2>1 DEF SegmentsInv
  <2> QED  BY <1>1, <2>2
<1>3. ASSUME c \in DOMAIN disk, ~(c \in Bases(K))
      PROVE  \E k \in 1..N : ~(k \in K) /\ segments[k].base_offset = c
  <2>1. PICK k \in 1..N : segments[k].base_offset = c
    BY <1>1, <1>3 DEF SegmentsInv
  <2> QED  BY <1>3, <2>1 DEF Bases
<1>4. ASSUME NEW k \in 1..N, ~(k \in K), segments[k].base_offset = c
      PROVE  c \in DOMAIN disk /\ ~(c \in Bases(K))
  <2>1. c \in DOMAIN disk
    BY <1>1, <1>4 DEF SegmentsInv
  <2>2. ~(c \in Bases(K))
    BY <1>1, <1>2, <1>4 DEF Bases
  <2> QED  BY <2>1, <2>2
<1> QED  BY <1>1, <1>3, <1>4

\* Deleting files keeps a disk in order, provided that the ones it keeps are
\* neighbours where the disk has no gaps.
LEMMA DeletedInv ==
  ASSUME DiskInv(disk), SegmentsInv(disk, segments),
         NEW K, K \subseteq 1..Len(segments), NEW z \in 1..Len(segments), ~(z \in K),
         Orderly => \A i, j, l \in 1..Len(segments) :
                      i <= l /\ l <= j /\ ~(i \in K) /\ ~(j \in K) => ~(l \in K)
  PROVE  /\ DiskInv(Delete(disk, Bases(K)))
         /\ Records(Delete(disk, Bases(K))) \subseteq Records(disk)
<1>1. PICK e : e = Delete(disk, Bases(K))
  OBVIOUS
<1>2. DOMAIN e = DOMAIN disk \ Bases(K) /\ \A b \in DOMAIN e : e[b] = disk[b]
  BY <1>1 DEF Delete
<1>3. DOMAIN e \subseteq DOMAIN disk
  BY <1>2
<1>4. e \in [DOMAIN e -> File]
  <2>1. \A b \in DOMAIN disk : disk[b] \in File
    BY FileTypes
  <2>2. e = [b \in DOMAIN e |-> e[b]]
    BY <1>1 DEF Delete
  <2> QED  BY <1>2, <1>3, <2>1, <2>2
<1>5. DOMAIN e \subseteq Nat /\ IsFiniteSet(DOMAIN e)
  BY <1>3, FS_Subset DEF DiskInv
<1>6. DOMAIN e # {}
  <2>1. segments[z].base_offset \in DOMAIN disk \ Bases(K)
    BY KeptBases
  <2> QED  BY <1>2, <2>1
<1>7. \A b \in DOMAIN e : WellFormed(b, e[b].records)
  BY <1>2, <1>3 DEF DiskInv
<1>8. \A b, c \in DOMAIN e : b < c => b + Len(e[b].records) <= c
  BY <1>2, <1>3 DEF DiskInv
<1>9. ASSUME Orderly PROVE Contiguous(e)
  <2> SUFFICES ASSUME NEW b \in DOMAIN e, NEW c \in DOMAIN e, ~(c <= b)
               PROVE  b + Len(e[b].records) \in DOMAIN e \ {b}
    BY DEF Contiguous
  <2>1. b \in DOMAIN disk /\ c \in DOMAIN disk /\ b \in Nat /\ c \in Nat /\ e[b] = disk[b]
    BY <1>2, <1>3, FileTypes
  <2>2. PICK x : x = b + Len(disk[b].records)
    OBVIOUS
  <2>3. x \in DOMAIN disk /\ x # b
    BY <1>9, <2>1, <2>2 DEF DiskInv, Contiguous
  <2>4. b <= x /\ x <= c /\ x \in Nat
    <3>1. Len(disk[b].records) \in Nat
      BY <2>1, FileTypes
    <3>2. b + Len(disk[b].records) <= c
      BY <2>1 DEF DiskInv
    <3> QED  BY <2>1, <2>2, <3>1, <3>2
  <2>5. PICK i \in 1..Len(segments) : ~(i \in K) /\ segments[i].base_offset = b
    BY <1>2, KeptBases
  <2>6. PICK j \in 1..Len(segments) : ~(j \in K) /\ segments[j].base_offset = c
    BY <1>2, KeptBases
  <2>7. PICK l \in 1..Len(segments) : segments[l].base_offset = x
    BY <2>3 DEF SegmentsInv
  <2>8. i <= l /\ l <= j
    <3>1. Len(segments) \in Nat
      BY DEF SegmentsInv
    <3>2. l < i => x < b
      BY <2>5, <2>7 DEF SegmentsInv
    <3>3. j < l => c < x
      BY <2>6, <2>7 DEF SegmentsInv
    <3> QED  BY <2>1, <2>4, <3>1, <3>2, <3>3
  <2>9. ~(l \in K)
    BY <1>9, <2>5, <2>6, <2>8
  <2>10. x \in DOMAIN e
    BY <1>2, <2>7, <2>9, KeptBases
  <2> QED  BY <2>1, <2>2, <2>3, <2>10
<1>10. DiskInv(e)
  BY <1>4, <1>5, <1>6, <1>7, <1>8, <1>9 DEF DiskInv
<1>11. Records(e) \subseteq Records(disk)
  BY <1>2, <1>3 DEF Records
<1> QED  BY <1>1, <1>10, <1>11

\* A record that goes bad takes the rest of its file with it.
LEMMA DamagedInv ==
  ASSUME DiskInv(disk), ~Orderly, NEW e \in Damaged
  PROVE  DiskInv(e)
<1>0. PICK b \in DOMAIN disk : \E n \in 1..Len(disk[b].records) :
        e = Put(disk, b, [records |-> SubSeq(disk[b].records, 1, n - 1), torn |-> TRUE])
  BY DEF Damaged
<1>1. PICK n \in 1..Len(disk[b].records) :
        e = Put(disk, b, [records |-> SubSeq(disk[b].records, 1, n - 1), torn |-> TRUE])
  BY <1>0
<1>2. PICK rs, file : rs = SubSeq(disk[b].records, 1, n - 1)
                      /\ file = [records |-> rs, torn |-> TRUE]
  OBVIOUS
<1>3. WellFormed(b, disk[b].records) /\ b \in Nat /\ Len(disk[b].records) \in Nat
  BY FileTypes
<1>4. n - 1 \in 0..Len(disk[b].records)
  BY <1>3
<1>5. WellFormed(b, rs) /\ Len(rs) <= Len(disk[b].records) /\ Len(rs) \in Nat
  BY <1>2, <1>3, <1>4, PrefixWellFormed
<1>6. file \in File /\ file.records = rs
  BY <1>2, <1>5 DEF File, WellFormed
<1>7. /\ DOMAIN e = DOMAIN disk /\ e[b] = file
      /\ \A c \in DOMAIN disk : c # b => e[c] = disk[c]
  BY <1>1, <1>2 DEF Put
<1>8. e \in [DOMAIN e -> File]
  <2>1. DOMAIN disk \cup {b} = DOMAIN disk
    OBVIOUS
  <2>2. disk \in [DOMAIN disk -> File]
    BY DEF DiskInv
  <2> QED  BY <1>1, <1>2, <1>6, <1>7, <2>1, <2>2, PutType
<1>9. \A c \in DOMAIN e : WellFormed(c, e[c].records)
  BY <1>5, <1>6, <1>7 DEF DiskInv
<1>10. ASSUME NEW a \in DOMAIN e, NEW c \in DOMAIN e, a < c
       PROVE  a + Len(e[a].records) <= c
  <2>1. a + Len(disk[a].records) <= c /\ a \in Nat /\ c \in Nat /\ Len(disk[a].records) \in Nat
    BY <1>7, <1>10, FileTypes DEF DiskInv
  <2>2. CASE a = b
    BY <1>5, <1>6, <1>7, <2>1, <2>2
  <2>3. CASE a # b
    BY <1>7, <2>1, <2>3
  <2> QED  BY <2>2, <2>3
<1> QED  BY <1>7, <1>8, <1>9, <1>10 DEF DiskInv

-----------------------------------------------------------------------------
(* The inductive invariant, and what each action does to it *)

LogInv ==
  /\ DiskInv(disk)
  /\ next_offset \in Nat
  /\ Opened => StoreInv(Store, next_offset)

LEMMA OpenedInv ==
  ASSUME LogInv, Opened
  PROVE  /\ StoreInv(Store, next_offset) /\ DiskInv(disk) /\ SegmentsInv(disk, segments)
         /\ segments \in Seq(Segment) /\ Len(segments) \in Nat /\ Len(segments) > 0
         /\ next_offset = segments[Len(segments)].next_offset /\ next_offset \in Nat
<1>1. StoreInv(Store, next_offset) /\ DiskInv(disk) /\ next_offset \in Nat
  BY DEF LogInv
<1>2. SegmentsInv(disk, segments) /\ next_offset = segments[Len(segments)].next_offset
  BY <1>1 DEF StoreInv, Store
<1>3. segments \in Seq(Segment) /\ Len(segments) > 0
  BY <1>2 DEF SegmentsInv
<1> QED  BY <1>1, <1>2, <1>3

LEMMA InitInv == Init => LogInv
<1> SUFFICES ASSUME Init PROVE LogInv
  OBVIOUS
<1>1. /\ DOMAIN disk = {0} /\ disk[0] = EmptyFile /\ segments = <<FreshSegment(0)>>
      /\ next_offset = 0 /\ disk \in [{0} -> {EmptyFile}]
  BY DEF Init
<1>2. EmptyFile \in File /\ EmptyFile.records = << >> /\ ~EmptyFile.torn
  BY DEF EmptyFile, File
<1>3. FreshSegment(0) \in Segment /\ FreshSegment(0).base_offset = 0
      /\ FreshSegment(0).next_offset = 0
  BY DEF FreshSegment, Segment
<1>4. RecoveredSegment(0, EmptyFile) = FreshSegment(0)
  BY <1>2, RecoveredEmpty
<1>5. DiskInv(disk)
  <2>1. IsFiniteSet({0})
    BY FS_Singleton
  <2>2. WellFormed(0, EmptyFile.records)
    BY <1>2 DEF WellFormed
  <2>3. Contiguous(disk)
    BY <1>1 DEF Contiguous
  <2>4. disk \in [{0} -> File]
    BY <1>1, <1>2
  <2> QED  BY <1>1, <2>1, <2>2, <2>3, <2>4 DEF DiskInv
<1>6. PICK seg : seg = FreshSegment(0)
  OBVIOUS
<1>7. segments \in Seq(Segment) /\ Len(segments) = 1 /\ segments[1] = seg
  BY <1>1, <1>3, <1>6
<1>8. SegmentsInv(disk, segments)
  <2>1. \A k \in 1..1 : k = 1
    OBVIOUS
  <2>2. 1 \in 1..1 /\ \A k, l \in 1..1 : ~(k < l)
    OBVIOUS
  <2>3. ~disk[0].torn /\ seg = RecoveredSegment(0, disk[0]) /\ seg.base_offset = 0 /\ 0 \in DOMAIN disk
    BY <1>1, <1>2, <1>3, <1>4, <1>6
  <2>4. \A k \in 1..1 :
          /\ segments[k].base_offset \in DOMAIN disk
          /\ ~disk[segments[k].base_offset].torn
          /\ segments[k] = RecoveredSegment(segments[k].base_offset, disk[segments[k].base_offset])
    BY <1>7, <2>1, <2>3
  <2>5. \A c \in DOMAIN disk : \E k \in 1..1 : segments[k].base_offset = c
    BY <1>1, <1>7, <2>2, <2>3
  <2> QED  BY <1>7, <2>2, <2>4, <2>5 DEF SegmentsInv
<1>9. StoreInv(Store, next_offset)
  BY <1>1, <1>3, <1>5, <1>6, <1>7, <1>8 DEF StoreInv, Store
<1> QED  BY <1>1, <1>5, <1>9 DEF LogInv

LEMMA BatchType ==
  ASSUME NEW batch \in Batches
  PROVE  batch \in Seq(Payload) /\ Len(batch) \in 1..MaxBatch
<1>1. PICK n \in 1..MaxBatch : batch \in [1..n -> Payload]
  BY DEF Batches
<1>2. n \in Nat
  BY CommitLogAssumption
<1> QED  BY <1>1, <1>2

\* A batch, of one record or more, that is written to the end.
LEMMA AppendStep ==
  ASSUME LogInv, Opened, NEW batch \in Seq(Payload), NEW many \in BOOLEAN,
         disk' = Appended(batch, many)[Len(batch)].disk,
         segments' = Appended(batch, many)[Len(batch)].segments,
         next_offset' = next_offset + Len(batch)
  PROVE  LogInv' /\ Grows(disk, disk')
<1>1. StoreInv(Store, next_offset) /\ next_offset \in Nat
  BY OpenedInv
<1>2. Len(batch) \in Nat /\ Len(batch) \in 0..Len(batch)
  OBVIOUS
<1>3. PICK s : s = Appended(batch, many)[Len(batch)]
  OBVIOUS
<1>4. StoreInv(s, next_offset + Len(batch)) /\ Grows(disk, s.disk)
  BY <1>1, <1>2, <1>3, AppendedInv
<1>5. StoreInv(Store, next_offset)'
  BY <1>3, <1>4 DEF StoreInv, Store
<1>6. DiskInv(disk') /\ next_offset' \in Nat
  BY <1>1, <1>2, <1>3, <1>4 DEF StoreInv
<1> QED  BY <1>3, <1>4, <1>5, <1>6 DEF LogInv

LEMMA AppendRecordStep ==
  ASSUME LogInv, NEW length \in Payload, AppendRecord(length)
  PROVE  LogInv' /\ Grows(disk, disk')
<1>1. PICK batch : batch = <<length>>
  OBVIOUS
<1>2. batch \in Seq(Payload) /\ Len(batch) = 1
  BY <1>1
<1>3. /\ disk' = Appended(batch, FALSE)[Len(batch)].disk
      /\ segments' = Appended(batch, FALSE)[Len(batch)].segments
      /\ next_offset' = next_offset + Len(batch) /\ Opened
  BY <1>1, <1>2 DEF AppendRecord
<1> QED  BY <1>2, <1>3, AppendStep

LEMMA AppendManyStep ==
  ASSUME LogInv, NEW batch \in Batches, AppendMany(batch)
  PROVE  LogInv' /\ Grows(disk, disk')
<1>1. batch \in Seq(Payload)
  BY BatchType
<1>2. /\ disk' = Appended(batch, TRUE)[Len(batch)].disk
      /\ segments' = Appended(batch, TRUE)[Len(batch)].segments
      /\ next_offset' = next_offset + Len(batch) /\ Opened
  BY DEF AppendMany
<1> QED  BY <1>1, <1>2, AppendStep

\* SegmentOf is the last segment at or below the offset.
LEMMA SegmentOfIs ==
  ASSUME LogInv, Opened, NEW offset \in Nat
  PROVE  /\ SegmentOf(offset) \in 0..Len(segments)
         /\ SegmentOf(offset) # 0 => segments[SegmentOf(offset)].base_offset <= offset
         /\ \A k \in 1..Len(segments) :
              segments[k].base_offset <= offset => k <= SegmentOf(offset)
<1> DEFINE below == {k \in 1..Len(segments) : segments[k].base_offset <= offset}
<1>1. SegmentOf(offset) = IF below = {} THEN 0 ELSE MaxIn(below)
  BY DEF SegmentOf
<1>2. Len(segments) \in Nat
  BY OpenedInv
<1>3. CASE below = {}
  BY <1>1, <1>2, <1>3
<1>4. CASE below # {}
  <2>1. below \subseteq 1..Len(segments) /\ below \subseteq Int /\ 1 \in Int /\ Len(segments) \in Int
    BY <1>2
  <2>2. PICK m \in below : \A y \in below : y <= m
    <3> HIDE DEF below
    <3> QED  BY <1>4, <2>1, GreatestExists
  <2>3. MaxIn(below) = m
    <3> HIDE DEF below
    <3> QED  BY <2>1, <2>2, MaxInIs
  <2>4. SegmentOf(offset) = m
    BY <1>1, <1>4, <2>3
  <2>5. m \in 1..Len(segments) /\ segments[m].base_offset <= offset
    BY <2>2
  <2>6. \A k \in 1..Len(segments) : segments[k].base_offset <= offset => k <= m
    BY <2>2
  <2> QED  BY <1>2, <2>4, <2>5, <2>6
<1> QED  BY <1>3, <1>4

\* The log loses records at its end, and only there.
CutsEnd(d, e) ==
  /\ Records(e) \subseteq Records(d)
  /\ DOMAIN e \subseteq DOMAIN d
  /\ \A c \in DOMAIN d : \E b \in DOMAIN e : b <= c

\* The log loses its first files, and keeps the last one as it is.
CutsFront(d, e) ==
  /\ Records(e) \subseteq Records(d)
  /\ DOMAIN e \subseteq DOMAIN d
  /\ \E z \in DOMAIN e : (\A c \in DOMAIN d : c <= z) /\ e[z] = d[z]

LEMMA TruncateFromStep ==
  ASSUME LogInv, NEW offset \in 0..MaxOffset, TruncateFrom(offset)
  PROVE  LogInv' /\ CutsEnd(disk, disk')
<1>1. Opened /\ SegmentOf(offset) # 0
  BY DEF TruncateFrom
<1>2. offset \in Nat
  BY CommitLogAssumption
<1>3. /\ DiskInv(disk) /\ SegmentsInv(disk, segments)
      /\ segments \in Seq(Segment) /\ Len(segments) \in Nat /\ Len(segments) > 0
  BY <1>1, OpenedInv
<1>4. PICK k, N : k = SegmentOf(offset) /\ N = Len(segments) /\ k \in 1..N /\ N \in Nat
  <2>1. SegmentOf(offset) \in 0..Len(segments)
    BY <1>1, <1>2, SegmentOfIs
  <2> QED  BY <1>1, <1>3, <2>1
<1>5. PICK seg, b, file : seg = segments[k] /\ b = seg.base_offset /\ file = disk[b]
  OBVIOUS
<1>6. b \in DOMAIN disk /\ ~file.torn /\ seg = RecoveredSegment(b, file)
  BY <1>3, <1>4, <1>5 DEF SegmentsInv
<1>7. b \in Nat /\ file \in File /\ WellFormed(b, file.records) /\ Len(file.records) \in Nat
  BY <1>3, <1>5, <1>6, FileTypes
<1>8. PICK new, cut : new = TruncatedFile(seg, file, offset) /\ cut = TruncatedSegment(seg, file, offset)
  OBVIOUS
<1>9. PICK n \in 0..Len(file.records) :
        /\ new \in File /\ ~new.torn /\ new.records = SubSeq(file.records, 1, n)
        /\ cut = RecoveredSegment(b, new)
  BY <1>2, <1>6, <1>7, <1>8, TruncatedIs, ZenonT(40)
<1>10. /\ WellFormed(b, new.records) /\ Len(new.records) = n
       /\ \A i \in 1..n : new.records[i] = file.records[i]
  BY <1>7, <1>9, PrefixWellFormed
<1>11. PICK K, d : K = (k + 1)..N /\ d = Delete(disk, Bases(K))
  OBVIOUS
<1>12. PICK e, t : e = Put(d, b, new) /\ t = [SubSeq(segments, 1, k) EXCEPT ![k] = cut]
  OBVIOUS
<1>13. disk' = e /\ segments' = t /\ next_offset' = Last(t).next_offset
  BY <1>4, <1>5, <1>8, <1>11, <1>12 DEF TruncateFrom
<1>14. /\ K \subseteq 1..Len(segments) /\ ~(k \in K)
       /\ \A i \in 1..N : ~(i \in K) <=> i <= k
  BY <1>4, <1>11
<1>15. DiskInv(d) /\ Records(d) \subseteq Records(disk)
  <2>1. \A i, j, l \in 1..Len(segments) :
          i <= l /\ l <= j /\ ~(i \in K) /\ ~(j \in K) => ~(l \in K)
    BY <1>4, <1>14
  <2>2. k \in 1..Len(segments)
    BY <1>4
  <2> QED  BY <1>3, <1>11, <1>14, <2>1, <2>2, DeletedInv
<1>16. /\ DOMAIN d = DOMAIN disk \ Bases(K) /\ \A c \in DOMAIN d : d[c] = disk[c]
  BY <1>11 DEF Delete
<1>17. \A i \in 1..k : segments[i].base_offset \in DOMAIN d
  <2> SUFFICES ASSUME NEW i \in 1..k PROVE segments[i].base_offset \in DOMAIN d
    OBVIOUS
  <2>1. i \in 1..Len(segments) /\ ~(i \in K)
    BY <1>4, <1>14
  <2> QED  BY <1>3, <1>14, <1>16, <2>1, KeptBases
<1>18. \A c \in DOMAIN d : \E i \in 1..k : segments[i].base_offset = c
  <2> TAKE c \in DOMAIN d
  <2>1. PICK i \in 1..Len(segments) : ~(i \in K) /\ segments[i].base_offset = c
    BY <1>3, <1>14, <1>16, KeptBases
  <2>2. i \in 1..k
    BY <1>4, <1>14, <2>1
  <2> QED  BY <2>1, <2>2
<1>19. b \in DOMAIN d /\ \A c \in DOMAIN d : c <= b
  <2>1. b \in DOMAIN d
    <3>1. k \in 1..k
      BY <1>4
    <3> QED  BY <1>5, <1>17, <3>1
  <2>2. \A c \in DOMAIN d : c <= b
    <3> TAKE c \in DOMAIN d
    <3>1. PICK i \in 1..k : segments[i].base_offset = c
      BY <1>18
    <3>2. i \in 1..N /\ (i < k \/ i = k)
      BY <1>4
    <3>3. i < k => c < b
      BY <1>3, <1>4, <1>5, <3>1, <3>2 DEF SegmentsInv
    <3>4. c \in Nat
      BY <1>15, FileTypes
    <3> QED  BY <1>5, <1>7, <3>1, <3>2, <3>3, <3>4
  <2> QED  BY <2>1, <2>2
<1>20. DiskInv(e)
  BY <1>9, <1>10, <1>12, <1>15, <1>19, LastFileReplaced
<1>21. /\ DOMAIN e = DOMAIN d /\ e[b] = new
       /\ \A c \in DOMAIN d : c # b => e[c] = d[c]
  BY <1>12, <1>19 DEF Put
<1>22. Shape(cut, b, new.records, n)
  BY <1>7, <1>9, <1>10, RecoveredShape
<1>23. cut \in Segment /\ cut.base_offset = b /\ cut.next_offset \in Nat
  BY <1>22, SegmentFields DEF Shape
<1>24. PICK p : p = SubSeq(segments, 1, k)
  OBVIOUS
<1>25. p \in Seq(Segment) /\ Len(p) = k /\ \A i \in 1..k : p[i] = segments[i]
  BY <1>3, <1>4, <1>24
<1>26. /\ t \in Seq(Segment) /\ Len(t) = k /\ t[k] = cut
       /\ \A i \in 1..k : i # k => t[i] = segments[i]
  <2>1. k \in 1..Len(p) /\ t = [p EXCEPT ![k] = cut]
    BY <1>4, <1>12, <1>24, <1>25
  <2>2. /\ t \in Seq(Segment) /\ Len(t) = Len(p)
        /\ \A i \in 1..Len(p) : t[i] = IF i = k THEN cut ELSE p[i]
    BY <1>23, <1>25, <2>1, ExceptSeq
  <2> QED  BY <1>25, <2>1, <2>2
<1>27. \A i \in 1..k : t[i].base_offset = segments[i].base_offset
  BY <1>5, <1>23, <1>26
<1>28. SegmentsInv(e, t)
  <2>1. ASSUME NEW i \in 1..k
        PROVE  /\ t[i].base_offset \in DOMAIN e
               /\ ~e[t[i].base_offset].torn
               /\ t[i] = RecoveredSegment(t[i].base_offset, e[t[i].base_offset])
    <3>1. CASE i = k
      BY <1>9, <1>19, <1>21, <1>23, <1>26, <3>1
    <3>2. CASE i # k
      <4>1. i < k /\ i \in 1..N
        BY <1>4, <3>2
      <4>2. segments[i].base_offset < b
        BY <1>3, <1>4, <1>5, <4>1 DEF SegmentsInv
      <4>3. segments[i].base_offset \in DOMAIN d /\ segments[i].base_offset # b
        <5>1. segments[i].base_offset \in DOMAIN d
          BY <1>17
        <5>2. segments[i].base_offset \in Nat
          BY <1>15, <5>1, FileTypes
        <5> QED  BY <1>7, <4>2, <5>1, <5>2
      <4>4. /\ ~disk[segments[i].base_offset].torn
            /\ segments[i] = RecoveredSegment(segments[i].base_offset, disk[segments[i].base_offset])
        BY <1>3, <1>4, <4>1 DEF SegmentsInv
      <4> QED  BY <1>16, <1>21, <1>26, <3>2, <4>3, <4>4
    <3> QED  BY <3>1, <3>2
  <2>2. \A i, j \in 1..k : i < j => t[i].base_offset < t[j].base_offset
    <3>1. \A i \in 1..k : i \in 1..N
      BY <1>4
    <3> QED  BY <1>3, <1>4, <1>27, <3>1 DEF SegmentsInv
  <2>3. \A c \in DOMAIN e : \E i \in 1..k : t[i].base_offset = c
    BY <1>18, <1>21, <1>27
  <2>4. k > 0
    BY <1>4
  <2> QED  BY <1>26, <2>1, <2>2, <2>3, <2>4 DEF SegmentsInv
<1>29. LogInv'
  <2>1. next_offset' = segments'[Len(segments')].next_offset /\ next_offset' \in Nat
    BY <1>13, <1>23, <1>26 DEF Last
  <2> QED  BY <1>13, <1>20, <1>28, <2>1 DEF LogInv, StoreInv, Store
<1>30. CutsEnd(disk, e)
  <2>1. Records(e) \subseteq Records(disk)
    <3> SUFFICES ASSUME NEW c \in DOMAIN e, NEW i \in 1..Len(e[c].records)
                 PROVE  e[c].records[i] \in Records(disk)
      BY RecordFrom
    <3>1. CASE c = b
      <4>1. e[c].records[i] = file.records[i] /\ i \in 1..Len(file.records)
        BY <1>7, <1>9, <1>10, <1>21, <3>1
      <4> QED  BY <1>5, <1>6, <4>1, RecordIn
    <3>2. CASE c # b
      <4>1. c \in DOMAIN disk /\ e[c] = disk[c]
        BY <1>16, <1>21, <3>2
      <4> QED  BY <4>1, RecordIn
    <3> QED  BY <3>1, <3>2
  <2>2. DOMAIN e \subseteq DOMAIN disk
    BY <1>16, <1>21
  <2>3. ASSUME NEW c \in DOMAIN disk
        PROVE  \E a \in DOMAIN e : a <= c
    <3>1. PICK i \in 1..N : segments[i].base_offset = c
      BY <1>3, <1>4 DEF SegmentsInv
    <3>2. c \in Nat
      BY <1>3, FileTypes
    <3>3. CASE i <= k
      <4>1. c \in DOMAIN e
        BY <1>4, <1>17, <1>21, <3>1, <3>3
      <4> QED  BY <3>2, <4>1
    <3>4. CASE ~(i <= k)
      <4>1. k < i
        BY <1>4, <3>4
      <4>2. b < c
        BY <1>3, <1>4, <1>5, <3>1, <4>1 DEF SegmentsInv
      <4> QED  BY <1>7, <1>19, <1>21, <3>2, <4>2
    <3> QED  BY <3>3, <3>4
  <2> QED  BY <2>1, <2>2, <2>3 DEF CutsEnd
<1> QED  BY <1>13, <1>29, <1>30

\* A segment is empty exactly when its file is.
LEMMA SegmentSize ==
  ASSUME NEW d, NEW ss, DiskInv(d), SegmentsInv(d, ss), NEW k \in 1..Len(ss)
  PROVE  LET b == ss[k].base_offset
         IN  /\ ss[k] \in Segment /\ b \in DOMAIN d /\ b \in Nat
             /\ Shape(ss[k], b, d[b].records, Len(d[b].records))
             /\ ss[k].size > 0 <=> Len(d[b].records) > 0
<1>1. PICK seg, b, rs, m : seg = ss[k] /\ b = seg.base_offset /\ rs = d[b].records /\ m = Len(rs)
  OBVIOUS
<1>2. b \in DOMAIN d /\ seg = RecoveredSegment(b, d[b])
  BY <1>1 DEF SegmentsInv
<1>3. b \in Nat /\ WellFormed(b, rs) /\ m \in Nat
  BY <1>1, <1>2, FileTypes
<1>4. Shape(seg, b, rs, m)
  BY <1>1, <1>2, <1>3, RecoveredShape
<1>5. seg \in Segment /\ seg.size = IF m = 0 THEN 0 ELSE rs[m].position + rs[m].length
  BY <1>4 DEF Shape
<1>6. seg.size > 0 <=> m > 0
  <2>1. CASE m = 0
    BY <1>5, <2>1
  <2>2. CASE m # 0
    <3>1. m \in 1..Len(rs)
      BY <1>1, <1>3, <2>2
    <3>2. rs[m].position \in Nat /\ rs[m].length \in Nat \ {0}
      BY <1>3, <3>1, RecordType
    <3> QED  BY <1>3, <1>5, <2>2, <3>2
  <2> QED  BY <2>1, <2>2
<1> QED  BY <1>1, <1>2, <1>3, <1>4, <1>5, <1>6

\* Retention deletes the first segments, if the log has no gap: none before
\* the active one is empty then.
LEMMA ExpiredFirst ==
  ASSUME LogInv, Opened, NEW min \in Nat
  PROVE  /\ Expired(min) \subseteq 1..(Len(segments) - 1)
         /\ Orderly => \A i, l \in 1..Len(segments) : i <= l /\ l \in Expired(min) => i \in Expired(min)
<1>1. /\ DiskInv(disk) /\ SegmentsInv(disk, segments) /\ Len(segments) \in Nat
  BY OpenedInv
<1>2. ASSUME Orderly, NEW i \in 1..Len(segments), NEW l \in 1..Len(segments), i <= l,
             l \in Expired(min)
      PROVE  i \in Expired(min)
  <2>1. /\ l \in 1..(Len(segments) - 1) /\ i \in 1..(Len(segments) - 1)
        /\ segments[l].size = 0 \/ segments[l].base_offset < min
    BY <1>1, <1>2 DEF Expired
  <2>2. PICK b : b = segments[l].base_offset
    OBVIOUS
  <2>3. /\ b \in DOMAIN disk /\ b \in Nat /\ segments[l] \in Segment
        /\ segments[l].size > 0 <=> Len(disk[b].records) > 0
    BY <1>1, <2>2, SegmentSize
  <2>4. PICK z \in DOMAIN disk : b < z
    <3>1. l < Len(segments) /\ Len(segments) \in 1..Len(segments)
      BY <1>1, <2>1
    <3>2. segments[Len(segments)].base_offset \in DOMAIN disk /\ b < segments[Len(segments)].base_offset
      BY <1>1, <2>2, <3>1 DEF SegmentsInv
    <3> QED  BY <3>2
  <2>5. ~(z <= b)
    <3>1. z \in Nat
      BY <1>1, FileTypes
    <3> QED  BY <2>3, <2>4, <3>1
  <2>6. b + Len(disk[b].records) # b
    BY <1>1, <1>2, <2>3, <2>5 DEF DiskInv, Contiguous
  <2>7. Len(disk[b].records) > 0
    <3>1. Len(disk[b].records) \in Nat
      BY <1>1, <2>3, FileTypes
    <3> QED  BY <2>3, <2>6, <3>1
  <2>8. segments[l].base_offset < min
    BY <2>1, <2>3, <2>7
  <2>9. segments[i].base_offset < min
    <3>1. i < l \/ i = l
      BY <1>1, <1>2
    <3>2. i < l => segments[i].base_offset < segments[l].base_offset
      BY <1>1 DEF SegmentsInv
    <3>3. segments[i].base_offset \in Nat /\ segments[l].base_offset \in Nat
      BY <1>1, SegmentSize
    <3> QED  BY <2>8, <3>1, <3>2, <3>3
  <2> QED  BY <2>1, <2>9 DEF Expired
<1>3. Expired(min) \subseteq 1..(Len(segments) - 1)
  BY DEF Expired
<1> QED  BY <1>2, <1>3

\* Files deleted from the first on, never the active one.
LEMMA FrontDeleted ==
  ASSUME LogInv, Opened, NEW K, K \subseteq 1..(Len(segments) - 1),
         Orderly => \A i, l \in 1..Len(segments) : i <= l /\ l \in K => i \in K
  PROVE  /\ DiskInv(Delete(disk, Bases(K)))
         /\ CutsFront(disk, Delete(disk, Bases(K)))
<1>1. /\ DiskInv(disk) /\ SegmentsInv(disk, segments) /\ Len(segments) \in Nat
      /\ Len(segments) > 0
  BY OpenedInv
<1>2. PICK N : N = Len(segments) /\ N \in 1..Len(segments) /\ ~(N \in K)
  BY <1>1
<1>3. K \subseteq 1..Len(segments)
  BY <1>1
<1>4. PICK e : e = Delete(disk, Bases(K))
  OBVIOUS
<1>5. DiskInv(e) /\ Records(e) \subseteq Records(disk)
  <2>1. Orderly => \A i, j, l \in 1..Len(segments) :
                     i <= l /\ l <= j /\ ~(i \in K) /\ ~(j \in K) => ~(l \in K)
    OBVIOUS
  <2> QED  BY <1>1, <1>2, <1>3, <1>4, <2>1, DeletedInv
<1>6. DOMAIN e = DOMAIN disk \ Bases(K) /\ \A c \in DOMAIN e : e[c] = disk[c]
  BY <1>4 DEF Delete
<1>7. PICK z : z = segments[N].base_offset
  OBVIOUS
<1>8. z \in DOMAIN e /\ \A c \in DOMAIN disk : c <= z
  <2>1. z \in DOMAIN disk \ Bases(K)
    BY <1>1, <1>2, <1>3, <1>7, KeptBases
  <2>2. \A c \in DOMAIN disk : c <= z
    BY <1>1, <1>2, <1>7, ActiveIsLast
  <2> QED  BY <1>6, <2>1, <2>2
<1>9. CutsFront(disk, e)
  BY <1>5, <1>6, <1>8 DEF CutsFront
<1> QED  BY <1>4, <1>5, <1>9

LEMMA TruncateSegmentsBeforeStep ==
  ASSUME LogInv, NEW min \in 0..MaxOffset, TruncateSegmentsBefore(min)
  PROVE  LogInv' /\ CutsFront(disk, disk')
<1>1. Opened /\ min \in Nat
  BY CommitLogAssumption DEF TruncateSegmentsBefore
<1>2. /\ DiskInv(disk) /\ SegmentsInv(disk, segments) /\ Len(segments) \in Nat
      /\ Len(segments) > 0 /\ next_offset \in Nat
      /\ next_offset = segments[Len(segments)].next_offset
  BY <1>1, OpenedInv
<1>3. PICK K, N, S : K = Expired(min) /\ N = Len(segments) /\ S = (1..N) \ K
  OBVIOUS
<1>4. PICK e, t : e = Delete(disk, Bases(K)) /\ t = Chosen(segments, S)
  OBVIOUS
<1>5. disk' = e /\ segments' = t /\ next_offset' = next_offset
  BY <1>3, <1>4 DEF TruncateSegmentsBefore
<1>6. /\ K \subseteq 1..(N - 1)
      /\ Orderly => \A i, l \in 1..N : i <= l /\ l \in K => i \in K
  BY <1>1, <1>3, ExpiredFirst
<1>7. DiskInv(e) /\ CutsFront(disk, e)
  BY <1>1, <1>3, <1>4, <1>6, FrontDeleted
<1>8. DOMAIN e = DOMAIN disk \ Bases(K) /\ \A c \in DOMAIN e : e[c] = disk[c]
  BY <1>4 DEF Delete
<1>9. PICK n, f : n = Cardinality(S) /\ f = InOrder(S)
  OBVIOUS
<1>10. /\ n \in Nat /\ f \in [1..n -> S]
       /\ \A k, l \in 1..n : k < l => f[k] < f[l]
       /\ \A x \in S : \E k \in 1..n : f[k] = x
  <2>1. S \subseteq Int
    BY <1>2, <1>3
  <2>2. IsFiniteSet(1..N)
    BY <1>2, <1>3, FS_Interval
  <2>3. IsFiniteSet(S)
    BY <1>3, <2>2, FS_Subset
  <2> QED  BY <1>9, <2>1, <2>3, InOrderLists
<1>11. S \subseteq 1..N /\ N \in S /\ N \in Nat
  BY <1>2, <1>3, <1>6
<1>12. t = [k \in 1..n |-> segments[f[k]]]
  BY <1>4, <1>9 DEF Chosen
<1>13. t \in Seq(Segment) /\ Len(t) = n /\ \A k \in 1..n : t[k] = segments[f[k]] /\ f[k] \in S
  <2>1. \A k \in 1..n : f[k] \in S /\ segments[f[k]] \in Segment
    <3>1. segments \in Seq(Segment)
      BY <1>2 DEF SegmentsInv
    <3>2. \A k \in 1..n : f[k] \in S /\ f[k] \in 1..Len(segments)
      BY <1>3, <1>10, <1>11
    <3> QED  BY <3>1, <3>2
  <2> QED  BY <1>10, <1>12, <2>1
<1>14. n > 0 /\ f[n] = N
  <2>1. PICK k \in 1..n : f[k] = N
    BY <1>10, <1>11
  <2>2. n > 0 /\ n \in 1..n /\ (k < n \/ k = n)
    BY <1>10
  <2>3. k < n => f[k] < f[n]
    BY <1>10, <2>2
  <2>4. f[n] \in 1..N
    BY <1>10, <1>11, <2>2
  <2> QED  BY <1>11, <2>1, <2>2, <2>3, <2>4
<1>15. \A x \in S : segments[x].base_offset \in DOMAIN e
  <2> SUFFICES ASSUME NEW x \in S PROVE segments[x].base_offset \in DOMAIN e
    OBVIOUS
  <2>1. x \in 1..Len(segments) /\ ~(x \in K) /\ K \subseteq 1..Len(segments)
    BY <1>2, <1>3, <1>6, <1>11
  <2> QED  BY <1>2, <1>8, <2>1, KeptBases
<1>16. SegmentsInv(e, t)
  <2>1. ASSUME NEW k \in 1..n
        PROVE  /\ t[k].base_offset \in DOMAIN e
               /\ ~e[t[k].base_offset].torn
               /\ t[k] = RecoveredSegment(t[k].base_offset, e[t[k].base_offset])
    <3>1. t[k] = segments[f[k]] /\ f[k] \in S /\ f[k] \in 1..Len(segments)
      BY <1>3, <1>11, <1>13
    <3>2. /\ ~disk[t[k].base_offset].torn
          /\ t[k] = RecoveredSegment(t[k].base_offset, disk[t[k].base_offset])
      BY <1>2, <3>1 DEF SegmentsInv
    <3>3. t[k].base_offset \in DOMAIN e
      BY <1>15, <3>1
    <3> QED  BY <1>8, <3>2, <3>3
  <2>2. ASSUME NEW k \in 1..n, NEW l \in 1..n, k < l
        PROVE  t[k].base_offset < t[l].base_offset
    <3>1. f[k] < f[l] /\ f[k] \in 1..Len(segments) /\ f[l] \in 1..Len(segments)
      BY <1>3, <1>10, <1>11, <2>2
    <3>2. segments[f[k]].base_offset < segments[f[l]].base_offset
      BY <1>2, <3>1 DEF SegmentsInv
    <3> QED  BY <1>13, <3>2
  <2>3. ASSUME NEW c \in DOMAIN e
        PROVE  \E k \in 1..n : t[k].base_offset = c
    <3>1. K \subseteq 1..Len(segments)
      BY <1>2, <1>3, <1>6
    <3>2. PICK x \in 1..Len(segments) : ~(x \in K) /\ segments[x].base_offset = c
      BY <1>2, <1>8, <3>1, KeptBases
    <3>3. x \in S
      BY <1>3, <3>2
    <3>4. PICK k \in 1..n : f[k] = x
      BY <1>10, <3>3
    <3> QED  BY <1>13, <3>2, <3>4
  <2> QED  BY <1>13, <1>14, <2>1, <2>2, <2>3 DEF SegmentsInv
<1>17. next_offset = t[Len(t)].next_offset
  <2>1. n \in 1..n
    BY <1>10, <1>14
  <2> QED  BY <1>2, <1>3, <1>13, <1>14, <2>1
<1>18. LogInv'
  BY <1>2, <1>5, <1>7, <1>16, <1>17 DEF LogInv, StoreInv, Store
<1> QED  BY <1>5, <1>7, <1>18

\* A recovery rebuilds the invariant from the disk alone.
LEMMA OpenStep ==
  ASSUME LogInv, Open
  PROVE  LogInv' /\ Grows(disk, disk')
<1>1. DiskInv(disk)
  BY DEF LogInv
<1>2. PICK e, D, n, f : e = disk' /\ D = DOMAIN disk /\ n = Cardinality(D) /\ f = InOrder(D)
  OBVIOUS
<1>3. /\ e = [b \in D |-> RecoveredFile(disk[b])]
      /\ segments' = [k \in 1..n |-> RecoveredSegment(f[k], e[f[k]])]
      /\ next_offset' = Last(segments').next_offset
  BY <1>2 DEF Open
<1>4. \A b \in D : /\ disk[b] \in File /\ b \in Nat /\ WellFormed(b, disk[b].records)
                   /\ Len(disk[b].records) \in Nat
  BY <1>1, <1>2, FileTypes
<1>5. \A b \in D : e[b] \in File /\ e[b].records = disk[b].records /\ ~e[b].torn
  BY <1>3, <1>4 DEF RecoveredFile, File
<1>6. DOMAIN e = D
  BY <1>3
<1>7. DiskInv(e)
  <2>1. e \in [D -> File]
    <3>1. e = [b \in D |-> e[b]]
      BY <1>3
    <3> QED  BY <1>5, <3>1
  <2>2. D \subseteq Nat /\ IsFiniteSet(D) /\ D # {}
    BY <1>1, <1>2 DEF DiskInv
  <2>3. \A b \in D : WellFormed(b, e[b].records)
    BY <1>4, <1>5
  <2>4. \A b, c \in D : b < c => b + Len(e[b].records) <= c
    BY <1>1, <1>2, <1>5 DEF DiskInv
  <2>5. ASSUME Orderly PROVE Contiguous(e)
    <3>1. Contiguous(disk)
      BY <1>1, <2>5 DEF DiskInv
    <3> QED  BY <1>2, <1>5, <1>6, <3>1 DEF Contiguous
  <2> QED  BY <1>6, <2>1, <2>2, <2>3, <2>4, <2>5 DEF DiskInv
<1>8. /\ n \in Nat /\ f \in [1..n -> D]
      /\ \A k, l \in 1..n : k < l => f[k] < f[l]
      /\ \A x \in D : \E k \in 1..n : f[k] = x
  <2>1. D \subseteq Int /\ IsFiniteSet(D)
    BY <1>1, <1>2 DEF DiskInv
  <2> QED  BY <1>2, <2>1, InOrderLists
<1>9. PICK t : t = [k \in 1..n |-> RecoveredSegment(f[k], e[f[k]])]
  OBVIOUS
<1>10. \A k \in 1..n : /\ t[k] = RecoveredSegment(f[k], e[f[k]]) /\ f[k] \in D
                       /\ t[k] \in Segment /\ t[k].base_offset = f[k] /\ t[k].next_offset \in Nat
  <2> SUFFICES ASSUME NEW k \in 1..n
               PROVE  /\ t[k] = RecoveredSegment(f[k], e[f[k]]) /\ f[k] \in D
                      /\ t[k] \in Segment /\ t[k].base_offset = f[k] /\ t[k].next_offset \in Nat
    OBVIOUS
  <2>1. t[k] = RecoveredSegment(f[k], e[f[k]]) /\ f[k] \in D
    BY <1>8, <1>9
  <2>2. f[k] \in Nat /\ WellFormed(f[k], e[f[k]].records)
    BY <1>4, <1>5, <2>1
  <2>3. Shape(t[k], f[k], e[f[k]].records, Len(e[f[k]].records))
    BY <2>1, <2>2, RecoveredShape
  <2>4. t[k] \in Segment /\ t[k].base_offset = f[k]
    BY <2>3 DEF Shape
  <2> QED  BY <2>1, <2>4, SegmentFields
<1>11. t \in Seq(Segment) /\ Len(t) = n
  BY <1>8, <1>9, <1>10
<1>12. n > 0 /\ n \in 1..n
  <2>1. PICK b : b \in D
    BY <1>1, <1>2 DEF DiskInv
  <2> QED  BY <1>8, <2>1
<1>13. SegmentsInv(e, t)
  <2>1. \A k \in 1..n :
          /\ t[k].base_offset \in DOMAIN e
          /\ ~e[t[k].base_offset].torn
          /\ t[k] = RecoveredSegment(t[k].base_offset, e[t[k].base_offset])
    BY <1>5, <1>6, <1>10
  <2>2. \A k, l \in 1..n : k < l => t[k].base_offset < t[l].base_offset
    BY <1>8, <1>10
  <2>3. \A c \in DOMAIN e : \E k \in 1..n : t[k].base_offset = c
    BY <1>6, <1>8, <1>10
  <2> QED  BY <1>11, <1>12, <2>1, <2>2, <2>3 DEF SegmentsInv
<1>14. LogInv'
  <2>1. segments' = t /\ next_offset' = t[Len(t)].next_offset /\ next_offset' \in Nat
    BY <1>3, <1>9, <1>10, <1>11, <1>12 DEF Last
  <2> QED  BY <1>2, <1>7, <1>13, <2>1 DEF LogInv, StoreInv, Store
<1>15. Grows(disk, e)
  BY <1>2, <1>4, <1>5, <1>6 DEF Grows
<1> QED  BY <1>2, <1>14, <1>15

\* Wherever a batch is cut short, no record of the disk is lost.
LEMMA AppendCrashInv ==
  ASSUME LogInv, Opened, NEW batch \in Seq(Payload), NEW many \in BOOLEAN,
         NEW e \in AppendCrashes(batch, many)
  PROVE  DiskInv(e) /\ Grows(disk, e)
<1>1. StoreInv(Store, next_offset) /\ next_offset \in Nat /\ DiskInv(disk)
  BY OpenedInv
<1>2. PICK a : a = Appended(batch, many)
  OBVIOUS
<1>3. PICK k \in 1..Len(batch) :
        \/ e = a[k].disk
        \/ e = Prepared(a[k - 1], k, batch[k], many).disk
        \/ e = Torn(Prepared(a[k - 1], k, batch[k], many))
  BY <1>2 DEF AppendCrashes
<1>4. /\ Len(batch) \in Nat /\ k \in 0..Len(batch) /\ k - 1 \in 0..Len(batch)
      /\ k \in Nat \ {0} /\ batch[k] \in Payload /\ next_offset + (k - 1) = next_offset + k - 1
      /\ (k > 1 => k - 1 > 0)
  BY <1>1
<1>5. StoreInv(a[k], next_offset + k) /\ Grows(disk, a[k].disk)
  BY <1>1, <1>2, <1>4, AppendedInv
<1>6. PICK s, p : s = a[k - 1] /\ p = Prepared(s, k, batch[k], many)
  OBVIOUS
<1>7. /\ StoreInv(s, next_offset + k - 1) /\ Grows(disk, s.disk)
      /\ k > 1 => s.segments[Len(s.segments)].size > 0
  <2>1. /\ StoreInv(a[k - 1], next_offset + (k - 1)) /\ Grows(disk, a[k - 1].disk)
        /\ k - 1 > 0 => a[k - 1].segments[Len(a[k - 1].segments)].size > 0
    BY <1>1, <1>2, <1>4, AppendedInv
  <2> QED  BY <1>4, <1>6, <2>1
<1>8. StoreInv(p, next_offset + k - 1) /\ Grows(s.disk, p.disk)
  BY <1>1, <1>4, <1>6, <1>7, PreparedInv
<1>9. DiskInv(s.disk) /\ DiskInv(p.disk) /\ DiskInv(a[k].disk)
  BY <1>5, <1>7, <1>8 DEF StoreInv
<1>10. Grows(disk, p.disk)
  BY <1>1, <1>7, <1>8, <1>9, GrowsTransitive
<1>11. DiskInv(Torn(p)) /\ Grows(p.disk, Torn(p))
  BY <1>8, TornInv
<1>12. Grows(disk, Torn(p))
  BY <1>1, <1>9, <1>10, <1>11, GrowsTransitive
<1> QED  BY <1>3, <1>5, <1>6, <1>9, <1>10, <1>11, <1>12

LEMMA TruncateCrashInv ==
  ASSUME LogInv, Opened, ~Orderly, NEW offset \in Nat, NEW e \in TruncateCrashes(offset)
  PROVE  DiskInv(e)
<1>1. PICK k : k = SegmentOf(offset)
  OBVIOUS
<1>2. /\ DiskInv(disk) /\ SegmentsInv(disk, segments) /\ Len(segments) \in Nat
  BY OpenedInv
<1>3. k # 0
  BY <1>1 DEF TruncateCrashes
<1>4. PICK j \in k..Len(segments) : e = Delete(disk, Bases((k + 1)..j))
  BY <1>1, <1>3 DEF TruncateCrashes
<1>5. k \in 0..Len(segments)
  BY <1>1, SegmentOfIs
<1>6. PICK K : K = (k + 1)..j
  OBVIOUS
<1>7. K \subseteq 1..Len(segments) /\ k \in 1..Len(segments) /\ ~(k \in K)
  BY <1>2, <1>3, <1>4, <1>5, <1>6
<1> QED  BY <1>2, <1>4, <1>6, <1>7, DeletedInv

LEMMA RetentionCrashInv ==
  ASSUME LogInv, Opened, NEW min \in Nat, NEW e \in RetentionCrashes(min)
  PROVE  DiskInv(e) /\ CutsFront(disk, e)
<1>1. PICK j \in 0..Len(segments) : e = Delete(disk, Bases({k \in Expired(min) : k <= j}))
  BY DEF RetentionCrashes
<1>2. PICK K : K = {k \in Expired(min) : k <= j}
  OBVIOUS
<1>3. /\ Expired(min) \subseteq 1..(Len(segments) - 1)
      /\ Orderly => \A i, l \in 1..Len(segments) : i <= l /\ l \in Expired(min) => i \in Expired(min)
  BY ExpiredFirst
<1>4. Len(segments) \in Nat
  BY OpenedInv
<1>5. K \subseteq 1..(Len(segments) - 1)
  BY <1>2, <1>3
<1>6. Orderly => \A i, l \in 1..Len(segments) : i <= l /\ l \in K => i \in K
  <2> SUFFICES ASSUME Orderly, NEW i \in 1..Len(segments), NEW l \in 1..Len(segments),
                      i <= l, l \in K
               PROVE  i \in K
    OBVIOUS
  <2>1. l \in Expired(min) /\ l <= j
    BY <1>2
  <2>2. i \in Expired(min) /\ i <= j
    BY <1>3, <1>4, <2>1
  <2> QED  BY <1>2, <2>2
<1> QED  BY <1>1, <1>2, <1>5, <1>6, FrontDeleted

\* What a crash can leave.
LEMMA CrashCases ==
  ASSUME NEW e \in CrashDisks
  PROVE  \/ \E batch \in Batches, many \in BOOLEAN : e \in AppendCrashes(batch, many)
         \/ "truncate" \in Faults /\ \E offset \in 0..MaxOffset : e \in TruncateCrashes(offset)
         \/ \E offset \in 0..MaxOffset : e \in RetentionCrashes(offset)
         \/ "damage" \in Faults /\ e \in Damaged
<1> DEFINE fitting == {batch \in Batches : next_offset + Len(batch) <= MaxOffset}
           single == {batch \in fitting : Len(batch) = 1}
           A1 == UNION {AppendCrashes(batch, TRUE) : batch \in fitting}
           A2 == UNION {AppendCrashes(batch, FALSE) : batch \in single}
           A == A1 \cup A2
           T == UNION {TruncateCrashes(offset) : offset \in 0..MaxOffset}
           R == UNION {RetentionCrashes(offset) : offset \in 0..MaxOffset}
           left == [append |-> A, truncate |-> T, retention |-> R, damage |-> Damaged]
<1>1. CrashDisks = UNION {left[fault] : fault \in Faults}
  BY DEF CrashDisks
<1>2. e \in A => \E batch \in Batches, many \in BOOLEAN : e \in AppendCrashes(batch, many)
  <2> SUFFICES ASSUME e \in A
               PROVE  \E batch \in Batches, many \in BOOLEAN : e \in AppendCrashes(batch, many)
    OBVIOUS
  <2>1. CASE e \in A1
    <3>1. PICK batch \in Batches : e \in AppendCrashes(batch, TRUE)
      BY <2>1
    <3> QED  BY <3>1
  <2>2. CASE e \in A2
    <3>1. PICK batch \in Batches : e \in AppendCrashes(batch, FALSE)
      BY <2>2
    <3> QED  BY <3>1
  <2> HIDE DEF A1, A2
  <2> QED  BY <2>1, <2>2
<1>3. e \in T => \E offset \in 0..MaxOffset : e \in TruncateCrashes(offset)
  OBVIOUS
<1>4. e \in R => \E offset \in 0..MaxOffset : e \in RetentionCrashes(offset)
  OBVIOUS
<1> HIDE DEF A, T, R
<1>5. /\ left["append"] = A /\ left["truncate"] = T /\ left["retention"] = R
      /\ left["damage"] = Damaged
  OBVIOUS
<1> HIDE DEF left
<1>6. PICK fault \in Faults : e \in left[fault]
  BY <1>1
<1>7. fault \in {"append", "truncate", "retention", "damage"}
  BY CommitLogAssumption
<1>8. CASE fault = "append"
  BY <1>2, <1>5, <1>6, <1>8
<1>9. CASE fault = "truncate"
  BY <1>3, <1>5, <1>6, <1>9
<1>10. CASE fault = "retention"
  BY <1>4, <1>5, <1>6, <1>10
<1>11. CASE fault = "damage"
  BY <1>5, <1>6, <1>11
<1> QED  BY <1>7, <1>8, <1>9, <1>10, <1>11

LEMMA CrashStep ==
  ASSUME LogInv, Crash
  PROVE  /\ LogInv'
         /\ \/ Grows(disk, disk')
            \/ /\ "truncate" \in Faults
               /\ \E offset \in 0..MaxOffset : disk' \in TruncateCrashes(offset)
            \/ /\ CutsFront(disk, disk')
               /\ \E offset \in 0..MaxOffset : disk' \in RetentionCrashes(offset)
            \/ "damage" \in Faults
<1>1. Opened /\ DiskInv(disk)
  BY DEF Crash, LogInv
<1>2. PICK e : e = disk'
  OBVIOUS
<1>3. /\ \/ e = disk
         \/ e \in CrashDisks
      /\ segments' = << >> /\ next_offset' = 0
  BY <1>2 DEF Crash
<1>4. DiskInv(e) => LogInv'
  BY <1>2, <1>3 DEF LogInv, Opened
<1>5. \A offset \in 0..MaxOffset : offset \in Nat
  BY CommitLogAssumption
<1>6. CASE e = disk
  BY <1>1, <1>2, <1>4, <1>6, GrowsReflexive
<1>7. CASE \E batch \in Batches, many \in BOOLEAN : e \in AppendCrashes(batch, many)
  <2>1. PICK batch \in Batches, many \in BOOLEAN : e \in AppendCrashes(batch, many)
    BY <1>7
  <2>2. batch \in Seq(Payload)
    BY BatchType
  <2>3. DiskInv(e) /\ Grows(disk, e)
    BY <1>1, <2>1, <2>2, AppendCrashInv
  <2> QED  BY <1>2, <1>4, <2>3
<1>8. CASE "truncate" \in Faults /\ \E offset \in 0..MaxOffset : e \in TruncateCrashes(offset)
  <2>1. ~Orderly
    BY <1>8 DEF Orderly
  <2>2. DiskInv(e)
    BY <1>1, <1>5, <1>8, <2>1, TruncateCrashInv
  <2> QED  BY <1>2, <1>4, <1>8, <2>2
<1>9. CASE \E offset \in 0..MaxOffset : e \in RetentionCrashes(offset)
  <2>1. DiskInv(e) /\ CutsFront(disk, e)
    BY <1>1, <1>5, <1>9, RetentionCrashInv
  <2> QED  BY <1>2, <1>4, <1>9, <2>1
<1>10. CASE "damage" \in Faults /\ e \in Damaged
  <2>1. ~Orderly
    BY <1>10 DEF Orderly
  <2>2. DiskInv(e)
    BY <1>1, <1>10, <2>1, DamagedInv
  <2> QED  BY <1>4, <1>10, <2>2
<1> QED  BY <1>3, <1>6, <1>7, <1>8, <1>9, <1>10, CrashCases

LEMMA StutterStep ==
  ASSUME LogInv, UNCHANGED vars
  PROVE  LogInv'
BY DEF LogInv, vars, Opened, Store

LEMMA NextInv == LogInv /\ [Next]_vars => LogInv'
<1> SUFFICES ASSUME LogInv, [Next]_vars PROVE LogInv'
  OBVIOUS
<1>1. CASE \E length \in Payload : AppendRecord(length)
  BY <1>1, AppendRecordStep
<1>2. CASE \E batch \in Batches : AppendMany(batch)
  BY <1>2, AppendManyStep
<1>3. CASE \E offset \in 0..MaxOffset : TruncateFrom(offset)
  BY <1>3, TruncateFromStep
<1>4. CASE \E offset \in 0..MaxOffset : TruncateSegmentsBefore(offset)
  BY <1>4, TruncateSegmentsBeforeStep
<1>5. CASE Crash
  BY <1>5, CrashStep
<1>6. CASE Open
  BY <1>6, OpenStep
<1>7. CASE UNCHANGED vars
  BY <1>7, StutterStep
<1> QED  BY <1>1, <1>2, <1>3, <1>4, <1>5, <1>6, <1>7 DEF Next

LEMMA InvHolds == Spec => []LogInv
BY InitInv, NextInv, PTL DEF Spec

-----------------------------------------------------------------------------
(* Theorems *)

LEMMA InvTypeOK == LogInv => TypeOK
<1> SUFFICES ASSUME LogInv PROVE TypeOK
  OBVIOUS
<1>1. DiskInv(disk) /\ next_offset \in Nat
  BY DEF LogInv
<1>2. \A b \in DOMAIN disk :
        b \in Nat /\ disk[b].records \in Seq(Record) /\ disk[b].torn \in BOOLEAN
  BY <1>1, FileTypes
<1>3. Opened => Bases(1..Len(segments)) = DOMAIN disk
  <2> SUFFICES ASSUME Opened PROVE Bases(1..Len(segments)) = DOMAIN disk
    OBVIOUS
  <2>1. SegmentsInv(disk, segments)
    BY OpenedInv
  <2>2. /\ \A k \in 1..Len(segments) : segments[k].base_offset \in DOMAIN disk
        /\ \A b \in DOMAIN disk : \E k \in 1..Len(segments) : segments[k].base_offset = b
    BY <2>1 DEF SegmentsInv
  <2> QED  BY <2>2 DEF Bases
<1>4. /\ segments \in Seq(Segment)
      /\ \A k, l \in 1..Len(segments) : k < l => segments[k].base_offset < segments[l].base_offset
  <2>1. CASE Opened
    BY <2>1, OpenedInv DEF SegmentsInv
  <2>2. CASE ~Opened
    BY <2>2 DEF Opened
  <2> QED  BY <2>1, <2>2
<1> QED  BY <1>1, <1>2, <1>3, <1>4 DEF TypeOK

\* The files hold records with numbers for positions, and the segments in memory are
\* those of the files, one for each and in order, with index entries of numbers,
\* after every crash and with every damage (CommitLog.recover, truncate_from,
\* truncate_segments_before).
THEOREM TypeCorrect == Spec => []TypeOK
BY InvHolds, InvTypeOK, PTL

LEMMA InvRecoveryExact == LogInv => RecoveryExact
<1> SUFFICES ASSUME LogInv, Opened
             PROVE  /\ \A k \in 1..Len(segments) :
                         segments[k] = RecoveredSegment(segments[k].base_offset,
                                                        disk[segments[k].base_offset])
                    /\ next_offset = Last(segments).next_offset
  BY DEF RecoveryExact
<1>1. SegmentsInv(disk, segments) /\ next_offset = segments[Len(segments)].next_offset
  BY OpenedInv
<1>2. \A k \in 1..Len(segments) :
        segments[k] = RecoveredSegment(segments[k].base_offset, disk[segments[k].base_offset])
  BY <1>1 DEF SegmentsInv
<1> QED  BY <1>1, <1>2 DEF Last

\* What a restart would read back from the files is what the process already
\* has in memory, index entries and sizes included, whatever appends, rolls,
\* truncations, crashes and damage came before (Segment.recover).
THEOREM RecoveryIsExact == Spec => []RecoveryExact
BY InvHolds, InvRecoveryExact, PTL

LEMMA InvNoGap == LogInv /\ Orderly => NoGap
<1> SUFFICES ASSUME LogInv, Orderly, NEW b \in DOMAIN disk
             PROVE  LET records_of == disk[b].records
                    IN  /\ \A k \in 1..Len(records_of) : records_of[k].offset = b + k - 1
                        /\ \/ b = MaxIn(DOMAIN disk)
                           \/ b + Len(records_of) \in DOMAIN disk \ {b}
  BY DEF NoGap
<1>1. DiskInv(disk) /\ WellFormed(b, disk[b].records)
  BY FileTypes DEF LogInv
<1>2. Contiguous(disk) /\ DOMAIN disk \subseteq Nat
  BY <1>1 DEF DiskInv
<1>3. \A k \in 1..Len(disk[b].records) : disk[b].records[k].offset = b + k - 1
  BY <1>1 DEF WellFormed
<1>4. (\A c \in DOMAIN disk : c <= b) \/ b + Len(disk[b].records) \in DOMAIN disk \ {b}
  BY <1>2 DEF Contiguous
<1>5. (\A c \in DOMAIN disk : c <= b) => b = MaxIn(DOMAIN disk)
  BY <1>2, MaxInIs
<1> QED  BY <1>3, <1>4, <1>5

\* Unless a crash can interrupt truncate_from or bytes on disk go bad, every
\* file of an open log continues the one before it: rolls, batches, retention
\* and crashes in them leave no gap (CommitLog.append_many, recover).
THEOREM NoGapUnlessTruncationTorn == Orderly => (Spec => []NoGap)
<1> SUFFICES ASSUME Orderly PROVE Spec => []NoGap
  OBVIOUS
<1>1. LogInv => NoGap
  BY InvNoGap
<1> QED  BY <1>1, InvHolds, PTL

LEMMA InvReadCorrect == LogInv => ReadCorrect
<1> SUFFICES ASSUME LogInv, Opened, NEW offset \in 0..MaxOffset
             PROVE  Read(offset) = {r \in Records(disk) : r.offset = offset}
  BY DEF ReadCorrect
<1> DEFINE at(k) == SegmentRead(segments[k], disk[segments[k].base_offset], offset)
           base(k) == segments[k].base_offset
           rs(k) == disk[base(k)].records
           found == {r \in Records(disk) : r.offset = offset}
<1>1. PICK k : k = SegmentOf(offset)
  OBVIOUS
<1>2. offset \in Nat
  BY CommitLogAssumption
<1>3. DiskInv(disk) /\ SegmentsInv(disk, segments) /\ Len(segments) \in Nat
  BY OpenedInv
<1>4. /\ k \in 0..Len(segments)
      /\ k # 0 => base(k) <= offset
      /\ \A l \in 1..Len(segments) : base(l) <= offset => l <= k
  BY <1>1, <1>2, SegmentOfIs
<1>5. Read(offset) = IF k = 0 THEN {}
                     ELSE IF at(k) = {} /\ k > 1 THEN at(k - 1) ELSE at(k)
  BY <1>1 DEF Read
<1>6. \A l \in 1..Len(segments) :
        base(l) \in DOMAIN disk /\ base(l) \in Nat /\ WellFormed(base(l), rs(l)) /\ Len(rs(l)) \in Nat
  <2> TAKE l \in 1..Len(segments)
  <2>1. base(l) \in DOMAIN disk
    BY <1>3, SegmentSize
  <2> QED  BY <1>3, <2>1, FileTypes
<1>7. ASSUME NEW l \in 1..Len(segments)
      PROVE  at(l) = IF base(l) <= offset /\ offset < base(l) + Len(rs(l))
                     THEN {rs(l)[offset - base(l) + 1]} ELSE {}
  <2>1. Shape(segments[l], base(l), rs(l), Len(rs(l)))
    BY <1>3, SegmentSize
  <2> QED  BY <1>2, <1>6, <2>1, SegmentReadIs
<1>8. \A i, l \in 1..Len(segments) : i < l => base(i) + Len(rs(i)) <= base(l)
  <2> TAKE i, l \in 1..Len(segments)
  <2>1. i < l => base(i) < base(l)
    BY <1>3 DEF SegmentsInv
  <2> QED  BY <1>3, <1>6, <2>1 DEF DiskInv
\* A record of the offset is in the file of segment k.
<1>9. ASSUME NEW r \in found
      PROVE  k # 0 /\ offset < base(k) + Len(rs(k)) /\ r = rs(k)[offset - base(k) + 1]
  <2>1. PICK b \in DOMAIN disk : \E j \in 1..Len(disk[b].records) : r = disk[b].records[j]
    BY RecordFrom
  <2>2. PICK j \in 1..Len(disk[b].records) : r = disk[b].records[j]
    BY <2>1
  <2>3. PICK l \in 1..Len(segments) : base(l) = b
    BY <1>3 DEF SegmentsInv
  <2>4. r = rs(l)[j] /\ j \in 1..Len(rs(l)) /\ r.offset = offset
    BY <2>2, <2>3
  <2>5. offset = base(l) + j - 1
    BY <1>6, <2>4 DEF WellFormed
  <2>6. j \in Nat /\ j >= 1 /\ j <= Len(rs(l)) /\ base(l) \in Nat /\ Len(rs(l)) \in Nat
    BY <1>6, <2>4
  <2>7. l <= k
    BY <1>2, <1>4, <2>5, <2>6
  <2>8. l = k
    <3>1. ASSUME l < k PROVE FALSE
      <4>1. k \in 1..Len(segments) /\ base(k) \in Nat /\ base(k) <= offset
        BY <1>3, <1>4, <1>6, <3>1
      <4>2. base(l) + Len(rs(l)) <= base(k)
        BY <1>8, <3>1, <4>1
      <4> HIDE DEF base, rs
      <4> QED  BY <1>2, <2>5, <2>6, <4>1, <4>2
    <3> QED  BY <1>3, <1>4, <2>7, <3>1
  <2>9. j = offset - base(l) + 1 /\ offset < base(l) + Len(rs(l))
    <3> HIDE DEF base, rs
    <3> QED  BY <1>2, <2>5, <2>6
  <2> QED  BY <2>4, <2>8, <2>9
\* What segment k returns is a record of the offset.
<1>10. ASSUME k # 0, offset < base(k) + Len(rs(k))
       PROVE  rs(k)[offset - base(k) + 1] \in found
  <2>1. k \in 1..Len(segments) /\ base(k) <= offset
    BY <1>3, <1>4, <1>10
  <2>2. base(k) \in DOMAIN disk /\ base(k) \in Nat /\ WellFormed(base(k), rs(k)) /\ Len(rs(k)) \in Nat
    BY <1>6, <2>1
  <2>3. PICK j : j = offset - base(k) + 1
    OBVIOUS
  <2>4. j \in 1..Len(rs(k)) /\ base(k) + j - 1 = offset
    <3> HIDE DEF base, rs
    <3> QED  BY <1>2, <1>10, <2>1, <2>2, <2>3
  <2>5. rs(k)[j].offset = offset
    BY <2>2, <2>4 DEF WellFormed
  <2>6. rs(k)[j] \in Records(disk)
    BY <2>2, <2>4, RecordIn
  <2> QED  BY <2>3, <2>5, <2>6
<1>11. CASE k = 0
  <2>1. found = {}
    BY <1>9, <1>11
  <2> QED  BY <1>5, <1>11, <2>1
<1>12. CASE k # 0
  <2>1. k \in 1..Len(segments) /\ base(k) <= offset
    BY <1>3, <1>4, <1>12
  <2>2. at(k) = found
    <3>1. CASE offset < base(k) + Len(rs(k))
      <4>1. at(k) = {rs(k)[offset - base(k) + 1]}
        BY <1>7, <2>1, <3>1
      <4>2. found = {rs(k)[offset - base(k) + 1]}
        <5> HIDE DEF base, rs, at
        <5>1. \A r \in found : r = rs(k)[offset - base(k) + 1]
          BY <1>9
        <5>2. rs(k)[offset - base(k) + 1] \in found
          BY <1>10, <1>12, <3>1
        <5> HIDE DEF found
        <5> QED  BY <5>1, <5>2
      <4> QED  BY <4>1, <4>2
    <3>2. CASE ~(offset < base(k) + Len(rs(k)))
      <4>1. at(k) = {}
        BY <1>7, <2>1, <3>2
      <4>2. found = {}
        <5> HIDE DEF base, rs, found
        <5> QED  BY <1>9, <3>2
      <4> QED  BY <4>1, <4>2
    <3> QED  BY <3>1, <3>2
  <2>3. at(k) = {} /\ k > 1 => at(k - 1) = {}
    <3> SUFFICES ASSUME k > 1 PROVE at(k - 1) = {}
      OBVIOUS
    <3>1. k - 1 \in 1..Len(segments) /\ k - 1 < k
      BY <1>3, <2>1
    <3>2. base(k - 1) + Len(rs(k - 1)) <= base(k)
      BY <1>8, <2>1, <3>1
    <3>3. base(k - 1) \in Nat /\ base(k) \in Nat /\ Len(rs(k - 1)) \in Nat
      BY <1>6, <2>1, <3>1
    <3>4. ~(offset < base(k - 1) + Len(rs(k - 1)))
      <4> HIDE DEF base, rs
      <4> QED  BY <1>2, <2>1, <3>2, <3>3
    <3> QED  BY <1>7, <3>1, <3>4
  <2>4. Read(offset) = found
    <3> HIDE DEF at, found
    <3> QED  BY <1>5, <1>12, <2>2, <2>3
  <2> QED  BY <2>4
<1> QED  BY <1>11, <1>12

\* read finds a record exactly when some file holds it, whatever the index
\* interval, the sizes of segments, truncations, crashes and damage: the sparse
\* index, the choice of the segment and the fallback to the one before it lose
\* and invent nothing (CommitLog.read, Segment.position_of).
THEOREM ReadIsCorrect == Spec => []ReadCorrect
BY InvHolds, InvReadCorrect, PTL

LEMMA GrowsKeepsRecords ==
  ASSUME LogInv, LogInv', Grows(disk, disk')
  PROVE  Records(disk) \subseteq Records(disk')
<1>1. DiskInv(disk) /\ DiskInv(disk')
  BY DEF LogInv
<1> QED  BY <1>1, GrowsRecords

\* As long as no bytes on disk go bad, only truncation and retention, finished
\* or interrupted, remove a record: appends, rolls, crashes inside them, a torn
\* tail and recovery keep every finished one (Segment.recover).
THEOREM OnlyRequestsRemoveRecords == "damage" \notin Faults => (Spec => OnlyRequestsRemove)
<1> SUFFICES ASSUME "damage" \notin Faults PROVE Spec => OnlyRequestsRemove
  OBVIOUS
<1> DEFINE Request(offset) ==
             \/ TruncateFrom(offset) \/ TruncateSegmentsBefore(offset)
             \/ Crash /\ disk' \in TruncateCrashes(offset) \cup RetentionCrashes(offset)
           Keeps == Records(disk) \subseteq Records(disk')
           A == Keeps \/ \E offset \in 0..MaxOffset : Request(offset)
<1>1. LogInv /\ [Next]_vars => [A]_vars
  <2> SUFFICES ASSUME LogInv, Next PROVE A
    OBVIOUS
  <2>1. CASE \E length \in Payload : AppendRecord(length)
    BY <2>1, AppendRecordStep, GrowsKeepsRecords
  <2>2. CASE \E batch \in Batches : AppendMany(batch)
    BY <2>2, AppendManyStep, GrowsKeepsRecords
  <2>3. CASE \E offset \in 0..MaxOffset : TruncateFrom(offset) \/ TruncateSegmentsBefore(offset)
    BY <2>3
  <2>4. CASE Crash
    <3>1. CASE Grows(disk, disk')
      BY <2>4, <3>1, CrashStep, GrowsKeepsRecords
    <3>2. CASE \E offset \in 0..MaxOffset : disk' \in TruncateCrashes(offset)
      BY <2>4, <3>2
    <3>3. CASE \E offset \in 0..MaxOffset : disk' \in RetentionCrashes(offset)
      BY <2>4, <3>3
    <3> QED  BY <2>4, <3>1, <3>2, <3>3, CrashStep
  <2>5. CASE Open
    BY <2>5, OpenStep, GrowsKeepsRecords
  <2> QED  BY <2>1, <2>2, <2>3, <2>4, <2>5 DEF Next
<1> QED  BY <1>1, InvHolds, PTL DEF Spec, OnlyRequestsRemove

-----------------------------------------------------------------------------
(* The files as one log *)

\* c[k] is the first k of the files, one after the other.
Joined(c, d, bases, n) ==
  c = [k \in 0..n |-> IF k = 0 THEN << >> ELSE c[k - 1] \o d[bases[k]].records]

LEMMA JoinedExists ==
  ASSUME NEW d, NEW bases, NEW n \in Nat
  PROVE  \E c : Joined(c, d, bases, n)
<1> DEFINE Bad == {m \in Nat : ~\E c : Joined(c, d, bases, m)}
<1> SUFFICES ASSUME Bad # {} PROVE FALSE
  BY Zenon
<1>1. PICK m \in Bad : \A y \in Bad : m <= y
  <2>1. Bad \subseteq Nat
    OBVIOUS
  <2> HIDE DEF Bad
  <2> QED  BY <2>1, LeastExists
<1>2. CASE m = 0
  <2> DEFINE c == [k \in 0..0 |-> << >>]
  <2>1. Joined(c, d, bases, 0)
    <3>1. \A k \in 0..0 : k = 0
      OBVIOUS
    <3> QED  BY <3>1, Zenon DEF Joined
  <2> QED  BY <1>1, <1>2, <2>1, Zenon
<1>3. CASE m # 0
  <2>1. m \in Nat /\ m - 1 \in Nat /\ ~(m <= m - 1)
    BY <1>3
  <2>2. PICK c : Joined(c, d, bases, m - 1)
    BY <1>1, <2>1, Zenon
  <2> DEFINE w(k, x) == x \o d[bases[k]].records
             h == [k \in 0..m |-> IF k = m THEN w(m, c[m - 1]) ELSE c[k]]
  <2>3. \A k \in 0..m : k # 0 => k - 1 \in 0..m /\ k - 1 # m
    BY <2>1
  <2>4. \A k \in 0..m : k # m => k \in 0..(m - 1)
    BY <2>1
  <2>5. \A k \in 0..(m - 1) : c[k] = IF k = 0 THEN << >> ELSE w(k, c[k - 1])
    BY <2>2, Zenon DEF Joined
  <2> HIDE DEF w
  <2>6. \A k \in 0..m : k # 0 => h[k - 1] = c[k - 1]
    BY <2>3, Zenon
  <2>7. \A k \in 0..m : (IF k = m THEN w(m, c[m - 1]) ELSE c[k]) =
                          IF k = 0 THEN << >> ELSE w(k, h[k - 1])
    <3> TAKE k \in 0..m
    <3>1. CASE k = m
      BY <1>3, <2>6, <3>1, Zenon
    <3>2. CASE k # m
      <4> HIDE DEF h
      <4> QED  BY <2>4, <2>5, <2>6, <3>2, Zenon
    <3> QED  BY <3>1, <3>2
  <2>8. h = [k \in 0..m |-> IF k = 0 THEN << >> ELSE w(k, h[k - 1])]
    BY <2>7, Zenon
  <2>9. Joined(h, d, bases, m)
    <3> HIDE DEF h
    <3> QED  BY <2>8, Zenon DEF w, Joined
  <2> HIDE DEF h
  <2> QED  BY <1>1, <2>9, Zenon
<1> QED  BY <1>2, <1>3

\* What RecordsOnDisk takes the lengths of.
LEMMA RecordsOnDiskIs ==
  ASSUME Len(InOrder(DOMAIN disk)) \in Nat
  PROVE  \E c : LET n == Len(InOrder(DOMAIN disk))
                IN  /\ c[0] = << >>
                    /\ \A k \in 1..n : c[k] = c[k - 1] \o disk[InOrder(DOMAIN disk)[k]].records
                    /\ RecordsOnDisk = [i \in 1..Len(c[n]) |-> c[n][i].length]
<1> DEFINE bases == InOrder(DOMAIN disk)
           n == Len(bases)
           Is(c) == c = [k \in 0..n |-> IF k = 0 THEN << >> ELSE c[k - 1] \o disk[bases[k]].records]
           u == CHOOSE c : Is(c)
<1>1. \E c : Is(c)
  <2>1. \E c : Joined(c, disk, bases, n)
    <3> HIDE DEF bases
    <3> QED  BY JoinedExists
  <2> QED  BY <2>1, Zenon DEF Joined
<1>2. RecordsOnDisk = [i \in 1..Len(u[n]) |-> u[n][i].length]
  BY Zenon DEF RecordsOnDisk
<1>3. PICK c : c = u /\ Is(c)
  <2> HIDE DEF Is
  <2> QED  BY <1>1, Zenon
<1>4. \A k \in 0..n : c[k] = IF k = 0 THEN << >> ELSE c[k - 1] \o disk[bases[k]].records
  BY <1>3, Zenon
<1>5. 0 \in 0..n /\ \A k \in 1..n : k \in 0..n /\ k # 0
  OBVIOUS
<1> HIDE DEF u
<1> QED  BY <1>2, <1>3, <1>4, <1>5, Zenon

\* Two records on disk with one offset are the same record.
LEMMA OneRecordPerOffset ==
  ASSUME NEW d, DiskInv(d), NEW q \in Records(d), NEW r \in Records(d), q.offset = r.offset
  PROVE  q = r
<1>1. PICK b \in DOMAIN d : \E j \in 1..Len(d[b].records) : q = d[b].records[j]
  BY RecordFrom
<1>2. PICK j \in 1..Len(d[b].records) : q = d[b].records[j]
  BY <1>1
<1>3. PICK c \in DOMAIN d : \E k \in 1..Len(d[c].records) : r = d[c].records[k]
  BY RecordFrom
<1>4. PICK k \in 1..Len(d[c].records) : r = d[c].records[k]
  BY <1>3
<1>5. /\ b \in Nat /\ c \in Nat /\ Len(d[b].records) \in Nat /\ Len(d[c].records) \in Nat
      /\ WellFormed(b, d[b].records) /\ WellFormed(c, d[c].records)
  BY FileTypes
<1>6. q.offset = b + j - 1 /\ r.offset = c + k - 1
  BY <1>2, <1>4, <1>5 DEF WellFormed
<1>7. (b < c => b + Len(d[b].records) <= c) /\ (c < b => c + Len(d[c].records) <= b)
  BY DEF DiskInv
<1>8. b + j - 1 = c + k - 1
  BY <1>6, Zenon
<1>9. b = c /\ j = k
  <2>1. PICK m, n : m = Len(d[b].records) /\ n = Len(d[c].records)
    OBVIOUS
  <2>2. j \in 1..m /\ k \in 1..n /\ m \in Nat /\ n \in Nat
    BY <1>5, <2>1
  <2>3. (b < c => b + m <= c) /\ (c < b => c + n <= b)
    BY <1>7, <2>1
  <2>4. j \in Nat /\ k \in Nat
    BY <2>2
  <2>5. b = c
    BY <1>5, <1>8, <2>2, <2>3
  <2> QED  BY <1>5, <1>8, <2>4, <2>5
<1> QED  BY <1>2, <1>4, <1>9

\* The files of d hold one log: it starts at offset f, and s has its lengths.
IsLog(d, f, s) ==
  /\ f \in DOMAIN d /\ \A c \in DOMAIN d : f <= c
  /\ s \in Seq(Payload)
  /\ \A r \in Records(d) : r.offset - f + 1 \in 1..Len(s) /\ s[r.offset - f + 1] = r.length
  /\ \A n \in 1..Len(s) : \E r \in Records(d) : r.offset = f + n - 1
  /\ \A z \in DOMAIN d : (\A c \in DOMAIN d : c <= z) => z + Len(d[z].records) = f + Len(s)

\* bases lists the numbers of D in increasing order.
Lists(bases, n, D) ==
  /\ bases \in [1..n -> D]
  /\ \A k, l \in 1..n : k < l => bases[k] < bases[l]
  /\ \A x \in D : \E k \in 1..n : bases[k] = x

\* A file that is not the last ends where the next one starts.
LEMMA NextBase ==
  ASSUME NEW d, DiskInv(d), Contiguous(d), NEW bases, NEW n \in Nat, Lists(bases, n, DOMAIN d),
         NEW k \in 1..n, k + 1 \in 1..n
  PROVE  bases[k + 1] = bases[k] + Len(d[bases[k]].records)
<1> USE DEF Lists
<1>1. PICK b, c, m : b = bases[k] /\ c = bases[k + 1] /\ m = Len(d[bases[k]].records)
  OBVIOUS
<1>2. b \in DOMAIN d /\ c \in DOMAIN d
  BY <1>1
<1>3. b \in Nat /\ c \in Nat /\ m \in Nat
  BY <1>1, <1>2, FileTypes
<1>4. k < k + 1
  OBVIOUS
<1>5. b < c
  BY <1>1, <1>4
<1>6. b + m <= c
  BY <1>1, <1>2, <1>5 DEF DiskInv
<1>7. ~(c <= b)
  BY <1>3, <1>5
<1>8. b + m \in DOMAIN d \ {b}
  BY <1>1, <1>2, <1>7 DEF Contiguous
<1>9. PICK l \in 1..n : bases[l] = b + m
  BY <1>8
<1>10. b < b + m
  BY <1>3, <1>8
<1>11. ~(l < k) /\ l # k
  <2>1. l < k => bases[l] < b
    BY <1>1
  <2>2. l = k => bases[l] = b
    BY <1>1
  <2> QED  BY <1>3, <1>9, <1>10, <2>1, <2>2
<1>12. k + 1 <= l
  BY <1>11
<1>13. CASE l = k + 1
  BY <1>1, <1>9, <1>13
<1>14. CASE k + 1 < l
  <2>1. c < bases[l]
    BY <1>1, <1>14
  <2> QED  BY <1>3, <1>6, <1>9, <2>1
<1> QED  BY <1>12, <1>13, <1>14

\* The first k files, joined, hold the records from the first base on.
JoinedTo(c, d, f, end) ==
  /\ c \in Seq(Record)
  /\ Len(c) = end - f
  /\ \A i \in 1..Len(c) : c[i] \in Records(d) /\ c[i].offset = f + i - 1

LEMMA JoinFile ==
  ASSUME NEW d, DiskInv(d), NEW f \in Nat, NEW b \in DOMAIN d, NEW c, JoinedTo(c, d, f, b)
  PROVE  JoinedTo(c \o d[b].records, d, f, b + Len(d[b].records))
<1>1. PICK rs, m, n, t : rs = d[b].records /\ m = Len(rs) /\ n = Len(c) /\ t = c \o rs
  OBVIOUS
<1>2. b \in Nat /\ rs \in Seq(Record) /\ m \in Nat /\ WellFormed(b, rs)
  BY <1>1, FileTypes
<1>3. c \in Seq(Record) /\ n \in Nat /\ n = b - f
  BY <1>1 DEF JoinedTo
<1>4. /\ t \in Seq(Record) /\ Len(t) = n + m
      /\ \A i \in 1..(n + m) : t[i] = IF i <= n THEN c[i] ELSE rs[i - n]
  <2>1. /\ c \o rs \in Seq(Record) /\ Len(c \o rs) = Len(c) + Len(rs)
        /\ \A i \in 1..(Len(c) + Len(rs)) :
             (c \o rs)[i] = IF i <= Len(c) THEN c[i] ELSE rs[i - Len(c)]
    BY <1>2, <1>3, ConcatProperties
  <2> QED  BY <1>1, <2>1, Zenon
<1>5. Len(t) = (b + m) - f
  BY <1>2, <1>3, <1>4
<1>6. ASSUME NEW i \in 1..Len(t)
      PROVE  t[i] \in Records(d) /\ t[i].offset = f + i - 1
  <2>1. i \in 1..(n + m)
    BY <1>4
  <2>2. CASE i <= n
    <3>1. i \in 1..Len(c) /\ t[i] = c[i]
      BY <1>1, <1>3, <1>4, <2>1, <2>2
    <3> QED  BY <3>1 DEF JoinedTo
  <2>3. CASE ~(i <= n)
    <3>1. i - n \in 1..m /\ t[i] = rs[i - n]
      BY <1>2, <1>3, <1>4, <2>1, <2>3
    <3>2. rs[i - n] \in Records(d)
      BY <1>1, <3>1, RecordIn
    <3>3. rs[i - n].offset = b + (i - n) - 1
      BY <1>1, <1>2, <3>1 DEF WellFormed
    <3>4. b + (i - n) - 1 = f + i - 1
      BY <1>2, <1>3, <2>1, SMTT(40)
    <3> QED  BY <3>1, <3>2, <3>3, <3>4
  <2> QED  BY <2>2, <2>3
<1>7. \A i \in 1..Len(t) : t[i] \in Records(d) /\ t[i].offset = f + i - 1
  BY <1>6
<1>8. JoinedTo(t, d, f, b + m)
  BY <1>4, <1>5, <1>7, Zenon DEF JoinedTo
<1> QED  BY <1>1, <1>8

LEMMA JoinedFiles ==
  ASSUME NEW d, DiskInv(d), Contiguous(d), NEW bases, NEW n \in Nat, Lists(bases, n, DOMAIN d),
         NEW c, c[0] = << >>, \A k \in 1..n : c[k] = c[k - 1] \o d[bases[k]].records
  PROVE  \A k \in 1..n : JoinedTo(c[k], d, bases[1], bases[k] + Len(d[bases[k]].records))
<1> DEFINE f == bases[1]
           end(k) == bases[k] + Len(d[bases[k]].records)
           Bad == {k \in 1..n : ~JoinedTo(c[k], d, f, end(k))}
<1> SUFFICES ASSUME Bad # {} PROVE FALSE
  OBVIOUS
<1>1. PICK k \in Bad : \A y \in Bad : k <= y
  <2>1. Bad \subseteq Nat
    OBVIOUS
  <2> HIDE DEF Bad
  <2> QED  BY <2>1, LeastExists
<1>2. k \in 1..n /\ ~JoinedTo(c[k], d, f, end(k))
  BY <1>1
<1>3. 1 \in 1..n /\ f \in DOMAIN d /\ bases[k] \in DOMAIN d
  BY <1>2 DEF Lists
<1>4. f \in Nat
  BY <1>3, FileTypes
<1>5. JoinedTo(c[k - 1], d, f, bases[k])
  <2>1. CASE k = 1
    <3>1. c[k - 1] = << >> /\ bases[k] = f
      BY <2>1
    <3>2. << >> \in Seq(Record) /\ Len(<< >>) = 0 /\ f - f = 0 /\ \A i \in 1..0 : FALSE
      BY <1>4
    <3> HIDE DEF f
    <3> QED  BY <3>1, <3>2, Zenon DEF JoinedTo
  <2>2. CASE k # 1
    <3>1. k - 1 \in 1..n /\ ~(k <= k - 1) /\ (k - 1) + 1 = k
      BY <1>2, <2>2
    <3>2. k - 1 \notin Bad
      <4> HIDE DEF Bad
      <4> QED  BY <1>1, <3>1
    <3>3. JoinedTo(c[k - 1], d, f, end(k - 1))
      BY <3>1, <3>2
    <3>4. bases[k] = end(k - 1)
      <4>1. PICK l : l = k - 1
        OBVIOUS
      <4>2. l \in 1..n /\ l + 1 \in 1..n /\ l + 1 = k
        BY <1>2, <3>1, <4>1
      <4>3. bases[l + 1] = bases[l] + Len(d[bases[l]].records)
        BY <4>2, NextBase
      <4> QED  BY <4>1, <4>2, <4>3
    <3> QED  BY <3>3, <3>4
  <2> QED  BY <2>1, <2>2
<1>6. JoinedTo(c[k - 1] \o d[bases[k]].records, d, f, end(k))
  <2> HIDE DEF f
  <2> QED  BY <1>3, <1>4, <1>5, JoinFile
<1>7. c[k] = c[k - 1] \o d[bases[k]].records
  BY <1>2
<1> QED  BY <1>2, <1>6, <1>7

LEMMA FilesAreLog ==
  ASSUME NEW d, DiskInv(d), NEW f \in DOMAIN d, \A c \in DOMAIN d : f <= c,
         NEW z \in DOMAIN d, \A c \in DOMAIN d : c <= z,
         NEW c, JoinedTo(c, d, f, z + Len(d[z].records))
  PROVE  IsLog(d, f, [i \in 1..Len(c) |-> c[i].length])
<1>1. PICK s, n, m : s = [i \in 1..Len(c) |-> c[i].length] /\ n = Len(c) /\ m = Len(d[z].records)
  OBVIOUS
<1>2. f \in Nat /\ z \in Nat /\ m \in Nat
  BY <1>1, FileTypes
<1>3. c \in Seq(Record) /\ n \in Nat /\ n = (z + m) - f
  BY <1>1 DEF JoinedTo
<1>4. \A i \in 1..n : /\ c[i] \in Records(d) /\ c[i].offset = f + i - 1
                      /\ c[i].length \in Payload
  <2>1. \A i \in 1..n : c[i] \in Records(d) /\ c[i].offset = f + i - 1
    BY <1>1 DEF JoinedTo
  <2>2. \A i \in 1..n : c[i] \in Record
    <3>1. n = Len(c)
      BY <1>1
    <3> QED  BY <1>3, <3>1, ElementOfSeq
  <2>3. \A i \in 1..n : c[i].length \in Payload
    BY <2>2 DEF Record
  <2> QED  BY <2>1, <2>3
<1>5. s \in Seq(Payload) /\ Len(s) = n /\ \A i \in 1..n : s[i] = c[i].length
  <2>1. s \in [1..n -> Payload] /\ \A i \in 1..n : s[i] = c[i].length
    BY <1>1, <1>4
  <2> QED  BY <1>3, <2>1
<1>6. ASSUME NEW r \in Records(d)
      PROVE  r.offset - f + 1 \in 1..n /\ s[r.offset - f + 1] = r.length
  <2>1. PICK b \in DOMAIN d : \E j \in 1..Len(d[b].records) : r = d[b].records[j]
    BY RecordFrom
  <2>2. PICK j \in 1..Len(d[b].records) : r = d[b].records[j]
    BY <2>1
  <2>3. PICK l, o, i : l = Len(d[b].records) /\ o = r.offset /\ i = o - f + 1
    OBVIOUS
  <2>4. b \in Nat /\ l \in Nat /\ WellFormed(b, d[b].records)
    BY <2>3, FileTypes
  <2>5. o = b + j - 1 /\ j \in 1..l
    BY <2>2, <2>3, <2>4 DEF WellFormed
  <2>6. f <= b /\ b <= z /\ (b < z => b + l <= z) /\ (b = z => l = m)
    BY <1>1, <2>3 DEF DiskInv
  <2>7. b + l <= z + m
    BY <1>2, <2>4, <2>6
  <2>8. i \in 1..n /\ f + i - 1 = o
    <3>1. i = o - f + 1 /\ j \in Nat /\ 1 <= j /\ j <= l
      BY <2>3, <2>4, <2>5
    <3>2. o \in Nat /\ f <= o /\ o < b + l
      BY <1>2, <2>4, <2>5, <2>6, <3>1, SMTT(40)
    <3>3. o < z + m
      BY <1>2, <2>4, <2>7, <3>2
    <3>4. i \in Nat /\ 1 <= i /\ f + i - 1 = o
      BY <1>2, <3>1, <3>2
    <3>5. i <= n
      BY <1>2, <1>3, <3>2, <3>3, <3>4
    <3> QED  BY <1>3, <3>4, <3>5
  <2>9. c[i] \in Records(d) /\ c[i].offset = f + i - 1
    BY <1>4, <2>8
  <2>10. c[i].offset = r.offset
    BY <2>3, <2>8, <2>9, Zenon
  <2>11. c[i] = r
    BY <2>9, <2>10, OneRecordPerOffset
  <2> QED  BY <1>5, <2>3, <2>8, <2>11
<1>7. \A i \in 1..n : \E r \in Records(d) : r.offset = f + i - 1
  BY <1>4
<1>8. \A y \in DOMAIN d : (\A x \in DOMAIN d : x <= y) => y + Len(d[y].records) = f + n
  <2> SUFFICES ASSUME NEW y \in DOMAIN d, \A x \in DOMAIN d : x <= y
               PROVE  y + Len(d[y].records) = f + n
    OBVIOUS
  <2>1. y \in Nat /\ y <= z /\ z <= y
    BY FileTypes
  <2>2. y = z
    BY <1>2, <2>1
  <2> QED  BY <1>1, <1>2, <1>3, <2>2
<1>9. \A r \in Records(d) : r.offset - f + 1 \in 1..n /\ s[r.offset - f + 1] = r.length
  BY <1>6
<1>10. IsLog(d, f, s)
  BY <1>5, <1>7, <1>8, <1>9, Zenon DEF IsLog
<1> QED  BY <1>1, <1>10

\* Without gaps the files of the disk are one log.
LEMMA OnDisk == LogInv /\ Orderly => IsLog(disk, FirstOnDisk, RecordsOnDisk)
<1> SUFFICES ASSUME LogInv, Orderly PROVE IsLog(disk, FirstOnDisk, RecordsOnDisk)
  OBVIOUS
<1>1. PICK d, D, bases, n : d = disk /\ D = DOMAIN d /\ bases = InOrder(D) /\ n = Cardinality(D)
  OBVIOUS
<1>2. DiskInv(d)
  BY <1>1 DEF LogInv
<1>3. Contiguous(d) /\ D \subseteq Nat /\ IsFiniteSet(D) /\ D # {}
  BY <1>1, <1>2 DEF DiskInv
<1>4. n \in Nat /\ Lists(bases, n, D)
  <2>1. D \subseteq Int
    BY <1>3
  <2> QED  BY <1>1, <1>3, <2>1, InOrderLists DEF Lists
<1>5. Len(bases) = n
  BY <1>4 DEF Lists
<1>6. 1 \in 1..n /\ n \in 1..n
  <2>1. PICK x \in D : TRUE
    BY <1>3
  <2>2. \E k \in 1..n : bases[k] = x
    BY <1>4 DEF Lists
  <2> QED  BY <1>4, <2>2
<1>7. /\ bases[1] \in D /\ \A x \in D : bases[1] <= x
      /\ bases[n] \in D /\ \A x \in D : x <= bases[n]
  <2>1. bases[1] \in D /\ bases[n] \in D
    BY <1>4, <1>6 DEF Lists
  <2>2. ASSUME NEW x \in D PROVE bases[1] <= x /\ x <= bases[n]
    <3>1. PICK k \in 1..n : bases[k] = x
      BY <1>4 DEF Lists
    <3>2. (1 < k => bases[1] < x) /\ (k < n => x < bases[n])
      BY <1>4, <1>6, <3>1 DEF Lists
    <3>3. x \in Nat /\ bases[1] \in Nat /\ bases[n] \in Nat
      BY <1>3, <2>1
    <3>4. (k = 1 => bases[1] = x) /\ (k = n => bases[n] = x)
      BY <3>1
    <3>5. (1 < k \/ k = 1) /\ (k < n \/ k = n)
      BY <1>4
    <3> QED  BY <3>2, <3>3, <3>4, <3>5
  <2> QED  BY <2>1, <2>2
<1>8. FirstOnDisk = bases[1]
  <2>1. D \subseteq Int
    BY <1>3
  <2>2. MinIn(D) = bases[1]
    BY <1>7, <2>1, MinInIs
  <2> QED  BY <1>1, <2>2 DEF FirstOnDisk
<1>9. PICK c : /\ c[0] = << >>
               /\ \A k \in 1..n : c[k] = c[k - 1] \o d[bases[k]].records
               /\ RecordsOnDisk = [i \in 1..Len(c[n]) |-> c[n][i].length]
  <2>1. Len(InOrder(DOMAIN disk)) = n /\ n \in Nat
    BY <1>1, <1>4, <1>5
  <2>2. PICK c : /\ c[0] = << >>
                 /\ \A k \in 1..Len(InOrder(DOMAIN disk)) :
                      c[k] = c[k - 1] \o disk[InOrder(DOMAIN disk)[k]].records
                 /\ RecordsOnDisk = [i \in 1..Len(c[Len(InOrder(DOMAIN disk))]) |->
                                       c[Len(InOrder(DOMAIN disk))][i].length]
    BY <2>1, RecordsOnDiskIs
  <2>3. \A k \in 1..n : c[k] = c[k - 1] \o d[bases[k]].records
    BY <1>1, <2>1, <2>2
  <2>4. RecordsOnDisk = [i \in 1..Len(c[n]) |-> c[n][i].length]
    BY <2>1, <2>2, Zenon
  <2> QED  BY <2>2, <2>3, <2>4
<1>10. JoinedTo(c[n], d, bases[1], bases[n] + Len(d[bases[n]].records))
  <2>1. Lists(bases, n, DOMAIN d)
    BY <1>1, <1>4
  <2>2. \A k \in 1..n : JoinedTo(c[k], d, bases[1], bases[k] + Len(d[bases[k]].records))
    BY <1>2, <1>3, <1>4, <1>9, <2>1, JoinedFiles
  <2> QED  BY <1>6, <2>2
<1>11. PICK f, z, j : f = bases[1] /\ z = bases[n] /\ j = c[n]
  OBVIOUS
<1>12. IsLog(d, f, [i \in 1..Len(j) |-> j[i].length])
  <2>1. /\ f \in DOMAIN d /\ \A x \in DOMAIN d : f <= x
        /\ z \in DOMAIN d /\ \A x \in DOMAIN d : x <= z
    BY <1>1, <1>7, <1>11
  <2>2. JoinedTo(j, d, f, z + Len(d[z].records))
    BY <1>10, <1>11
  <2> QED  BY <1>2, <2>1, <2>2, FilesAreLog
<1> QED  BY <1>1, <1>8, <1>9, <1>11, <1>12

\* The log t from g on has what s has from f on.
Covers(t, g, s, f) ==
  \A n \in 1..Len(s) : f + n - g \in 1..Len(t) /\ t[f + n - g] = s[n]

\* A log whose records the other has too is the same where both have records.
LEMMA SameRecords ==
  ASSUME NEW d, NEW f \in Nat, NEW s, IsLog(d, f, s), NEW e, NEW g \in Nat, NEW t, IsLog(e, g, t),
         Records(d) \subseteq Records(e)
  PROVE  Covers(t, g, s, f)
<1> SUFFICES ASSUME NEW n \in 1..Len(s)
             PROVE  f + n - g \in 1..Len(t) /\ t[f + n - g] = s[n]
  BY DEF Covers
<1>1. PICK r \in Records(d) : r.offset = f + n - 1
  BY DEF IsLog
<1>2. PICK o : o = r.offset
  OBVIOUS
<1>3. s[o - f + 1] = r.length /\ o - g + 1 \in 1..Len(t) /\ t[o - g + 1] = r.length
  BY <1>2 DEF IsLog
<1>4. o - f + 1 = n /\ o - g + 1 = f + n - g
  <2>1. o = f + n - 1 /\ n \in Int
    BY <1>1, <1>2 DEF IsLog
  <2> QED  BY <2>1
<1> QED  BY <1>3, <1>4

LEMMA SubSeqIs ==
  ASSUME NEW S, NEW s \in Seq(S), NEW a \in Nat, NEW b \in Nat, a + b <= Len(s)
  PROVE  /\ SubSeq(s, a + 1, a + b) \in Seq(S) /\ Len(SubSeq(s, a + 1, a + b)) = b
         /\ \A i \in 1..b : SubSeq(s, a + 1, a + b)[i] = s[a + i]
OBVIOUS

LEMMA GrowsExtends ==
  ASSUME NEW d, DiskInv(d), NEW f, NEW s, IsLog(d, f, s),
         NEW e, DiskInv(e), NEW g, NEW t, IsLog(e, g, t), Grows(d, e)
  PROVE  /\ g = f /\ Len(s) \in Nat /\ Len(t) \in Nat
         /\ Len(s) <= Len(t) /\ t = s \o SubSeq(t, Len(s) + 1, Len(t))
<1>1. f \in DOMAIN d /\ g \in DOMAIN e /\ s \in Seq(Payload) /\ t \in Seq(Payload)
  BY DEF IsLog
<1>2. f \in Nat /\ g \in Nat
  BY <1>1, FileTypes
<1>3. g = f
  <2>1. f \in DOMAIN e
    BY <1>1 DEF Grows
  <2>2. g <= f
    BY <2>1 DEF IsLog
  <2>3. PICK b \in DOMAIN d : b <= g
    BY <1>1 DEF Grows
  <2>4. b \in Nat /\ f <= b
    BY FileTypes DEF IsLog
  <2> QED  BY <1>2, <2>2, <2>3, <2>4
<1>4. PICK m, n : m = Len(s) /\ n = Len(t)
  OBVIOUS
<1>5. m \in Nat /\ n \in Nat
  BY <1>1, <1>4
<1>6. Records(d) \subseteq Records(e)
  BY GrowsRecords
<1>7. \A i \in 1..m : i \in 1..n /\ t[i] = s[i]
  <2> TAKE i \in 1..m
  <2>1. f + i - g \in 1..n /\ t[f + i - g] = s[i]
    <3>1. i \in 1..Len(s)
      BY <1>4
    <3>2. Covers(t, g, s, f)
      BY <1>2, <1>6, SameRecords
    <3>3. f + i - g \in 1..Len(t) /\ t[f + i - g] = s[i]
      BY <3>1, <3>2 DEF Covers
    <3> QED  BY <1>4, <3>3
  <2>2. f + i - g = i
    BY <1>2, <1>3
  <2> QED  BY <2>1, <2>2
<1>8. m <= n
  <2>1. CASE m = 0
    BY <1>5, <2>1
  <2>2. CASE m # 0
    <3>1. m \in 1..m
      BY <1>5, <2>2
    <3>2. m \in 1..n
      BY <1>7, <3>1
    <3> QED  BY <1>5, <3>2
  <2> QED  BY <2>1, <2>2
<1>9. PICK k, u : k = n - m /\ u = SubSeq(t, m + 1, m + k)
  OBVIOUS
<1>10. k \in Nat /\ m + k = n
  BY <1>5, <1>8, <1>9
<1>11. u \in Seq(Payload) /\ Len(u) = k /\ \A i \in 1..k : u[i] = t[m + i]
  BY <1>1, <1>4, <1>5, <1>9, <1>10, SubSeqIs
<1>12. /\ s \o u \in Seq(Payload) /\ Len(s \o u) = n
       /\ \A i \in 1..n : (s \o u)[i] = IF i <= m THEN s[i] ELSE u[i - m]
  <2>1. /\ s \o u \in Seq(Payload) /\ Len(s \o u) = Len(s) + Len(u)
        /\ \A i \in 1..(Len(s) + Len(u)) : (s \o u)[i] = IF i <= Len(s) THEN s[i] ELSE u[i - Len(s)]
    BY <1>1, <1>11, ConcatProperties
  <2>2. Len(s) = m /\ Len(u) = k /\ m + k = n
    BY <1>4, <1>10, <1>11
  <2> QED  BY <2>1, <2>2, Zenon
<1>13. \A i \in 1..n : t[i] = (s \o u)[i]
  <2> TAKE i \in 1..n
  <2>1. CASE i <= m
    <3>1. i \in 1..m
      BY <1>5, <2>1
    <3> QED  BY <1>7, <1>12, <2>1, <3>1
  <2>2. CASE ~(i <= m)
    <3>1. i - m \in 1..k /\ m + (i - m) = i
      BY <1>5, <1>10, <2>2
    <3>2. (s \o u)[i] = u[i - m]
      BY <1>12, <2>2
    <3>3. u[i - m] = t[m + (i - m)]
      BY <1>11, <3>1
    <3> QED  BY <3>1, <3>2, <3>3
  <2> QED  BY <2>1, <2>2
<1>14. t = s \o u
  BY <1>1, <1>4, <1>12, <1>13, SeqEqual
<1> QED  BY <1>3, <1>4, <1>5, <1>8, <1>9, <1>10, <1>14

LEMMA CutsEndTruncates ==
  ASSUME NEW d, DiskInv(d), NEW f, NEW s, IsLog(d, f, s),
         NEW e, DiskInv(e), NEW g, NEW t, IsLog(e, g, t), CutsEnd(d, e)
  PROVE  g = f /\ Len(t) \in 0..Len(s) /\ t = SubSeq(s, 1, Len(t))
<1>1. f \in DOMAIN d /\ g \in DOMAIN e /\ s \in Seq(Payload) /\ t \in Seq(Payload)
  BY DEF IsLog
<1>2. f \in Nat /\ g \in Nat
  BY <1>1, FileTypes
<1>3. g = f
  <2>1. g \in DOMAIN d
    BY <1>1 DEF CutsEnd
  <2>2. f <= g
    BY <2>1 DEF IsLog
  <2>3. PICK b \in DOMAIN e : b <= f
    BY <1>1 DEF CutsEnd
  <2>4. b \in Nat /\ g <= b
    BY FileTypes DEF IsLog
  <2> QED  BY <1>2, <2>2, <2>3, <2>4
<1>4. PICK m, n : m = Len(s) /\ n = Len(t)
  OBVIOUS
<1>5. m \in Nat /\ n \in Nat
  BY <1>1, <1>4
<1>6. Records(e) \subseteq Records(d)
  BY DEF CutsEnd
<1>7. \A i \in 1..n : i \in 1..m /\ s[i] = t[i]
  <2> TAKE i \in 1..n
  <2>1. g + i - f \in 1..m /\ s[g + i - f] = t[i]
    <3>1. i \in 1..Len(t)
      BY <1>4
    <3>2. Covers(s, f, t, g)
      BY <1>2, <1>6, SameRecords
    <3>3. g + i - f \in 1..Len(s) /\ s[g + i - f] = t[i]
      BY <3>1, <3>2 DEF Covers
    <3> QED  BY <1>4, <3>3
  <2>2. g + i - f = i
    BY <1>2, <1>3
  <2> QED  BY <2>1, <2>2
<1>8. n <= m
  <2>1. CASE n = 0
    BY <1>5, <2>1
  <2>2. CASE n # 0
    <3>1. n \in 1..n
      BY <1>5, <2>2
    <3>2. n \in 1..m
      BY <1>7, <3>1
    <3> QED  BY <1>5, <3>2
  <2> QED  BY <2>1, <2>2
<1>9. PICK u : u = SubSeq(s, 1, n)
  OBVIOUS
<1>10. u \in Seq(Payload) /\ Len(u) = n /\ \A i \in 1..n : u[i] = s[i]
  BY <1>1, <1>4, <1>5, <1>8, <1>9
<1>11. \A i \in 1..n : t[i] = u[i]
  BY <1>7, <1>10
<1>12. t = u
  BY <1>1, <1>4, <1>10, <1>11, SeqEqual
<1> QED  BY <1>3, <1>4, <1>5, <1>8, <1>9, <1>12

LEMMA CutsFrontDrops ==
  ASSUME NEW d, DiskInv(d), NEW f, NEW s, IsLog(d, f, s),
         NEW e, DiskInv(e), NEW g, NEW t, IsLog(e, g, t), CutsFront(d, e)
  PROVE  \E n \in 0..Len(s) : g = f + n /\ t = SubSeq(s, n + 1, Len(s))
<1>1. f \in DOMAIN d /\ g \in DOMAIN e /\ s \in Seq(Payload) /\ t \in Seq(Payload)
  BY DEF IsLog
<1>2. f \in Nat /\ g \in Nat
  BY <1>1, FileTypes
<1>3. f <= g
  <2>1. g \in DOMAIN d
    BY <1>1 DEF CutsFront
  <2> QED  BY <2>1 DEF IsLog
<1>4. PICK m, k, n : m = Len(s) /\ k = Len(t) /\ n = g - f
  OBVIOUS
<1>5. m \in Nat /\ k \in Nat /\ n \in Nat /\ g = f + n
  BY <1>1, <1>2, <1>3, <1>4
<1>6. f + m = g + k
  <2>1. PICK z \in DOMAIN e : (\A c \in DOMAIN d : c <= z) /\ e[z] = d[z]
    BY DEF CutsFront
  <2>2. z \in DOMAIN d /\ \A c \in DOMAIN e : c <= z
    BY <2>1 DEF CutsFront
  <2>3. z + Len(d[z].records) = f + m
    BY <1>4, <2>1, <2>2 DEF IsLog
  <2>4. z + Len(e[z].records) = g + k
    BY <1>4, <2>2 DEF IsLog
  <2> QED  BY <2>1, <2>3, <2>4
<1>7. n + k = m
  BY <1>2, <1>5, <1>6
<1>8. Records(e) \subseteq Records(d)
  BY DEF CutsFront
<1>9. \A i \in 1..k : s[n + i] = t[i]
  <2> TAKE i \in 1..k
  <2>1. s[g + i - f] = t[i]
    <3>1. i \in 1..Len(t)
      BY <1>4
    <3>2. Covers(s, f, t, g)
      BY <1>2, <1>8, SameRecords
    <3> QED  BY <3>1, <3>2 DEF Covers
  <2>2. g + i - f = n + i
    BY <1>2, <1>5
  <2> QED  BY <2>1, <2>2
<1>10. PICK u : u = SubSeq(s, n + 1, n + k)
  OBVIOUS
<1>11. u \in Seq(Payload) /\ Len(u) = k /\ \A i \in 1..k : u[i] = s[n + i]
  <2>1. n + k <= Len(s)
    BY <1>4, <1>5, <1>7
  <2> QED  BY <1>1, <1>5, <1>10, <2>1, SubSeqIs
<1>12. \A i \in 1..k : t[i] = u[i]
  BY <1>9, <1>11
<1>13. t = u
  BY <1>1, <1>4, <1>11, <1>12, SeqEqual
<1>14. n \in 0..m
  BY <1>5, <1>7
<1> QED  BY <1>4, <1>5, <1>7, <1>10, <1>13, <1>14

\* The disk after a step is one log again.
LEMMA OnDiskNext ==
  ASSUME Orderly, LogInv'
  PROVE  IsLog(disk', FirstOnDisk', RecordsOnDisk') /\ DiskInv(disk')
<1>1. (LogInv /\ Orderly => IsLog(disk, FirstOnDisk, RecordsOnDisk))'
  BY OnDisk, PTL
<1>2. DiskInv(disk')
  BY DEF LogInv
<1> QED  BY <1>1, <1>2

LEMMA GrowthIsExtension ==
  ASSUME Orderly, LogInv, LogInv', Grows(disk, disk')
  PROVE  [Abstract!Next]_<<FirstOnDisk, RecordsOnDisk>>
<1>1. PICK f, s, g, t : f = FirstOnDisk /\ s = RecordsOnDisk /\ g = FirstOnDisk' /\ t = RecordsOnDisk'
  OBVIOUS
<1>2. DiskInv(disk) /\ IsLog(disk, f, s)
  BY <1>1, OnDisk DEF LogInv
<1>3. DiskInv(disk') /\ IsLog(disk', g, t)
  BY <1>1, OnDiskNext
<1>4. /\ g = f /\ Len(s) \in Nat /\ Len(t) \in Nat
      /\ Len(s) <= Len(t) /\ t = s \o SubSeq(t, Len(s) + 1, Len(t))
  BY <1>2, <1>3, GrowsExtends
<1>5. CASE Len(t) > Len(s)
  <2>1. Abstract!Extend(SubSeq(t, Len(s) + 1, Len(t)))
    BY <1>1, <1>4 DEF Abstract!Extend
  <2>2. Len(RecordsOnDisk') > Len(RecordsOnDisk)
        /\ Abstract!Extend(SubSeq(RecordsOnDisk', Len(RecordsOnDisk) + 1, Len(RecordsOnDisk')))
    BY <1>1, <1>5, <2>1
  <2> QED  BY <2>2 DEF Abstract!Next
<1>6. CASE ~(Len(t) > Len(s))
  <2>1. Len(t) = Len(s)
    BY <1>4, <1>6
  <2>2. SubSeq(t, Len(s) + 1, Len(t)) = << >>
    BY <1>4, <2>1
  <2>3. s \in Seq(Payload)
    BY <1>2 DEF IsLog
  <2>4. t = s
    <3>1. s \o << >> = s
      BY <2>3, ConcatEmptySeq
    <3> QED  BY <1>4, <2>2, <3>1, Zenon
  <2> QED  BY <1>1, <1>4, <2>4
<1> QED  BY <1>5, <1>6

LEMMA CutIsTruncation ==
  ASSUME Orderly, LogInv, LogInv', CutsEnd(disk, disk')
  PROVE  [Abstract!Next]_<<FirstOnDisk, RecordsOnDisk>>
<1>1. PICK f, s, g, t : f = FirstOnDisk /\ s = RecordsOnDisk /\ g = FirstOnDisk' /\ t = RecordsOnDisk'
  OBVIOUS
<1>2. DiskInv(disk) /\ IsLog(disk, f, s)
  BY <1>1, OnDisk DEF LogInv
<1>3. DiskInv(disk') /\ IsLog(disk', g, t)
  BY <1>1, OnDiskNext
<1>4. g = f /\ Len(t) \in 0..Len(s) /\ t = SubSeq(s, 1, Len(t))
  BY <1>2, <1>3, CutsEndTruncates
<1>5. \E n \in 0..Len(RecordsOnDisk) : Abstract!Truncate(n)
  BY <1>1, <1>4 DEF Abstract!Truncate
<1> QED  BY <1>5 DEF Abstract!Next

LEMMA RetentionDropsOldest ==
  ASSUME Orderly, LogInv, LogInv', CutsFront(disk, disk')
  PROVE  [Abstract!Next]_<<FirstOnDisk, RecordsOnDisk>>
<1>1. PICK f, s, g, t : f = FirstOnDisk /\ s = RecordsOnDisk /\ g = FirstOnDisk' /\ t = RecordsOnDisk'
  OBVIOUS
<1>2. DiskInv(disk) /\ IsLog(disk, f, s)
  BY <1>1, OnDisk DEF LogInv
<1>3. DiskInv(disk') /\ IsLog(disk', g, t)
  BY <1>1, OnDiskNext
<1>4. \E n \in 0..Len(s) : g = f + n /\ t = SubSeq(s, n + 1, Len(s))
  BY <1>2, <1>3, CutsFrontDrops
<1>5. \E n \in 0..Len(RecordsOnDisk) : Abstract!DropOldest(n)
  BY <1>1, <1>4 DEF Abstract!DropOldest
<1> QED  BY <1>5 DEF Abstract!Next

LEMMA InitOnDisk ==
  ASSUME Orderly, Init
  PROVE  Abstract!Init
<1>1. PICK f, s : f = FirstOnDisk /\ s = RecordsOnDisk
  OBVIOUS
<1>2. IsLog(disk, f, s)
  BY <1>1, InitInv, OnDisk
<1>3. DOMAIN disk = {0} /\ disk[0].records = << >>
  BY DEF Init, EmptyFile
<1>4. f = 0
  BY <1>2, <1>3 DEF IsLog
<1>5. Records(disk) = {}
  <2>1. \A b \in DOMAIN disk : \A k \in 1..Len(disk[b].records) : FALSE
    BY <1>3
  <2> QED  BY <2>1, RecordFrom
<1>6. s \in Seq(Payload) /\ \A n \in 1..Len(s) : FALSE
  BY <1>2, <1>5 DEF IsLog
<1>7. s = << >>
  BY <1>6
<1> QED  BY <1>1, <1>4, <1>7 DEF Abstract!Init

\* The segmented files, with rolls, batches that span files, crashes inside
\* appends and retention, torn tails and recovery, implement the one log of
\* consecutive offsets that grows at its end, is cut at its end and loses its
\* oldest records, for every number and size of segments (CommitLog.append,
\* append_many, truncate_from, truncate_segments_before, recover).
THEOREM FilesImplementOrderedLog == Orderly => (Spec => ImplementsOrderedLog)
<1> SUFFICES ASSUME Orderly PROVE Spec => ImplementsOrderedLog
  OBVIOUS
<1>1. Init => Abstract!Init
  BY InitOnDisk
<1>2. LogInv /\ [Next]_vars => [Abstract!Next]_<<FirstOnDisk, RecordsOnDisk>>
  <2> SUFFICES ASSUME LogInv, [Next]_vars
               PROVE  [Abstract!Next]_<<FirstOnDisk, RecordsOnDisk>>
    OBVIOUS
  <2>1. CASE \E length \in Payload : AppendRecord(length)
    BY <2>1, AppendRecordStep, GrowthIsExtension
  <2>2. CASE \E batch \in Batches : AppendMany(batch)
    BY <2>2, AppendManyStep, GrowthIsExtension
  <2>3. CASE \E offset \in 0..MaxOffset : TruncateFrom(offset)
    BY <2>3, TruncateFromStep, CutIsTruncation
  <2>4. CASE \E offset \in 0..MaxOffset : TruncateSegmentsBefore(offset)
    BY <2>4, TruncateSegmentsBeforeStep, RetentionDropsOldest
  <2>5. CASE Crash
    <3>1. "truncate" \notin Faults /\ "damage" \notin Faults
      BY DEF Orderly
    <3>2. LogInv' /\ (Grows(disk, disk') \/ CutsFront(disk, disk'))
      BY <2>5, <3>1, CrashStep
    <3> QED  BY <3>2, GrowthIsExtension, RetentionDropsOldest
  <2>6. CASE Open
    BY <2>6, OpenStep, GrowthIsExtension
  <2>7. CASE UNCHANGED vars
    <3>1. LogInv' /\ disk' = disk
      BY <2>7, StutterStep DEF vars
    <3>2. Grows(disk, disk')
      BY <3>1, GrowsReflexive DEF LogInv
    <3> QED  BY <3>1, <3>2, GrowthIsExtension
  <2> QED  BY <2>1, <2>2, <2>3, <2>4, <2>5, <2>6, <2>7 DEF Next
<1> QED  BY <1>1, <1>2, InvHolds, PTL DEF Spec, ImplementsOrderedLog, Abstract!Spec
=============================================================================
