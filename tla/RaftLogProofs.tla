--------------------------- MODULE RaftLogProofs ---------------------------
(***************************************************************************)
(* What the operators of RaftLog return, for logs whose payloads are in    *)
(* any set P: the lemmas under the type invariant of Raft.                 *)
(***************************************************************************)
EXTENDS RaftLog, BoundTheorems, TLAPS, SequenceTheorems

EntryOf(P) == [index : Nat, term : Nat, payload : P]
LogOf(P) == [entries : Seq(EntryOf(P)), first_index : Nat \ {0},
             snapshot_last_index : Nat, snapshot_last_term : Nat \cup {-1}]

\* Least and Greatest return an element of the set or the default.
LEMMA LeastType ==
  ASSUME NEW S, NEW d
  PROVE  Least(S, d) \in S \cup {d}
BY DEF Least

LEMMA GreatestType ==
  ASSUME NEW S, NEW d
  PROVE  Greatest(S, d) \in S \cup {d}
BY DEF Greatest

\* Greatest returns an element of a non-empty bounded set.
LEMMA GreatestIn ==
  ASSUME NEW a \in Int, NEW b \in Int, NEW S, S \subseteq a..b, S # {}, NEW d
  PROVE  Greatest(S, d) \in S
BY GreatestExists DEF Greatest

-----------------------------------------------------------------------------

LEMMA EmptyLogType ==
  ASSUME NEW P
  PROVE  EmptyLog \in LogOf(P)
BY EmptySeq DEF EmptyLog, LogOf

\* What reading a log returns.
LEMMA ReadType ==
  ASSUME NEW P, NEW log \in LogOf(P)
  PROVE  /\ log.entries \in Seq(EntryOf(P))
         /\ Len(log.entries) \in Nat
         /\ LastIndex(log) \in Nat
         /\ LastTerm(log) \in Nat
         /\ LastPosition(log) \in Nat
<1>1. /\ log.entries \in Seq(EntryOf(P))
      /\ log.first_index \in Nat \ {0}
  BY DEF LogOf
<1>2. Len(log.entries) \in Nat
  BY <1>1, LenProperties
<1>3. log.entries # << >> => log.entries[Len(log.entries)] \in EntryOf(P)
  BY <1>1, EmptySeq, ElementOfSeq
<1>4. LastIndex(log) \in Nat /\ LastTerm(log) \in Nat
  BY <1>3 DEF LastIndex, LastTerm, EntryOf
<1> QED  BY <1>1, <1>2, <1>4 DEF LastPosition

LEMMA GetType ==
  ASSUME NEW P, NEW log \in LogOf(P), NEW k \in Int, Present(log, k)
  PROVE  Get(log, k) \in EntryOf(P)
<1>1. /\ log.entries \in Seq(EntryOf(P))
      /\ log.first_index \in Nat \ {0}
      /\ Len(log.entries) \in Nat
  BY ReadType DEF LogOf
<1>2. k - log.first_index + 1 \in 1..Len(log.entries)
  BY <1>1 DEF Present, LastPosition
<1> QED  BY <1>1, <1>2, ElementOfSeq DEF Get

LEMMA TermAtType ==
  ASSUME NEW P, NEW log \in LogOf(P), NEW k \in Int
  PROVE  /\ TermAt(log, k) \in Nat \cup {-1}
         /\ TermAt(log, k) # -1 <=> k = 0 \/ Present(log, k)
<1>1. Present(log, k) => Get(log, k).term \in Nat
  BY GetType DEF EntryOf
<1> QED  BY <1>1 DEF TermAt

LEMMA EntriesFromType ==
  ASSUME NEW P, NEW log \in LogOf(P), NEW index \in Nat, NEW limit \in Nat
  PROVE  EntriesFrom(log, index, limit) \in Seq(EntryOf(P))
<1> DEFINE skip == MaxOf(0, index - log.first_index)
           last == MinOf(Len(log.entries), skip + limit)
<1>1. /\ log.entries \in Seq(EntryOf(P))
      /\ log.first_index \in Nat
      /\ Len(log.entries) \in Nat
  BY ReadType DEF LogOf
<1>2. skip \in Nat /\ last \in Nat /\ last <= Len(log.entries)
  BY <1>1 DEF MaxOf, MinOf
<1>3. EntriesFrom(log, index, limit) = SubSeq(log.entries, skip + 1, last)
  BY DEF EntriesFrom
<1> HIDE DEF skip, last
<1>4. \A k \in (skip + 1)..last : log.entries[k] \in EntryOf(P)
  BY <1>1, <1>2, ElementOfSeq
<1> QED  BY <1>2, <1>3, <1>4, SubSeqProperties

LEMMA AppendEntryType ==
  ASSUME NEW P, NEW log \in LogOf(P), NEW t \in Nat, NEW payload \in P
  PROVE  AppendEntry(log, t, payload) \in LogOf(P)
<1>0. LastIndex(log) \in Nat
  BY ReadType
<1>1. [index |-> LastIndex(log) + 1, term |-> t, payload |-> payload] \in EntryOf(P)
  BY <1>0 DEF EntryOf
<1>2. Append(log.entries, [index |-> LastIndex(log) + 1, term |-> t, payload |-> payload])
        \in Seq(EntryOf(P))
  BY <1>1, ReadType, AppendProperties
<1> QED  BY <1>2 DEF AppendEntry, LogOf

LEMMA ResetToType ==
  ASSUME NEW P, NEW log \in LogOf(P), NEW index \in Nat, NEW t \in Nat \cup {-1}
  PROVE  ResetTo(log, index, t) \in LogOf(P)
<1> DEFINE above == {k \in 1..Len(log.entries) : log.entries[k].index > index}
           from == Least(above, Len(log.entries) + 1)
<1>1. log.entries \in Seq(EntryOf(P)) /\ Len(log.entries) \in Nat
  BY ReadType
<1>2. from \in 1..(Len(log.entries) + 1)
  BY <1>1, LeastType
<1>3. DropThrough(log.entries, index) = SubSeq(log.entries, from, Len(log.entries))
  BY DEF DropThrough
<1> HIDE DEF from
<1>4. \A k \in from..Len(log.entries) : log.entries[k] \in EntryOf(P)
  BY <1>1, <1>2, ElementOfSeq
<1>5. DropThrough(log.entries, index) \in Seq(EntryOf(P))
  BY <1>1, <1>2, <1>3, <1>4, SubSeqProperties
<1> QED  BY <1>5 DEF ResetTo, LogOf

LEMMA CompactType ==
  ASSUME NEW P, NEW log \in LogOf(P), NEW index \in Nat, NEW t \in Nat \cup {-1}
  PROVE  Compact(log, index, t) \in LogOf(P)
BY ResetToType DEF Compact

LEMMA ConflictType ==
  ASSUME NEW P, NEW log \in LogOf(P), NEW t, NEW from \in Nat
  PROVE  ConflictTermFirstIndex(log, t, from) \in Nat
<1> DEFINE run == {k \in log.first_index..from : TermAt(log, k) = t}
           inTerm == IF from < log.first_index THEN from
                     ELSE Greatest(run, log.first_index - 1)
           S == {k \in 1..inTerm : \A j \in k..(inTerm - 1) : TermAt(log, j) = t}
<1>1. log.first_index \in Nat
  BY DEF LogOf
<1>2. inTerm \in Int
  BY <1>1, GreatestType
<1>3. ConflictTermFirstIndex(log, t, from) = Least(S, 1)
  BY DEF ConflictTermFirstIndex
<1> HIDE DEF inTerm
<1>4. S \subseteq Nat
  BY <1>2
<1> HIDE DEF S
<1>5. Least(S, 1) \in S \cup {1}
  BY LeastType
<1>6. S \cup {1} \subseteq Nat
  BY <1>4
<1>7. Least(S, 1) \in Nat
  BY <1>5, <1>6
<1> QED  BY <1>3, <1>7

\* The entries that a merge keeps and the ones it adds are sequences of entries.
LEMMA KeptType ==
  ASSUME NEW P, NEW log \in LogOf(P), NEW prev \in Nat, NEW k \in Nat \ {0}
  PROVE  KeptEntries(log, prev, k) \in Seq(EntryOf(P))
<1>1. /\ log.entries \in Seq(EntryOf(P))
      /\ log.first_index \in Nat
      /\ Len(log.entries) \in Nat
  BY ReadType DEF LogOf
<1>2. CASE TermAt(log, prev + k) = -1
  BY <1>1, <1>2 DEF KeptEntries
<1>3. CASE TermAt(log, prev + k) # -1
  <2>1. Present(log, prev + k)
    BY <1>3, TermAtType
  <2>2. \A j \in 1..(prev + k - log.first_index) : log.entries[j] \in EntryOf(P)
    BY <1>1, <2>1, ElementOfSeq DEF Present, LastPosition
  <2> QED  BY <1>1, <1>3, <2>2, SubSeqProperties DEF KeptEntries
<1> QED  BY <1>2, <1>3

LEMMA RenumberedType ==
  ASSUME NEW P, NEW prev \in Nat, NEW incoming \in Seq(EntryOf(P)),
         NEW k \in 1..Len(incoming)
  PROVE  Renumbered(prev, incoming, k) \in Seq(EntryOf(P))
<1> DEFINE n == Len(incoming) - k + 1
<1>1. Len(incoming) \in Nat /\ n \in Nat
  BY LenProperties
<1>2. \A j \in 1..n : [incoming[j + k - 1] EXCEPT !.index = prev + j + k - 1] \in EntryOf(P)
  <2> TAKE j \in 1..n
  <2>1. incoming[j + k - 1] \in EntryOf(P)
    BY <1>1, ElementOfSeq
  <2>2. prev + j + k - 1 \in Nat
    BY <1>1
  <2> QED  BY <2>1, <2>2 DEF EntryOf
<1>3. Renumbered(prev, incoming, k) \in [1..n -> EntryOf(P)]
  BY <1>2 DEF Renumbered
<1> HIDE DEF n
<1> QED  BY <1>1, <1>3, SeqDef

\* The answer of merge and the log it leaves.
LEMMA MergeType ==
  ASSUME NEW P, NEW log \in LogOf(P), NEW prev \in Nat, NEW prevTerm \in Nat \cup {-1},
         NEW incoming \in Seq(EntryOf(P))
  PROVE  Merge(log, prev, prevTerm, incoming)
           \in [ok : BOOLEAN, match : Nat, conflict : Nat, log : LogOf(P)]
<1>1. CASE prev > LastIndex(log)
  BY <1>1, ReadType DEF Merge, Rejected
<1>2. CASE prev <= LastIndex(log) /\ TermAt(log, prev) # prevTerm
  BY <1>2, ReadType, ConflictType DEF Merge, Rejected
<1>3. CASE prev <= LastIndex(log) /\ TermAt(log, prev) = prevTerm
  <2> DEFINE k == InsertAt(log, prev, incoming)
             merged == IF k = 0 THEN log
                       ELSE [log EXCEPT !.entries =
                               KeptEntries(log, prev, k) \o Renumbered(prev, incoming, k)]
  <2>1. k \in 0..Len(incoming) /\ Len(incoming) \in Nat
    <3>1. k \in {j \in 1..Len(incoming) : TermAt(log, prev + j) # incoming[j].term} \cup {0}
      BY LeastType DEF InsertAt
    <3>2. Len(incoming) \in Nat
      BY LenProperties
    <3> QED  BY <3>1, <3>2
  <2>2. Merge(log, prev, prevTerm, incoming) =
          [ok |-> TRUE, match |-> prev + Len(incoming), conflict |-> 0, log |-> merged]
    BY <1>3, ReadType DEF Merge
  <2>3. merged \in LogOf(P)
    <3> HIDE DEF k
    <3>1. k # 0 => KeptEntries(log, prev, k) \o Renumbered(prev, incoming, k) \in Seq(EntryOf(P))
      <4> SUFFICES ASSUME k # 0
                   PROVE  KeptEntries(log, prev, k) \o Renumbered(prev, incoming, k)
                            \in Seq(EntryOf(P))
        OBVIOUS
      <4>1. KeptEntries(log, prev, k) \in Seq(EntryOf(P))
        BY <2>1, KeptType
      <4>2. Renumbered(prev, incoming, k) \in Seq(EntryOf(P))
        BY <2>1, RenumberedType
      <4> QED  BY <4>1, <4>2, ConcatProperties
    <3> QED  BY <3>1 DEF LogOf
  <2> HIDE DEF merged
  <2> QED  BY <2>1, <2>2, <2>3
<1> QED  BY <1>1, <1>2, <1>3, ReadType

-----------------------------------------------------------------------------
(* What the operators do to a log whose entries are numbered on from b *)

NumberedFrom(b, entries) == \A k \in 1..Len(entries) : entries[k].index = b + k
NumberedLog(b, l) == l.first_index - 1 = b /\ NumberedFrom(b, l.entries)

LEMMA FunctionIsSeq ==
  ASSUME NEW S, NEW n \in Nat, NEW f \in [1..n -> S]
  PROVE  f \in Seq(S) /\ Len(f) = n
<1>1. f \in Seq(S)
  BY SeqDef
<1> QED  BY <1>1, LenProperties

\* The least element of a set that has one.
LEMMA LeastIs ==
  ASSUME NEW S, S \subseteq Int, NEW x \in S, \A y \in S : x <= y, NEW d
  PROVE  Least(S, d) = x
<1> DEFINE z == CHOOSE v \in S : \A y \in S : v <= y
<1>1. z \in S /\ \A y \in S : z <= y
  OBVIOUS
<1>2. Least(S, d) = z
  BY DEF Least
<1> HIDE DEF z
<1>3. z = x
  BY <1>1
<1> QED  BY <1>2, <1>3

LEMMA LeastOfEmpty ==
  ASSUME NEW d
  PROVE  Least({}, d) = d
BY DEF Least

\* The entries above an index are those after its position.
LEMMA DropThroughNumbered ==
  ASSUME NEW P, NEW entries \in Seq(EntryOf(P)), NEW b \in Nat, NumberedFrom(b, entries),
         NEW i \in Int, i <= b + Len(entries)
  PROVE  LET from == IF i < b THEN 1 ELSE i - b + 1
         IN  DropThrough(entries, i) = SubSeq(entries, from, Len(entries))
<1> DEFINE n == Len(entries)
           S == {k \in 1..n : entries[k].index > i}
           from == IF i < b THEN 1 ELSE i - b + 1
<1>1. n \in Nat
  BY LenProperties
<1>2. S = {k \in 1..n : b + k > i}
  BY DEF NumberedFrom
<1>3. CASE from <= n
  <2>1. from \in Nat \ {0} /\ b + from > i /\ \A y \in 1..n : b + y > i => from <= y
    BY <1>1
  <2> HIDE DEF from
  <2>4. from \in S /\ \A y \in S : from <= y
    BY <1>1, <1>2, <1>3, <2>1
  <2>2. S \subseteq Int
    BY <1>2
  <2> HIDE DEF S, from
  <2>3. Least(S, n + 1) = from
    BY <2>2, <2>4, LeastIs
  <2> QED  BY <2>3 DEF DropThrough, S, from
<1>4. CASE from > n
  <2>1. from = n + 1 /\ S = {}
    BY <1>1, <1>2, <1>4
  <2> HIDE DEF S, from
  <2>2. Least(S, n + 1) = from
    BY <2>1, LeastOfEmpty
  <2> QED  BY <2>2 DEF DropThrough, S, from
<1> QED  BY <1>1, <1>3, <1>4

\* Reading a numbered log by position and by index is the same.
LEMMA NumberedReads ==
  ASSUME NEW P, NEW l \in LogOf(P), NEW b \in Nat, NumberedLog(b, l)
  PROVE  /\ LastPosition(l) = b + Len(l.entries)
         /\ l.entries # << >> => LastIndex(l) = b + Len(l.entries) /\ Len(l.entries) \in Nat \ {0}
         /\ l.entries = << >> => LastIndex(l) = 0 /\ Len(l.entries) = 0
         /\ \A k \in Nat : TermAt(l, k) = IF k = 0 THEN 0
                                          ELSE IF k \in (b + 1)..(b + Len(l.entries))
                                          THEN l.entries[k - b].term ELSE -1
<1>1. /\ l.entries \in Seq(EntryOf(P)) /\ Len(l.entries) \in Nat
      /\ l.first_index \in Nat /\ l.first_index - 1 = b
  BY ReadType DEF LogOf, NumberedLog
<1>2. l.entries # << >> => Len(l.entries) \in Nat \ {0}
  BY <1>1, EmptySeq
<1>3. l.entries = << >> => Len(l.entries) = 0
  BY EmptySeq
<1>4. l.entries # << >> => LastIndex(l) = b + Len(l.entries)
  <2> SUFFICES ASSUME l.entries # << >> PROVE LastIndex(l) = b + Len(l.entries)
    OBVIOUS
  <2>1. Len(l.entries) \in 1..Len(l.entries)
    BY <1>2
  <2> QED  BY <2>1 DEF LastIndex, NumberedFrom, NumberedLog
<1>5. ASSUME NEW k \in Nat
      PROVE  TermAt(l, k) = IF k = 0 THEN 0
                            ELSE IF k \in (b + 1)..(b + Len(l.entries))
                            THEN l.entries[k - b].term ELSE -1
  <2>1. Present(l, k) <=> k \in (b + 1)..(b + Len(l.entries))
    BY <1>1 DEF Present, LastPosition
  <2>2. Get(l, k) = l.entries[k - b]
    <3>1. k - l.first_index + 1 = k - b
      BY <1>1
    <3> QED  BY <3>1 DEF Get
  <2> QED  BY <2>1, <2>2 DEF TermAt
<1>6. LastPosition(l) = b + Len(l.entries)
  BY <1>1 DEF LastPosition
<1> QED  BY <1>2, <1>3, <1>4, <1>5, <1>6 DEF LastIndex

\* k is the first entry of incoming that is not in the log, 0 if all of them are.
FirstMissing(l, prev, incoming, k) ==
  \/ /\ k = 0
     /\ \A j \in 1..Len(incoming) : TermAt(l, prev + j) = incoming[j].term
  \/ /\ k \in 1..Len(incoming)
     /\ TermAt(l, prev + k) # incoming[k].term
     /\ \A j \in 1..(k - 1) : TermAt(l, prev + j) = incoming[j].term

\* Where a merge starts to write.
LEMMA InsertAtFirst ==
  ASSUME NEW l, NEW prev \in Nat, NEW incoming, Len(incoming) \in Nat
  PROVE  FirstMissing(l, prev, incoming, InsertAt(l, prev, incoming))
<1> DEFINE S == {j \in 1..Len(incoming) : TermAt(l, prev + j) # incoming[j].term}
           k == InsertAt(l, prev, incoming)
<1>1. k = Least(S, 0)
  BY DEF InsertAt
<1>2. CASE S = {}
  <2>1. k = 0
    BY <1>1, <1>2, LeastOfEmpty
  <2> HIDE DEF k
  <2> QED  BY <1>2, <2>1 DEF k, FirstMissing
<1>3. CASE S # {}
  <2>1. S \subseteq Nat
    OBVIOUS
  <2>2. PICK x \in S : \A y \in S : x <= y
    <3> HIDE DEF S
    <3> QED  BY <1>3, <2>1, LeastExists
  <2>3. k = x
    <3>1. S \subseteq Int
      OBVIOUS
    <3> HIDE DEF S, k
    <3> QED  BY <1>1, <2>2, <3>1, LeastIs
  <2>4. x \in 1..Len(incoming) /\ TermAt(l, prev + x) # incoming[x].term
    OBVIOUS
  <2>5. \A j \in 1..(x - 1) : TermAt(l, prev + j) = incoming[j].term
    <3> TAKE j \in 1..(x - 1)
    <3>1. j \in 1..Len(incoming) /\ ~(x <= j)
      BY <2>4
    <3> QED  BY <2>2, <3>1
  <2> HIDE DEF S, k
  <2> QED  BY <2>3, <2>4, <2>5 DEF k, FirstMissing
<1> QED  BY <1>2, <1>3

\* The log has the entries of incoming before the k-th.
AgreesBefore(l, prev, incoming, k) ==
  \A j \in 1..(k - 1) : TermAt(l, prev + j) = incoming[j].term

\* new are the entries of a log numbered from b, those of incoming from its k-th
\* on in place of what followed.
MergedFrom(l, b, prev, incoming, k, new) ==
  /\ prev + k <= b + Len(l.entries) + 1
  /\ Len(new) = prev + Len(incoming) - b
  /\ \A j \in 1..Len(new) :
       new[j] = IF b + j < prev + k THEN l.entries[j] ELSE incoming[b + j - prev]
  /\ KeptEntries(l, prev, k) = SubSeq(l.entries, 1, prev + k - 1 - b)

\* A merge that passes its check on a numbered log and writes from the k-th entry
\* on: what is before it stays, and the leader's entries follow.
LEMMA MergeNumbered ==
  ASSUME NEW P, NEW l \in LogOf(P), NEW b \in Nat, NumberedLog(b, l),
         NEW prev \in Nat, prev >= b, prev <= b + Len(l.entries),
         NEW incoming \in Seq(EntryOf(P)), NumberedFrom(prev, incoming),
         NEW k \in 1..Len(incoming),
         AgreesBefore(l, prev, incoming, k)
  PROVE  /\ KeptEntries(l, prev, k) \o Renumbered(prev, incoming, k) \in Seq(EntryOf(P))
         /\ MergedFrom(l, b, prev, incoming, k,
                       KeptEntries(l, prev, k) \o Renumbered(prev, incoming, k))
<1> DEFINE kept == KeptEntries(l, prev, k)
           added == Renumbered(prev, incoming, k)
           n == Len(incoming)
           size == Len(l.entries)
<1>1. /\ l.entries \in Seq(EntryOf(P)) /\ size \in Nat /\ n \in Nat /\ k \in Nat \ {0} /\ k <= n
      /\ l.first_index \in Nat
  BY ReadType, LenProperties DEF LogOf
<1>2. \A j \in Nat : TermAt(l, j) = IF j = 0 THEN 0
                                    ELSE IF j \in (b + 1)..(b + size)
                                    THEN l.entries[j - b].term ELSE -1
  BY NumberedReads
<1>3. \A j \in 1..(k - 1) : TermAt(l, prev + j) = incoming[j].term
  BY DEF AgreesBefore
<1>4. prev + k <= b + size + 1
  <2> SUFFICES ASSUME prev + k > b + size + 1 PROVE FALSE
    BY <1>1
  <2>1. k - 1 \in 1..(k - 1) /\ prev + (k - 1) > b + size /\ k - 1 \in 1..n
    BY <1>1
  <2>2. TermAt(l, prev + (k - 1)) = -1
    BY <1>1, <1>2, <2>1
  <2>3. incoming[k - 1] \in EntryOf(P)
    BY <2>1, ElementOfSeq
  <2>4. incoming[k - 1].term = -1 /\ incoming[k - 1].term \in Nat
    BY <1>3, <2>1, <2>2, <2>3 DEF EntryOf
  <2> QED  BY <2>4
<1>5. /\ kept \in Seq(EntryOf(P)) /\ Len(kept) = prev + k - 1 - b
      /\ \A j \in 1..(prev + k - 1 - b) : kept[j] = l.entries[j]
      /\ kept = SubSeq(l.entries, 1, prev + k - 1 - b)
  <2>1. /\ SubSeq(l.entries, 1, prev + k - 1 - b) \in Seq(EntryOf(P))
        /\ Len(SubSeq(l.entries, 1, prev + k - 1 - b)) = prev + k - 1 - b
        /\ \A j \in 1..(prev + k - 1 - b) : SubSeq(l.entries, 1, prev + k - 1 - b)[j] = l.entries[j]
    <3>1. \A j \in 1..(prev + k - 1 - b) : l.entries[j] \in EntryOf(P)
      BY <1>1, <1>4, ElementOfSeq
    <3>2. prev + k - 1 - b \in Nat /\ 1 \in Int
      BY <1>1
    <3> HIDE DEF kept
    <3> QED  BY ONLY <3>1, <3>2, SubSeqProperties
  <2>2. CASE TermAt(l, prev + k) # -1
    <3>1. prev + k - l.first_index = prev + k - 1 - b
      <4>1. l.first_index = b + 1
        BY <1>1 DEF NumberedLog
      <4> QED  BY <1>1, <4>1
    <3> QED  BY <2>1, <2>2, <3>1 DEF KeptEntries
  <2>3. CASE TermAt(l, prev + k) = -1
    <3>1. prev + k > b + size
      <4> SUFFICES ASSUME prev + k <= b + size PROVE FALSE
        BY <1>1
      <4>1. prev + k \in (b + 1)..(b + size) /\ prev + k - b \in 1..size
        BY <1>1
      <4>2. l.entries[prev + k - b] \in EntryOf(P)
        BY <1>1, <4>1, ElementOfSeq
      <4>3. TermAt(l, prev + k) = l.entries[prev + k - b].term
        BY <1>1, <1>2, <4>1
      <4>4. l.entries[prev + k - b].term \in Nat
        BY <4>2 DEF EntryOf
      <4> QED  BY <2>3, <4>3, <4>4
    <3>2. prev + k - 1 - b = size
      BY <1>1, <1>4, <3>1
    <3>3. SubSeq(l.entries, 1, size) = l.entries
      BY <1>1, SubSeqFull
    <3>4. kept = l.entries
      BY <2>3 DEF KeptEntries
    <3> QED  BY <2>1, <3>2, <3>3, <3>4
  <2> QED  BY <2>2, <2>3
<1>6. /\ added \in Seq(EntryOf(P)) /\ Len(added) = n - k + 1
      /\ \A j \in 1..(n - k + 1) : added[j] = incoming[j + k - 1]
  <2>1. added \in Seq(EntryOf(P))
    BY <1>1, RenumberedType
  <2>2. added = [j \in 1..(n - k + 1) |-> [incoming[j + k - 1] EXCEPT !.index = prev + j + k - 1]]
    BY DEF Renumbered
  <2>3. Len(added) = n - k + 1
    BY <1>1, <2>2
  <2>4. ASSUME NEW j \in 1..(n - k + 1)
        PROVE  [incoming[j + k - 1] EXCEPT !.index = prev + j + k - 1] = incoming[j + k - 1]
    <3>1. j + k - 1 \in 1..n /\ prev + j + k - 1 = prev + (j + k - 1)
      BY <1>1
    <3>2. incoming[j + k - 1] \in EntryOf(P) /\ incoming[j + k - 1].index = prev + j + k - 1
      BY <3>1, ElementOfSeq DEF NumberedFrom
    <3> QED  BY <3>2 DEF EntryOf
  <2> QED  BY <2>1, <2>2, <2>3, <2>4
<1> DEFINE new == kept \o added
<1> HIDE DEF kept, added
<1>7. /\ new \in Seq(EntryOf(P)) /\ Len(new) = prev + n - b
      /\ \A j \in 1..(prev + n - b) :
           new[j] = IF j <= prev + k - 1 - b THEN kept[j] ELSE added[j - (prev + k - 1 - b)]
  <2>1. Len(kept) + Len(added) = prev + n - b
    BY <1>1, <1>5, <1>6
  <2>2. /\ new \in Seq(EntryOf(P)) /\ Len(new) = Len(kept) + Len(added)
        /\ \A j \in 1..(Len(kept) + Len(added)) :
             new[j] = IF j <= Len(kept) THEN kept[j] ELSE added[j - Len(kept)]
    <3>1. kept \in Seq(EntryOf(P)) /\ added \in Seq(EntryOf(P))
      BY <1>5, <1>6
    <3> QED  BY ONLY <3>1, ConcatProperties
  <2> HIDE DEF new
  <2> QED  BY <1>5, <2>1, <2>2
<1>8. ASSUME NEW j \in 1..(prev + n - b)
      PROVE  new[j] = IF b + j < prev + k THEN l.entries[j] ELSE incoming[b + j - prev]
  <2>1. CASE b + j < prev + k
    <3>1. j <= prev + k - 1 - b /\ j \in 1..(prev + k - 1 - b)
      BY <1>1, <2>1
    <3> QED  BY <1>5, <1>7, <2>1, <3>1
  <2>2. CASE ~(b + j < prev + k)
    <3>1. /\ ~(j <= prev + k - 1 - b) /\ j - (prev + k - 1 - b) \in 1..(n - k + 1)
          /\ (j - (prev + k - 1 - b)) + k - 1 = b + j - prev
      BY <1>1, <2>2
    <3> QED  BY <1>6, <1>7, <2>2, <3>1
  <2> QED  BY <2>1, <2>2
<1>9. MergedFrom(l, b, prev, incoming, k, new)
  <2> HIDE DEF new
  <2> QED  BY <1>4, <1>5, <1>7, <1>8 DEF kept, MergedFrom
<1> QED  BY <1>7, <1>9 DEF kept, added
=============================================================================
