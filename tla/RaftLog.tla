------------------------------ MODULE RaftLog ------------------------------
(***************************************************************************)
(* The in-memory Raft log of pylog (class RaftLog of pylog/raft.py): an    *)
(* array of entries whose first element stands for first_index, and the    *)
(* snapshot point below it.  Every method is an operator that returns the  *)
(* new log, so that this module has no state of its own.                   *)
(*                                                                         *)
(* The class addresses entries in two ways that agree only on a log whose  *)
(* entries start at first_index: by position (term_at, get, entries_from)  *)
(* and by the "index" key stored in the entry (last_index, compact).  Both *)
(* are kept.                                                               *)
(***************************************************************************)
EXTENDS Integers, Sequences

\* The least (greatest) element of a set of integers, default when it has none.
Least(S, default) ==
  IF \E x \in S : \A y \in S : x <= y
  THEN CHOOSE x \in S : \A y \in S : x <= y
  ELSE default

Greatest(S, default) ==
  IF \E x \in S : \A y \in S : y <= x
  THEN CHOOSE x \in S : \A y \in S : y <= x
  ELSE default

MinOf(a, b) == IF a <= b THEN a ELSE b
MaxOf(a, b) == IF a <= b THEN b ELSE a

-----------------------------------------------------------------------------

EmptyLog == [entries |-> << >>, first_index |-> 1,
             snapshot_last_index |-> 0, snapshot_last_term |-> 0]

\* Mutant of LastIndex: the position of the last entry, counted from 0.
BugLastIndexFromZero(log) == Len(log.entries) - 1

\* An empty entry list has last index 0 even above a snapshot.
LastIndex(log) ==
  IF log.entries = << >> THEN 0 ELSE log.entries[Len(log.entries)].index

LastTerm(log) ==
  IF log.entries = << >> THEN 0 ELSE log.entries[Len(log.entries)].term

\* The indexes that the array holds, by position.
LastPosition(log) == log.first_index + Len(log.entries) - 1
Present(log, index) == index >= log.first_index /\ index <= LastPosition(log)

Get(log, index) == log.entries[index - log.first_index + 1]

\* The term of an entry, 0 for the sentinel, -1 for an entry that is absent.
TermAt(log, index) ==
  IF index = 0 THEN 0
  ELSE IF Present(log, index) THEN Get(log, index).term
  ELSE -1

\* At most limit entries from index on.
EntriesFrom(log, index, limit) ==
  LET skip == MaxOf(0, index - log.first_index)
  IN  SubSeq(log.entries, skip + 1, MinOf(Len(log.entries), skip + limit))

AppendEntry(log, term, payload) ==
  [log EXCEPT !.entries =
     Append(@, [index |-> LastIndex(log) + 1, term |-> term, payload |-> payload])]

\* Entries above an index.  The entries of a log are in ascending order of
\* their index, so that what the code filters is a suffix.
DropThrough(entries, index) ==
  SubSeq(entries,
         Least({k \in 1..Len(entries) : entries[k].index > index}, Len(entries) + 1),
         Len(entries))

\* Mutant of ResetTo: the snapshot point is not recorded.
BugResetForgetsPoint(log, index, term) ==
  [log EXCEPT !.entries = DropThrough(@, index), !.first_index = index + 1]

\* Replace everything at or below the snapshot point by the snapshot.
ResetTo(log, index, term) ==
  [entries |-> DropThrough(log.entries, index), first_index |-> index + 1,
   snapshot_last_index |-> index, snapshot_last_term |-> term]

\* compact refuses a point below the log, and one that would leave no entry.
Compact(log, index, term) ==
  IF \/ index < log.first_index - 1
     \/ log.entries # << >> /\ index >= LastIndex(log)
  THEN log
  ELSE ResetTo(log, index, term)

\* The two while loops: back to an entry of the term (or past the start of the
\* array), then back to the first entry of its run.
ConflictTermFirstIndex(log, term, from) ==
  LET inTerm == IF from < log.first_index THEN from
                ELSE Greatest({k \in log.first_index..from : TermAt(log, k) = term},
                              log.first_index - 1)
  IN  Least({k \in 1..inTerm : \A j \in k..(inTerm - 1) : TermAt(log, j) = term}, 1)

\* Mutant of InsertAt: an entry of another term is taken for the same.
BugInsertAtMissing(log, prev, incoming) ==
  Least({k \in 1..Len(incoming) : TermAt(log, prev + k) = -1}, 0)

\* The position in incoming of the first entry the log lacks or contradicts,
\* 0 if it has them all.
InsertAt(log, prev, incoming) ==
  Least({k \in 1..Len(incoming) : TermAt(log, prev + k) # incoming[k].term}, 0)

\* Entries kept when incoming[k] is the first to differ: a conflicting tail is
\* deleted, an absent entry leaves the array as it is.
KeptEntries(log, prev, k) ==
  IF TermAt(log, prev + k) = -1 THEN log.entries
  ELSE SubSeq(log.entries, 1, prev + k - log.first_index)

\* incoming from its k-th entry on, renumbered from prev.
Renumbered(prev, incoming, k) ==
  [n \in 1..(Len(incoming) - k + 1) |-> [incoming[n + k - 1] EXCEPT !.index = prev + n + k - 1]]

Rejected(log, hint) == [ok |-> FALSE, match |-> 0, conflict |-> hint, log |-> log]

\* Mutants of Merge: no consistency check of the previous entry; everything
\* after the previous entry is replaced, conflict or not.
BugMergeUnchecked(log, prev, prevTerm, incoming) ==
  IF prev > LastIndex(log) THEN Rejected(log, LastIndex(log) + 1)
  ELSE [ok |-> TRUE, match |-> prev + Len(incoming), conflict |-> 0,
        log |-> [log EXCEPT !.entries =
                   SubSeq(@, 1, prev + 1 - log.first_index) \o Renumbered(prev, incoming, 1)]]
BugMergeAlwaysCuts(log, prev, prevTerm, incoming) ==
  IF TermAt(log, prev) # prevTerm THEN Rejected(log, 1)
  ELSE BugMergeUnchecked(log, prev, prevTerm, incoming)

\* The consistency check and merge of AppendEntries.
Merge(log, prev, prevTerm, incoming) ==
  IF prev > LastIndex(log)
  THEN Rejected(log, LastIndex(log) + 1)
  ELSE IF TermAt(log, prev) # prevTerm
  THEN Rejected(log, ConflictTermFirstIndex(log, TermAt(log, prev), prev))
  ELSE LET k == InsertAt(log, prev, incoming)
       IN  [ok |-> TRUE, match |-> prev + Len(incoming), conflict |-> 0,
            log |-> IF k = 0 THEN log
                    ELSE [log EXCEPT !.entries =
                            KeptEntries(log, prev, k) \o Renumbered(prev, incoming, k)]]
=============================================================================
