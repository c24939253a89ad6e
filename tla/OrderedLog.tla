----------------------------- MODULE OrderedLog -----------------------------
(***************************************************************************)
(* What a commit log promises its users: a sequence of records with        *)
(* consecutive offsets that grows at the end, is cut from an offset on and *)
(* loses its oldest records, and that nothing else changes, a crash and a  *)
(* restart included.                                                       *)
(***************************************************************************)
EXTENDS Integers, Sequences

VARIABLES first, records   \* the offset of the first record, the records

Init == first = 0 /\ records = << >>

Extend(batch) == records' = records \o batch /\ UNCHANGED first

Truncate(n) == records' = SubSeq(records, 1, n) /\ UNCHANGED first

DropOldest(n) ==
  /\ first' = first + n
  /\ records' = SubSeq(records, n + 1, Len(records))

\* What an append adds is the part of records' beyond records.
Next ==
  \/ /\ Len(records') > Len(records)
     /\ Extend(SubSeq(records', Len(records) + 1, Len(records')))
  \/ \E n \in 0..Len(records) : Truncate(n) \/ DropOldest(n)

Spec == Init /\ [][Next]_<<first, records>>
=============================================================================
