------------------------------- MODULE MCRaft -------------------------------
(***************************************************************************)
(* Raft on small clusters, for TLC.                                        *)
(***************************************************************************)
EXTENDS Raft, TLC

CONSTANTS n1, n2, n3, v1, v2, v3, v4

\* Servers that no constant singles out, and commands, are interchangeable.
Symmetry == Permutations({n1, n2}) \cup Permutations(Value)

\* A reachable state to start from: the servers of Voters have voted for l in
\* term 1 and l has just become leader with the votes of Q; the others have
\* heard of nothing.  (No message of the election is handled any more.)
LeaderInit(l, Voters, Q) ==
  /\ current_term = [i \in Server |-> IF i \in Voters THEN 1 ELSE 0]
  /\ voted_for = [i \in Server |-> IF i \in Voters THEN l ELSE None]
  /\ role = [i \in Server |-> IF i = l THEN Leader ELSE Follower]
  /\ leader_id = [i \in Server |-> IF i = l THEN l ELSE None]
  /\ pre_candidate = [i \in Server |-> FALSE]
  /\ prevote_term = [i \in Server |-> IF i = l /\ UsePreVote THEN 1 ELSE 0]
  /\ votes = [i \in Server |-> IF i = l THEN Q ELSE {}]
  /\ transfer_target = [i \in Server |-> None]
  /\ node = [i \in Server |-> IF i = l THEN LeaderState(l, FreshNode, 1) ELSE FreshNode]
  /\ msgs = {m \in SendAllAppends(l, node[l], 1) : {l, m.dest} \notin Partitioned}
  /\ elected = {<<1, l>>}
  /\ proposed = {}

LeaderSpec == LeaderInit(n1, {n1, n3}, {n1, n3}) /\ [][Next]_vars
VotedSpec == LeaderInit(n1, {n1, n2, n3}, {n1, n3}) /\ [][Next]_vars

\* A later one: n1, elected by n3 in term 1, has logged v1 and reached nobody;
\* n2 has then elected n3 in term 2 and, after it lost contact, in term 3.
SplitInit ==
  /\ current_term = [i \in Server |-> IF i = n1 THEN 1 ELSE 3]
  /\ voted_for = [i \in Server |-> IF i = n1 THEN n1 ELSE n3]
  /\ role = [i \in Server |-> IF i = n2 THEN Follower ELSE Leader]
  /\ leader_id = [i \in Server |-> IF i = n2 THEN None ELSE i]
  /\ pre_candidate = [i \in Server |-> FALSE]
  /\ prevote_term = [i \in Server |-> 0]
  /\ votes = [i \in Server |-> IF i = n2 THEN {} ELSE {i, IF i = n1 THEN n3 ELSE n2}]
  /\ transfer_target = [i \in Server |-> None]
  /\ node = [i \in Server |->
               CASE i = n1 -> ProposeEntry(n1, LeaderState(n1, FreshNode, 1), 1, Command(v1))
                 [] i = n3 -> LeaderState(n3, LeaderState(n3, FreshNode, 2), 3)
                 [] OTHER -> FreshNode]
  /\ msgs = SendAllAppends(n3, node[n3], 3)
  /\ elected = {<<1, n1>>, <<2, n3>>, <<3, n3>>}
  /\ proposed = {v1}

SplitSpec == SplitInit /\ [][Next]_vars
FairSplitSpec == SplitSpec /\ Fairness

\* Every server is a cluster of its own.
AloneInit ==
  /\ current_term = [i \in Server |-> 0]
  /\ voted_for = [i \in Server |-> None]
  /\ role = [i \in Server |-> Follower]
  /\ leader_id = [i \in Server |-> None]
  /\ pre_candidate = [i \in Server |-> FALSE]
  /\ prevote_term = [i \in Server |-> 0]
  /\ votes = [i \in Server |-> {}]
  /\ transfer_target = [i \in Server |-> None]
  /\ node = [i \in Server |-> [FreshNode EXCEPT !.config = {i}]]
  /\ msgs = {}
  /\ elected = {}
  /\ proposed = {}

\* A leader has compacted what a server lacks.  n3 elected n2 in term 1, which
\* logged v2, and perhaps v4, and reached nobody; then n1 in term 2, which has
\* committed a no-op and v1 with n3, logged v3 and taken a snapshot at index 2.
\* All that n1 sent to n2 is lost.
LaggingInit(more) ==
  LET first == ProposeEntry(n1, LeaderState(n1, FreshNode, 2), 2, Command(v1))
      deposed == ProposeEntry(n2, LeaderState(n2, FreshNode, 1), 1, Command(v2))
      acked == AdvanceCommit(n1, [first EXCEPT !.match_index[n3] = 2, !.next_index[n3] = 3], 2)
  IN  /\ current_term = [i \in Server |-> IF i = n2 THEN 1 ELSE 2]
      /\ voted_for = [i \in Server |-> IF i = n2 THEN n2 ELSE n1]
      /\ role = [i \in Server |-> IF i = n3 THEN Follower ELSE Leader]
      /\ leader_id = [i \in Server |-> IF i = n2 THEN n2 ELSE n1]
      /\ pre_candidate = [i \in Server |-> FALSE]
      /\ prevote_term = [i \in Server |-> 0]
      /\ votes = [i \in Server |-> IF i = n3 THEN {} ELSE {i, n3}]
      /\ transfer_target = [i \in Server |-> None]
      /\ node = [i \in Server |->
                   CASE i = n1 -> TakeSnapshot(ProposeEntry(n1, acked, 2, Command(v3)))
                     [] i = n2 -> IF more THEN ProposeEntry(n2, deposed, 1, Command(v4)) ELSE deposed
                     [] OTHER -> [FreshNode EXCEPT !.log = first.log]]
      /\ msgs = {}
      /\ elected = {<<1, n2>>, <<2, n1>>}
      /\ proposed = {v1, v2, v3} \cup (IF more THEN {v4} ELSE {})

SnapshotSpec == (LaggingInit(FALSE) \/ LaggingInit(TRUE) \/ AloneInit) /\ [][Next]_vars
=============================================================================
