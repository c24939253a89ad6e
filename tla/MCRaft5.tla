------------------------------ MODULE MCRaft5 ------------------------------
(***************************************************************************)
(* Raft on a cluster of five, for TLC.                                     *)
(***************************************************************************)
EXTENDS Raft, TLC

CONSTANTS n1, n2, n3, n4, n5

\* The servers that never stand for election are interchangeable.
Symmetry == Permutations(Server \ Timers)
=============================================================================
