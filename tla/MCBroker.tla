------------------------------ MODULE MCBroker ------------------------------
(***************************************************************************)
(* The broker on a small instance, for TLC.                                *)
(***************************************************************************)
EXTENDS Broker

CONSTANTS k1, k2, c1, g1

\* The keys fall into different partitions of a topic that has two.
MCHash == [k \in Key |-> IF k = k1 THEN 3 ELSE 4]
MCGroupOf == [c \in Consumer |-> g1]
=============================================================================
