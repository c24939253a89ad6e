----------------------------- MODULE RaftProofs -----------------------------
(***************************************************************************)
(* Theorems about Raft, for every cluster and every setting: the type      *)
(* invariant, and election safety where the code guarantees it.            *)
(***************************************************************************)
EXTENDS Raft, RaftLogProofs, FiniteSetTheorems

\* The configuration of a node.
SameConfig(a, b) == a.config = b.config /\ a.old_config = b.old_config

-----------------------------------------------------------------------------
(* What the helpers of RaftNode return *)

LEMMA LogIsLogOf == Log = LogOf(Payload) /\ Entry = EntryOf(Payload)
BY DEF Log, LogOf, Entry, EntryOf, Term

LEMMA NodeFields ==
  ASSUME NEW n \in NodeState
  PROVE  /\ n.log \in LogOf(Payload)
         /\ n.commit_index \in Nat
         /\ n.applied_index \in Nat
         /\ n.state_machine \in Applied
         /\ n.last_snapshot \in [index : Nat, term : Term, data : Applied]
         /\ n.config \in SUBSET Server
         /\ n.old_config \in SUBSET Server
         /\ n.next_index \in [Server -> Nat]
         /\ n.match_index \in [Server -> Nat]
BY LogIsLogOf DEF NodeState

\* Updating one attribute.
LEMMA SetLog ==
  ASSUME NEW n \in NodeState, NEW l \in LogOf(Payload)
  PROVE  /\ [n EXCEPT !.log = l] \in NodeState
         /\ SameConfig([n EXCEPT !.log = l], n)
BY LogIsLogOf DEF NodeState, SameConfig

LEMMA SetCommit ==
  ASSUME NEW n \in NodeState, NEW k \in Nat
  PROVE  /\ [n EXCEPT !.commit_index = k] \in NodeState
         /\ SameConfig([n EXCEPT !.commit_index = k], n)
BY DEF NodeState, SameConfig

LEMMA SetApplied ==
  ASSUME NEW n \in NodeState, NEW k \in Nat
  PROVE  /\ [n EXCEPT !.applied_index = k] \in NodeState
         /\ SameConfig([n EXCEPT !.applied_index = k], n)
BY DEF NodeState, SameConfig

LEMMA SetStateMachine ==
  ASSUME NEW n \in NodeState, NEW s \in Applied
  PROVE  /\ [n EXCEPT !.state_machine = s] \in NodeState
         /\ SameConfig([n EXCEPT !.state_machine = s], n)
BY DEF NodeState, SameConfig

LEMMA SetSnapshot ==
  ASSUME NEW n \in NodeState, NEW s \in [index : Nat, term : Term, data : Applied]
  PROVE  /\ [n EXCEPT !.last_snapshot = s] \in NodeState
         /\ SameConfig([n EXCEPT !.last_snapshot = s], n)
BY DEF NodeState, SameConfig

LEMMA SetNextIndex ==
  ASSUME NEW n \in NodeState, NEW f \in [Server -> Nat]
  PROVE  /\ [n EXCEPT !.next_index = f] \in NodeState
         /\ SameConfig([n EXCEPT !.next_index = f], n)
BY DEF NodeState, SameConfig

LEMMA SetMatchIndex ==
  ASSUME NEW n \in NodeState, NEW f \in [Server -> Nat]
  PROVE  /\ [n EXCEPT !.match_index = f] \in NodeState
         /\ SameConfig([n EXCEPT !.match_index = f], n)
BY DEF NodeState, SameConfig

LEMMA SetConfig ==
  ASSUME NEW n \in NodeState, NEW S \in SUBSET Server, NEW T \in SUBSET Server
  PROVE  [n EXCEPT !.config = S, !.old_config = T] \in NodeState
<1> DEFINE m == [n EXCEPT !.config = S]
<1>1. m \in NodeState
  BY DEF NodeState
<1>2. [m EXCEPT !.old_config = T] \in NodeState
  <2> HIDE DEF m
  <2> QED  BY <1>1 DEF NodeState
<1> QED  BY <1>2

LEMMA FreshNodeType ==
  /\ FreshNode \in NodeState
  /\ FreshNode.config = Server
  /\ FreshNode.old_config = {}
<1>1. EmptyLog \in Log
  BY EmptyLogType, LogIsLogOf
<1>2. NoSnapshot \in [index : Nat, term : Term, data : Applied]
  BY DEF NoSnapshot, Term, Applied
<1> QED  BY <1>1, <1>2 DEF FreshNode, NodeState, Applied

\* What the kind of a payload says of its contents.
LEMMA PayloadKinds ==
  ASSUME NEW p \in Payload
  PROVE  /\ p.kind = "cmd" => p.value \in Value
         /\ p.kind = "cfg" => p.servers \in SUBSET Server /\ Reconfigurable # {}
<1>1. CASE p = Noop
  BY <1>1 DEF Noop
<1>2. CASE \E v \in Value : p = Command(v)
  BY <1>2 DEF Command
<1>3. CASE Reconfigurable # {} /\ \E S \in SUBSET Server : p = ConfigChange(S)
  BY <1>3 DEF ConfigChange
<1> QED  BY <1>1, <1>2, <1>3 DEF Payload

LEMMA ApplyUpToType ==
  ASSUME NEW n \in NodeState
  PROVE  ApplyUpTo(n) \in Nat
<1>1. /\ n.commit_index \in Nat
      /\ n.applied_index \in Nat
      /\ LastPosition(n.log) \in Nat
  BY NodeFields, ReadType
<1> QED  BY <1>1 DEF ApplyUpTo, MinOf

\* The entries to apply are in the array.
LEMMA ToApplyType ==
  ASSUME NEW n \in NodeState, NEW kind, NEW k \in ToApply(n, kind)
  PROVE  /\ k \in Nat
         /\ Get(n.log, k) \in EntryOf(Payload)
         /\ Get(n.log, k).payload \in Payload
         /\ Get(n.log, k).payload.kind = kind
<1>1. /\ n.commit_index \in Nat
      /\ n.applied_index \in Nat
      /\ n.log \in LogOf(Payload)
      /\ n.log.first_index \in Nat
      /\ LastPosition(n.log) \in Nat
      /\ ApplyUpTo(n) \in Nat
  BY NodeFields, ReadType, ApplyUpToType DEF LogOf
<1>2. /\ k \in (n.applied_index + 1)..ApplyUpTo(n)
      /\ Get(n.log, k).payload.kind = kind
  BY DEF ToApply
<1>3. k \in Nat /\ Present(n.log, k)
  BY <1>1, <1>2 DEF ApplyUpTo, Present, MinOf
<1>4. Get(n.log, k) \in EntryOf(Payload)
  BY <1>1, <1>3, GetType
<1> QED  BY <1>2, <1>3, <1>4 DEF EntryOf

LEMMA TakeSnapshotType ==
  ASSUME NEW n \in NodeState
  PROVE  TakeSnapshot(n) \in NodeState /\ SameConfig(TakeSnapshot(n), n)
<1> DEFINE index == n.applied_index
           t == IF TermAt(n.log, index) < 0 /\ n.log.snapshot_last_index = index
                THEN n.log.snapshot_last_term
                ELSE TermAt(n.log, index)
           snap == [index |-> index, term |-> t, data |-> n.state_machine]
           a == [n EXCEPT !.last_snapshot = snap]
           l == Compact(n.log, index, t)
<1>1. /\ n.log \in LogOf(Payload)
      /\ index \in Nat
      /\ n.state_machine \in Applied
  BY NodeFields
<1>2. t \in Nat \cup {-1}
  <2>1. n.log.snapshot_last_term \in Nat \cup {-1}
    BY <1>1 DEF LogOf
  <2>2. TermAt(n.log, index) \in Nat \cup {-1}
    BY <1>1, TermAtType
  <2> QED  BY <2>1, <2>2
<1>3. TakeSnapshot(n) = IF index = 0 THEN n ELSE [a EXCEPT !.log = l]
  BY DEF TakeSnapshot
<1> HIDE DEF t
<1>4. snap \in [index : Nat, term : Term, data : Applied]
  BY <1>1, <1>2 DEF Term
<1>5. l \in LogOf(Payload)
  BY <1>1, <1>2, CompactType
<1> HIDE DEF snap, l
<1>6. a \in NodeState /\ SameConfig(a, n)
  BY <1>4, SetSnapshot
<1> HIDE DEF a
<1>7. [a EXCEPT !.log = l] \in NodeState /\ SameConfig([a EXCEPT !.log = l], a)
  BY <1>5, <1>6, SetLog
<1> QED  BY <1>3, <1>6, <1>7 DEF SameConfig

LEMMA ApplyConfigsType ==
  ASSUME NEW i \in Server, NEW n \in NodeState
  PROVE  /\ ApplyConfigs(i, n) \in NodeState
         /\ Reconfigurable = {} => ApplyConfigs(i, n) = n
         /\ ApplyConfigs(i, n).log = n.log
         /\ ApplyConfigs(i, n).state_machine = n.state_machine
<1> DEFINE cfgs == ToApply(n, "cfg")
           servers(k) == Get(n.log, k).payload.servers
           config == servers(Greatest(cfgs, 0))
           keeps(p) == p \in Tracked(n) /\ \A k \in cfgs : p \in servers(k)
           next == [p \in Server |->
                      IF p \notin config \ {i} THEN 0
                      ELSE IF keeps(p) THEN n.next_index[p] ELSE LastIndex(n.log) + 1]
           match == [p \in Server |->
                       IF p \in config \ {i} /\ keeps(p) THEN n.match_index[p] ELSE 0]
           a == [n EXCEPT !.config = config, !.old_config = {}]
           b == [a EXCEPT !.next_index = next]
           c == [b EXCEPT !.match_index = match]
<1>1. ApplyConfigs(i, n) = IF cfgs = {} THEN n ELSE c
  BY DEF ApplyConfigs
<1>2. \A k \in cfgs : servers(k) \in SUBSET Server /\ Reconfigurable # {}
  <2> SUFFICES ASSUME NEW k \in ToApply(n, "cfg")
               PROVE  servers(k) \in SUBSET Server /\ Reconfigurable # {}
    OBVIOUS
  <2>1. Get(n.log, k).payload \in Payload /\ Get(n.log, k).payload.kind = "cfg"
    BY ToApplyType
  <2> QED  BY <2>1, PayloadKinds
<1>3. CASE cfgs = {}
  BY <1>1, <1>3
<1>4. CASE cfgs # {}
  <2>1. Reconfigurable # {}
    BY <1>2, <1>4
  <2>2. config \in SUBSET Server
    <3>1. cfgs \subseteq (n.applied_index + 1)..ApplyUpTo(n)
      BY DEF ToApply
    <3>2. n.applied_index + 1 \in Int /\ ApplyUpTo(n) \in Int
      BY NodeFields, ApplyUpToType
    <3> HIDE DEF cfgs
    <3>3. Greatest(cfgs, 0) \in cfgs
      BY <1>4, <3>1, <3>2, GreatestIn
    <3> QED  BY <1>2, <3>3
  <2> HIDE DEF config, keeps, cfgs
  <2>3. /\ next \in [Server -> Nat]
        /\ match \in [Server -> Nat]
    <3>1. /\ n.next_index \in [Server -> Nat]
          /\ n.match_index \in [Server -> Nat]
          /\ LastIndex(n.log) \in Nat
      BY NodeFields, ReadType
    <3> QED  BY <3>1
  <2> HIDE DEF next, match
  <2>4. a \in NodeState
    BY <2>2, SetConfig
  <2>5. b \in NodeState
    <3> HIDE DEF a
    <3> QED  BY <2>3, <2>4, SetNextIndex
  <2>6. c \in NodeState
    <3> HIDE DEF b
    <3> QED  BY <2>3, <2>5, SetMatchIndex
  <2>7. c.log = n.log /\ c.state_machine = n.state_machine
    <3>1. a.log = n.log /\ a.state_machine = n.state_machine
      BY DEF NodeState
    <3>2. b.log = a.log /\ b.state_machine = a.state_machine
      <4> HIDE DEF a
      <4> QED  BY <2>4 DEF NodeState
    <3>3. c.log = b.log /\ c.state_machine = b.state_machine
      <4> HIDE DEF b
      <4> QED  BY <2>5 DEF NodeState
    <3> QED  BY <3>1, <3>2, <3>3
  <2> HIDE DEF c
  <2> QED  BY <1>1, <1>4, <2>1, <2>6, <2>7
<1> QED  BY <1>3, <1>4

LEMMA ApplyEntriesType ==
  ASSUME NEW i \in Server, NEW n \in NodeState
  PROVE  /\ ApplyEntries(i, n) \in NodeState
         /\ Reconfigurable = {} => SameConfig(ApplyEntries(i, n), n)
<1> DEFINE cmds == {<<k, Get(n.log, k).payload.value>> : k \in ToApply(n, "cmd")}
           c == ApplyConfigs(i, n)
           a == [c EXCEPT !.state_machine = c.state_machine \cup cmds]
<1>1. ApplyEntries(i, n) = [a EXCEPT !.applied_index = ApplyUpTo(n)]
  BY DEF ApplyEntries
<1>2. \A k \in ToApply(n, "cmd") : k \in Nat /\ Get(n.log, k).payload.value \in Value
  BY ToApplyType, PayloadKinds
<1>3. c \in NodeState /\ (Reconfigurable = {} => c = n)
  BY ApplyConfigsType
<1> HIDE DEF c
<1>4. c.state_machine \cup cmds \in Applied
  BY <1>2, <1>3, NodeFields DEF Applied
<1> HIDE DEF cmds
<1>5. a \in NodeState /\ SameConfig(a, c)
  BY <1>3, <1>4, SetStateMachine
<1> HIDE DEF a
<1>6. /\ [a EXCEPT !.applied_index = ApplyUpTo(n)] \in NodeState
      /\ SameConfig([a EXCEPT !.applied_index = ApplyUpTo(n)], a)
  BY <1>5, ApplyUpToType, SetApplied
<1> QED  BY <1>1, <1>3, <1>5, <1>6 DEF SameConfig

\* Applying leaves a node, and without reconfiguration its configuration.
LEMMA ApplyCommittedType ==
  ASSUME NEW i \in Server, NEW n \in NodeState
  PROVE  /\ ApplyCommitted(i, n) \in NodeState
         /\ Reconfigurable = {} => SameConfig(ApplyCommitted(i, n), n)
<1> DEFINE done == ApplyEntries(i, n)
<1>1. done \in NodeState /\ (Reconfigurable = {} => SameConfig(done, n))
  BY ApplyEntriesType
<1>2. \/ ApplyCommitted(i, n) = done
      \/ ApplyCommitted(i, n) = TakeSnapshot(done)
  BY DEF ApplyCommitted
<1> HIDE DEF done
<1>3. TakeSnapshot(done) \in NodeState /\ SameConfig(TakeSnapshot(done), done)
  BY <1>1, TakeSnapshotType
<1> QED  BY <1>1, <1>2, <1>3 DEF SameConfig

LEMMA AdvanceCommitType ==
  ASSUME NEW i \in Server, NEW n \in NodeState, NEW t
  PROVE  /\ AdvanceCommit(i, n, t) \in NodeState
         /\ Reconfigurable = {} => SameConfig(AdvanceCommit(i, n, t), n)
<1> DEFINE index == Greatest(Committable(i, n, t), 0)
           a == [n EXCEPT !.commit_index = index]
<1>1. Committable(i, n, t) \subseteq Nat
  <2>1. n.commit_index \in Nat /\ LastIndex(n.log) \in Nat
    BY NodeFields, ReadType
  <2> QED  BY <2>1 DEF Committable
<1>2. index \in Committable(i, n, t) \cup {0}
  BY GreatestType
<1>3. index \in Nat
  BY <1>1, <1>2
<1>4. AdvanceCommit(i, n, t) = IF index = 0 THEN n ELSE ApplyCommitted(i, a)
  BY DEF AdvanceCommit
<1> HIDE DEF index
<1>5. a \in NodeState /\ SameConfig(a, n)
  BY <1>3, SetCommit
<1> HIDE DEF a
<1>6. /\ ApplyCommitted(i, a) \in NodeState
      /\ Reconfigurable = {} => SameConfig(ApplyCommitted(i, a), a)
  BY <1>5, ApplyCommittedType
<1> QED  BY <1>4, <1>5, <1>6 DEF SameConfig

LEMMA ProposeEntryType ==
  ASSUME NEW i \in Server, NEW n \in NodeState, NEW t \in Nat, NEW payload \in Payload
  PROVE  /\ ProposeEntry(i, n, t, payload) \in NodeState
         /\ Reconfigurable = {} => SameConfig(ProposeEntry(i, n, t, payload), n)
<1> DEFINE l == AppendEntry(n.log, t, payload)
           a == [n EXCEPT !.log = l]
<1>1. l \in LogOf(Payload)
  BY NodeFields, AppendEntryType
<1>2. a \in NodeState /\ SameConfig(a, n)
  <2> HIDE DEF l
  <2> QED  BY <1>1, SetLog
<1>3. ProposeEntry(i, n, t, payload) = AdvanceCommit(i, a, t)
  BY DEF ProposeEntry
<1> HIDE DEF a
<1>4. /\ AdvanceCommit(i, a, t) \in NodeState
      /\ Reconfigurable = {} => SameConfig(AdvanceCommit(i, a, t), a)
  BY <1>2, AdvanceCommitType
<1> QED  BY <1>2, <1>3, <1>4 DEF SameConfig

LEMMA LeaderStateType ==
  ASSUME NEW i \in Server, NEW n \in NodeState, NEW t \in Nat
  PROVE  /\ LeaderState(i, n, t) \in NodeState
         /\ Reconfigurable = {} => SameConfig(LeaderState(i, n, t), n)
<1> DEFINE next == [p \in Server |-> IF p \in Peers(i, n) THEN LastIndex(n.log) + 1 ELSE 0]
           match == [p \in Server |-> 0]
           a == [n EXCEPT !.next_index = next]
           b == [a EXCEPT !.match_index = match]
<1>1. LeaderState(i, n, t) = ProposeEntry(i, b, t, Noop)
  BY DEF LeaderState
<1>2. LastIndex(n.log) \in Nat
  BY NodeFields, ReadType
<1>3. next \in [Server -> Nat] /\ match \in [Server -> Nat]
  BY <1>2
<1> HIDE DEF next, match
<1>4. a \in NodeState /\ SameConfig(a, n)
  BY <1>3, SetNextIndex
<1> HIDE DEF a
<1>5. b \in NodeState /\ SameConfig(b, a)
  BY <1>3, <1>4, SetMatchIndex
<1> HIDE DEF b
<1>6. Noop \in Payload
  BY DEF Payload
<1>7. /\ ProposeEntry(i, b, t, Noop) \in NodeState
      /\ Reconfigurable = {} => SameConfig(ProposeEntry(i, b, t, Noop), b)
  BY <1>5, <1>6, ProposeEntryType
<1> QED  BY <1>1, <1>4, <1>5, <1>7 DEF SameConfig

-----------------------------------------------------------------------------
(* Messages *)

LEMMA MessageFields ==
  ASSUME NEW m \in Message
  PROVE  /\ m.dest \in Server
         /\ m.term \in Nat
         /\ m.type \in {"prevote", "vote"} => m.candidate \in Server
         /\ m.type \in {"prevote_resp", "vote_resp"} =>
              m.from \in Server /\ m.granted \in BOOLEAN
         /\ m.type = "append" =>
              /\ m.leader \in Server /\ m.prev_index \in Nat /\ m.prev_term \in Term
              /\ m.entries \in Seq(Entry) /\ m.commit \in Nat
         /\ m.type = "append_resp" =>
              m.from \in Server /\ m.match \in Nat /\ m.conflict \in Nat
         /\ m.type = "install_snapshot" =>
              /\ m.leader \in Server /\ m.last_included_index \in Nat
              /\ m.last_included_term \in Term /\ m.data \in Applied
BY DEF Message

\* A granted vote is the record that its fields say.
VoteMsg(q, t, c) ==
  [type |-> "vote_resp", dest |-> c, term |-> t, from |-> q, granted |-> TRUE]

LEMMA VoteMsgIs ==
  ASSUME NEW m \in Message, m.type = "vote_resp", m.granted
  PROVE  m = VoteMsg(m.from, m.term, m.dest)
BY DEF Message, VoteMsg

LEMMA VoteReplyType ==
  ASSUME NEW i \in Server, NEW m \in Message, m.type = "vote", NEW t \in Nat,
         NEW granted \in BOOLEAN
  PROVE  VoteReply(i, m, t, granted) \in Message
<1>1. m.candidate \in Server
  BY MessageFields
<1> QED  BY <1>1 DEF VoteReply, Message

LEMMA AppendReplyType ==
  ASSUME NEW i \in Server, NEW m \in Message, m.type \in {"append", "install_snapshot"},
         NEW t \in Nat, NEW success \in BOOLEAN, NEW match \in Nat, NEW conflict \in Nat
  PROVE  /\ AppendReply(i, m, t, success, match, conflict) \in Message
         /\ AppendReply(i, m, t, success, match, conflict).type # "vote_resp"
<1>1. m.leader \in Server
  BY MessageFields
<1> QED  BY <1>1 DEF AppendReply, Message

LEMMA ProgressType ==
  ASSUME NEW l \in LogOf(Payload)
  PROVE  Progress(l)[1] \in Term /\ Progress(l)[2] \in Nat
<1>1. /\ l.snapshot_last_term \in Term
      /\ l.snapshot_last_index \in Nat
  BY DEF LogOf, Term
<1>2. LastTerm(l) \in Term /\ LastIndex(l) \in Nat
  BY ReadType DEF Term
<1> QED  BY <1>1, <1>2 DEF Progress

LEMMA SendAppendType ==
  ASSUME NEW i \in Server, NEW n \in NodeState, NEW t \in Nat, NEW p \in Server
  PROVE  /\ SendAppend(i, n, t, p) \in Message
         /\ SendAppend(i, n, t, p).type # "vote_resp"
<1> DEFINE next == IF p \in Tracked(n) THEN n.next_index[p] ELSE LastIndex(n.log) + 1
           entries == EntriesFrom(n.log, next, MaxBatch)
           append == [type |-> "append", dest |-> p, term |-> t, leader |-> i,
                      prev_index |-> next - 1, prev_term |-> TermAt(n.log, next - 1),
                      entries |-> entries, commit |-> n.commit_index]
<1>1. /\ n.log \in LogOf(Payload)
      /\ n.commit_index \in Nat
      /\ n.next_index \in [Server -> Nat]
      /\ n.last_snapshot \in [index : Nat, term : Term, data : Applied]
      /\ LastIndex(n.log) \in Nat
  BY NodeFields, ReadType
<1>2. next \in Nat \ {0}
  BY <1>1 DEF Tracked
<1>3. SendAppend(i, n, t, p) = IF next < n.log.first_index THEN InstallMsg(i, n, t, p)
                               ELSE append
  BY DEF SendAppend
<1> HIDE DEF next
<1>4. append \in Message /\ append.type # "vote_resp"
  <2>1. TermAt(n.log, next - 1) \in Term
    BY <1>1, <1>2, TermAtType DEF Term
  <2>2. entries \in Seq(Entry)
    BY <1>1, <1>2, EntriesFromType, LogIsLogOf, SettingAssumption
  <2> HIDE DEF entries
  <2> QED  BY <1>1, <1>2, <2>1, <2>2 DEF Message
<1>5. InstallMsg(i, n, t, p) \in Message /\ InstallMsg(i, n, t, p).type # "vote_resp"
  <2> DEFINE snap == IF n.last_snapshot.index # 0 THEN n.last_snapshot
                     ELSE [index |-> n.log.snapshot_last_index,
                           term |-> n.log.snapshot_last_term, data |-> {}]
  <2>1. snap \in [index : Nat, term : Term, data : Applied]
    BY <1>1 DEF LogOf, Term, Applied
  <2>2. InstallMsg(i, n, t, p) =
          [type |-> "install_snapshot", dest |-> p, term |-> t, leader |-> i,
           last_included_index |-> snap.index, last_included_term |-> snap.term,
           data |-> snap.data]
    BY DEF InstallMsg
  <2> HIDE DEF snap
  <2> QED  BY <2>1, <2>2 DEF Message
<1> QED  BY <1>3, <1>4, <1>5

LEMMA SendAllAppendsType ==
  ASSUME NEW i \in Server, NEW n \in NodeState, NEW t \in Nat
  PROVE  \A m \in SendAllAppends(i, n, t) : m \in Message /\ m.type # "vote_resp"
<1>1. Peers(i, n) \subseteq Server
  BY NodeFields DEF Peers
<1> QED  BY <1>1, SendAppendType DEF SendAllAppends

\* Sending messages of the right type keeps the type of msgs; no vote is granted
\* by a message of another type.
LEMMA SendType ==
  ASSUME NEW M, \A m \in M : m \in Message, msgs \subseteq Message, Send(M)
  PROVE  msgs' \subseteq Message
BY DEF Send

LEMMA SendNoVotes ==
  ASSUME NEW M, \A m \in M : m.type # "vote_resp", Send(M)
  PROVE  \A q, t, c : VoteMsg(q, t, c) \in msgs' <=> VoteMsg(q, t, c) \in msgs
<1> TAKE q, t, c
<1>1. VoteMsg(q, t, c).type = "vote_resp"
  BY DEF VoteMsg
<1> QED  BY <1>1 DEF Send

-----------------------------------------------------------------------------
(* The type invariant, and the configuration when nobody changes it *)

ConfigFixed == \A i \in Server : node[i].config = Server /\ node[i].old_config = {}
KeepsConfig == (Reconfigurable = {} /\ ConfigFixed) => ConfigFixed'

\* The types of everything but the nodes and the messages.
ElectionTypeOK ==
  /\ current_term \in [Server -> Nat]
  /\ voted_for \in [Server -> Server \cup {None}]
  /\ role \in [Server -> {Follower, Candidate, Leader}]
  /\ leader_id \in [Server -> Server \cup {None}]
  /\ pre_candidate \in [Server -> BOOLEAN]
  /\ prevote_term \in [Server -> Nat]
  /\ votes \in [Server -> SUBSET Server]
  /\ transfer_target \in [Server -> Server \cup {None}]

LEMMA TypeParts ==
  TypeOK <=> /\ ElectionTypeOK
             /\ node \in [Server -> NodeState]
             /\ msgs \subseteq Message
             /\ elected \subseteq Nat \X Server
             /\ proposed \subseteq Value
BY DEF TypeOK, ElectionTypeOK

\* One server's node changes.
LEMMA NodeStep ==
  ASSUME node \in [Server -> NodeState], NEW i \in Server, NEW n \in NodeState,
         Reconfigurable = {} => SameConfig(n, node[i]),
         node' = [node EXCEPT ![i] = n]
  PROVE  node' \in [Server -> NodeState] /\ node'[i] = n /\ KeepsConfig
BY DEF ConfigFixed, KeepsConfig, SameConfig

LEMMA NodeUnchanged ==
  ASSUME node \in [Server -> NodeState], UNCHANGED node
  PROVE  node' \in [Server -> NodeState] /\ KeepsConfig
BY DEF ConfigFixed, KeepsConfig

LEMMA UnchangedElection ==
  ASSUME ElectionTypeOK, UNCHANGED electionVars
  PROVE  ElectionTypeOK'
BY DEF ElectionTypeOK, electionVars

LEMMA StepDownType ==
  ASSUME ElectionTypeOK, NEW i \in Server, NEW t \in Nat, StepDown(i, t)
  PROVE  /\ current_term' \in [Server -> Nat]
         /\ voted_for' \in [Server -> Server \cup {None}]
         /\ role' \in [Server -> {Follower, Candidate, Leader}]
         /\ pre_candidate' \in [Server -> BOOLEAN]
         /\ transfer_target' \in [Server -> Server \cup {None}]
BY DEF ElectionTypeOK, StepDown, MaxOf

LEMMA FollowLeaderType ==
  ASSUME ElectionTypeOK, NEW i \in Server, NEW m \in Message,
         m.type \in {"append", "install_snapshot"}, FollowLeader(i, m)
  PROVE  ElectionTypeOK'
<1>1. m.term \in Nat /\ m.leader \in Server
  BY MessageFields
<1>2. /\ leader_id' = [leader_id EXCEPT ![i] = m.leader]
      /\ UNCHANGED <<prevote_term, votes>>
  BY DEF FollowLeader
<1>3. CASE StepDown(i, m.term)
  BY <1>1, <1>2, <1>3, StepDownType DEF ElectionTypeOK
<1>4. CASE UNCHANGED <<current_term, voted_for, role, pre_candidate, transfer_target>>
  BY <1>1, <1>2, <1>4 DEF ElectionTypeOK
<1> QED  BY <1>3, <1>4 DEF FollowLeader

LEMMA VoteRequestsType ==
  ASSUME node \in [Server -> NodeState], NEW i \in Server,
         NEW type \in {"prevote", "vote"}, NEW t \in Nat
  PROVE  \A m \in VoteRequests(i, type, t) : m \in Message /\ m.type # "vote_resp"
<1>1. node[i].log \in LogOf(Payload) /\ Peers(i, node[i]) \subseteq Server
  BY NodeFields DEF Peers
<1>2. Progress(node[i].log)[1] \in Term /\ Progress(node[i].log)[2] \in Nat
  BY <1>1, ProgressType
<1> QED  BY <1>1, <1>2 DEF VoteRequests, Message

LEMMA BecomeLeaderType ==
  ASSUME TypeOK, NEW i \in Server, NEW t \in Nat, BecomeLeader(i, t)
  PROVE  /\ role' \in [Server -> {Follower, Candidate, Leader}]
         /\ leader_id' \in [Server -> Server \cup {None}]
         /\ pre_candidate' \in [Server -> BOOLEAN]
         /\ transfer_target' \in [Server -> Server \cup {None}]
         /\ node' \in [Server -> NodeState]
         /\ msgs' \subseteq Message
         /\ elected' \subseteq Nat \X Server
         /\ KeepsConfig
         /\ \A q, u, c : VoteMsg(q, u, c) \in msgs' <=> VoteMsg(q, u, c) \in msgs
<1> DEFINE n == LeaderState(i, node[i], t)
<1>1. n \in NodeState /\ (Reconfigurable = {} => SameConfig(n, node[i]))
  BY LeaderStateType DEF TypeOK
<1>2. node' = [node EXCEPT ![i] = n]
  BY DEF BecomeLeader
<1> HIDE DEF n
<1>3. node' \in [Server -> NodeState] /\ node'[i] = n /\ KeepsConfig
  BY <1>1, <1>2, NodeStep DEF TypeOK
<1>4. Send(SendAllAppends(i, n, t))
  BY <1>3 DEF BecomeLeader
<1>5. \A m \in SendAllAppends(i, n, t) : m \in Message /\ m.type # "vote_resp"
  BY <1>1, SendAllAppendsType
<1>6. msgs' \subseteq Message
  BY <1>4, <1>5, SendType DEF TypeOK
<1>7. \A q, u, c : VoteMsg(q, u, c) \in msgs' <=> VoteMsg(q, u, c) \in msgs
  BY <1>4, <1>5, SendNoVotes
<1> QED  BY <1>3, <1>6, <1>7 DEF BecomeLeader, TypeOK

LEMMA StartElectionType ==
  ASSUME TypeOK, NEW i \in Server, NEW pre \in BOOLEAN, StartElection(i, pre)
  PROVE  /\ TypeOK'
         /\ KeepsConfig
         /\ \A q, u, c : VoteMsg(q, u, c) \in msgs' <=> VoteMsg(q, u, c) \in msgs
<1> DEFINE t == current_term[i] + 1
<1>1. t \in Nat
  BY DEF TypeOK
<1>2. /\ current_term' = [current_term EXCEPT ![i] = t]
      /\ voted_for' = [voted_for EXCEPT ![i] = i]
      /\ votes' = [votes EXCEPT ![i] = {i}]
      /\ UNCHANGED <<prevote_term, proposed>>
  BY DEF StartElection
<1>3. /\ current_term' \in [Server -> Nat]
      /\ voted_for' \in [Server -> Server \cup {None}]
      /\ votes' \in [Server -> SUBSET Server]
      /\ prevote_term' \in [Server -> Nat]
      /\ proposed' \subseteq Value
  BY <1>1, <1>2 DEF TypeOK
<1>4. CASE BecomeLeader(i, t)
  <2> HIDE DEF t
  <2> QED  BY <1>1, <1>3, <1>4, BecomeLeaderType DEF TypeOK
<1>5. CASE /\ role' = [role EXCEPT ![i] = Candidate]
           /\ leader_id' = [leader_id EXCEPT ![i] = None]
           /\ pre_candidate' = [pre_candidate EXCEPT ![i] = pre]
           /\ Send(VoteRequests(i, "vote", t))
           /\ UNCHANGED <<transfer_target, node, elected>>
  <2> HIDE DEF t
  <2>1. \A m \in VoteRequests(i, "vote", t) : m \in Message /\ m.type # "vote_resp"
    BY <1>1, VoteRequestsType DEF TypeOK
  <2>2. msgs' \subseteq Message
    BY <1>5, <2>1, SendType DEF TypeOK
  <2>3. \A q, u, c : VoteMsg(q, u, c) \in msgs' <=> VoteMsg(q, u, c) \in msgs
    BY <1>5, <2>1, SendNoVotes
  <2>4. KeepsConfig
    BY <1>5, NodeUnchanged DEF TypeOK
  <2> QED  BY <1>3, <1>5, <2>2, <2>3, <2>4 DEF TypeOK
<1> QED  BY <1>4, <1>5 DEF StartElection

\* What an action that plays no part in elections leaves alone.
VotesKept == \A q, u, c : VoteMsg(q, u, c) \in msgs' <=> VoteMsg(q, u, c) \in msgs
Quiet == /\ UNCHANGED <<current_term, voted_for, role, pre_candidate, votes, elected>>
         /\ VotesKept
SteppedDown(i) ==
  /\ \E t \in Nat : StepDown(i, t)
  /\ UNCHANGED <<votes, elected>>
  /\ VotesKept

LEMMA SendFacts ==
  ASSUME NEW M, \A m \in M : m \in Message /\ m.type # "vote_resp",
         msgs \subseteq Message, Send(M)
  PROVE  msgs' \subseteq Message /\ VotesKept
BY SendType, SendNoVotes DEF VotesKept

LEMMA MsgsUnchanged ==
  ASSUME msgs \subseteq Message, UNCHANGED msgs
  PROVE  msgs' \subseteq Message /\ VotesKept
BY DEF VotesKept

LEMMA HeartbeatStep ==
  ASSUME TypeOK, NEW i \in Server, Heartbeat(i)
  PROVE  TypeOK' /\ KeepsConfig /\ Quiet
<1>1. /\ Send(SendAllAppends(i, node[i], current_term[i]))
      /\ UNCHANGED <<electionVars, node, elected, proposed>>
  BY DEF Heartbeat
<1>2. \A m \in SendAllAppends(i, node[i], current_term[i]) :
        m \in Message /\ m.type # "vote_resp"
  BY SendAllAppendsType DEF TypeOK
<1>3. msgs' \subseteq Message /\ VotesKept
  BY <1>1, <1>2, SendFacts DEF TypeOK
<1>4. KeepsConfig
  BY <1>1, NodeUnchanged DEF TypeOK
<1> QED  BY <1>1, <1>3, <1>4 DEF TypeOK, Quiet, electionVars

LEMMA AbortTransferStep ==
  ASSUME TypeOK, NEW i \in Server, AbortTransfer(i)
  PROVE  TypeOK' /\ KeepsConfig /\ Quiet
<1>1. /\ transfer_target' = [transfer_target EXCEPT ![i] = None]
      /\ Send(SendAllAppends(i, node[i], current_term[i]))
      /\ UNCHANGED <<current_term, voted_for, role, leader_id, pre_candidate, prevote_term,
                     votes, node, elected, proposed>>
  BY DEF AbortTransfer
<1>2. \A m \in SendAllAppends(i, node[i], current_term[i]) :
        m \in Message /\ m.type # "vote_resp"
  BY SendAllAppendsType DEF TypeOK
<1>3. msgs' \subseteq Message /\ VotesKept
  BY <1>1, <1>2, SendFacts DEF TypeOK
<1>4. KeepsConfig
  BY <1>1, NodeUnchanged DEF TypeOK
<1> QED  BY <1>1, <1>3, <1>4 DEF TypeOK, Quiet

LEMMA CheckQuorumStep ==
  ASSUME TypeOK, NEW i \in Server, CheckQuorum(i)
  PROVE  TypeOK' /\ KeepsConfig /\ SteppedDown(i)
<1>1. /\ StepDown(i, current_term[i])
      /\ UNCHANGED <<leader_id, prevote_term, votes, node, msgs, elected, proposed>>
      /\ current_term[i] \in Nat
  BY DEF CheckQuorum, TypeOK
<1>2. KeepsConfig /\ VotesKept
  BY <1>1, NodeUnchanged, MsgsUnchanged DEF TypeOK
<1>3. ElectionTypeOK
  BY TypeParts
<1> QED  BY <1>1, <1>2, <1>3, StepDownType DEF TypeOK, SteppedDown

LEMMA ProposeStep ==
  ASSUME TypeOK, NEW i \in Server, NEW v \in Value, Propose(i, v)
  PROVE  TypeOK' /\ KeepsConfig /\ Quiet
<1> DEFINE t == current_term[i]
           n == ProposeEntry(i, node[i], t, Command(v))
<1>1. /\ node' = [node EXCEPT ![i] = n]
      /\ Send(SendAllAppends(i, node'[i], t))
      /\ proposed' = proposed \cup {v}
      /\ UNCHANGED <<electionVars, elected>>
  BY DEF Propose
<1>2. t \in Nat /\ node[i] \in NodeState /\ Command(v) \in Payload
  BY DEF TypeOK, Payload
<1>3. n \in NodeState /\ (Reconfigurable = {} => SameConfig(n, node[i]))
  BY <1>2, ProposeEntryType
<1> HIDE DEF n
<1>4. node' \in [Server -> NodeState] /\ node'[i] = n /\ KeepsConfig
  BY <1>1, <1>3, NodeStep DEF TypeOK
<1>5. \A m \in SendAllAppends(i, n, t) : m \in Message /\ m.type # "vote_resp"
  BY <1>2, <1>3, SendAllAppendsType
<1>6. msgs' \subseteq Message /\ VotesKept
  BY <1>1, <1>4, <1>5, SendFacts DEF TypeOK
<1>7. proposed' \subseteq Value
  BY <1>1 DEF TypeOK
<1> QED  BY <1>1, <1>4, <1>6, <1>7 DEF TypeOK, Quiet, electionVars

LEMMA TransferLeadershipStep ==
  ASSUME TypeOK, NEW i \in Server, NEW target \in Targets, TransferLeadership(i, target)
  PROVE  TypeOK' /\ KeepsConfig /\ Quiet
<1> DEFINE m == [type |-> "timeout_now", dest |-> target, term |-> current_term[i]]
<1>1. /\ transfer_target' = [transfer_target EXCEPT ![i] = target]
      /\ Send({m})
      /\ UNCHANGED <<current_term, voted_for, role, leader_id, pre_candidate, prevote_term,
                     votes, node, elected, proposed>>
  BY DEF TransferLeadership
<1>2. target \in Server
  BY EnvironmentAssumption
<1>3. m \in Message /\ m.type # "vote_resp"
  BY <1>2 DEF Message, TypeOK
<1> HIDE DEF m
<1>4. msgs' \subseteq Message /\ VotesKept
  BY <1>1, <1>3, SendFacts DEF TypeOK
<1>5. KeepsConfig
  BY <1>1, NodeUnchanged DEF TypeOK
<1> QED  BY <1>1, <1>2, <1>4, <1>5 DEF TypeOK, Quiet

LEMMA SnapshotStep ==
  ASSUME TypeOK, NEW i \in Server, Snapshot(i)
  PROVE  TypeOK' /\ KeepsConfig /\ Quiet
<1>1. /\ node' = [node EXCEPT ![i] = TakeSnapshot(node[i])]
      /\ UNCHANGED <<electionVars, msgs, elected, proposed>>
  BY DEF Snapshot
<1>2. TakeSnapshot(node[i]) \in NodeState /\ SameConfig(TakeSnapshot(node[i]), node[i])
  BY TakeSnapshotType DEF TypeOK
<1>3. node' \in [Server -> NodeState] /\ KeepsConfig
  BY <1>1, <1>2, NodeStep DEF TypeOK
<1>4. VotesKept
  BY <1>1, MsgsUnchanged DEF TypeOK
<1> QED  BY <1>1, <1>3, <1>4 DEF TypeOK, Quiet, electionVars

\* A change of the configuration is possible only where it is allowed.
LEMMA ProposeConfigStep ==
  ASSUME TypeOK, NEW i \in Server, NEW servers \in SUBSET Server, Reconfigurable # {},
         ProposeConfig(i, servers)
  PROVE  TypeOK' /\ KeepsConfig /\ Quiet
<1> DEFINE t == current_term[i]
           n == node[i]
           fresh == servers \ (Tracked(n) \cup {i})
           next == [p \in Server |-> IF p \in fresh THEN LastIndex(n.log) + 1 ELSE n.next_index[p]]
           match == [p \in Server |-> IF p \in fresh THEN 0 ELSE n.match_index[p]]
           a == [n EXCEPT !.old_config = n.config]
           b == [a EXCEPT !.config = n.config \cup servers]
           c == [b EXCEPT !.next_index = next]
           joint == [c EXCEPT !.match_index = match]
           new == ProposeEntry(i, joint, t, ConfigChange(servers))
<1>1. /\ node' = [node EXCEPT ![i] = new]
      /\ Send(SendAllAppends(i, node'[i], t))
      /\ UNCHANGED <<electionVars, elected, proposed>>
  BY DEF ProposeConfig, JointState
<1>2. /\ t \in Nat
      /\ n \in NodeState
      /\ ConfigChange(servers) \in Payload
  BY DEF TypeOK, Payload
<1>3. joint \in NodeState
  <2>1. /\ n.config \in SUBSET Server
        /\ n.next_index \in [Server -> Nat]
        /\ n.match_index \in [Server -> Nat]
        /\ LastIndex(n.log) \in Nat
    BY <1>2, NodeFields, ReadType
  <2> HIDE DEF n, fresh
  <2>2. next \in [Server -> Nat] /\ match \in [Server -> Nat]
    BY <2>1
  <2> HIDE DEF next, match
  <2>3. a \in NodeState
    BY <1>2, <2>1 DEF NodeState
  <2> HIDE DEF a
  <2>4. b \in NodeState
    BY <2>1, <2>3 DEF NodeState
  <2> HIDE DEF b
  <2>5. c \in NodeState
    BY <2>2, <2>4, SetNextIndex
  <2> HIDE DEF c
  <2> QED  BY <2>2, <2>5, SetMatchIndex
<1> HIDE DEF joint
<1>4. new \in NodeState
  BY <1>2, <1>3, ProposeEntryType
<1> HIDE DEF new
<1>5. node' \in [Server -> NodeState] /\ node'[i] = new /\ KeepsConfig
  BY <1>1, <1>4, NodeStep DEF TypeOK
<1>6. \A m \in SendAllAppends(i, new, t) : m \in Message /\ m.type # "vote_resp"
  BY <1>2, <1>4, SendAllAppendsType
<1>7. msgs' \subseteq Message /\ VotesKept
  BY <1>1, <1>5, <1>6, SendFacts DEF TypeOK
<1> QED  BY <1>1, <1>5, <1>7 DEF TypeOK, Quiet, electionVars

LEMMA StartPreVoteStep ==
  ASSUME TypeOK, NEW i \in Server, StartPreVote(i)
  PROVE  TypeOK' /\ KeepsConfig /\ VotesKept
<1> DEFINE t == current_term[i] + 1
<1>1. /\ pre_candidate' = [pre_candidate EXCEPT ![i] = TRUE]
      /\ prevote_term' = [prevote_term EXCEPT ![i] = t]
      /\ votes' = [votes EXCEPT ![i] = {i}]
      /\ Send(VoteRequests(i, "prevote", t))
      /\ UNCHANGED <<current_term, voted_for, role, leader_id, transfer_target,
                     node, elected, proposed>>
  BY DEF StartPreVote
<1>2. t \in Nat
  BY DEF TypeOK
<1> HIDE DEF t
<1>3. \A m \in VoteRequests(i, "prevote", t) : m \in Message /\ m.type # "vote_resp"
  BY <1>2, VoteRequestsType DEF TypeOK
<1>4. msgs' \subseteq Message /\ VotesKept
  BY <1>1, <1>3, SendFacts DEF TypeOK
<1>5. KeepsConfig
  BY <1>1, NodeUnchanged DEF TypeOK
<1> QED  BY <1>1, <1>2, <1>4, <1>5 DEF TypeOK

LEMMA OnPrevoteStep ==
  ASSUME TypeOK, NEW i \in Server, NEW m \in msgs, OnPrevote(i, m)
  PROVE  TypeOK' /\ KeepsConfig /\ Quiet
<1>1. m \in Message /\ m.type = "prevote"
  BY DEF TypeOK, OnPrevote
<1>2. m.candidate \in Server /\ m.term \in Nat
  BY <1>1, MessageFields
<1>3. PICK granted \in BOOLEAN :
        Send({[type |-> "prevote_resp", dest |-> m.candidate,
               term |-> m.term, from |-> i, granted |-> granted]})
  BY DEF OnPrevote
<1> DEFINE r == [type |-> "prevote_resp", dest |-> m.candidate,
                 term |-> m.term, from |-> i, granted |-> granted]
<1>4. r \in Message /\ r.type # "vote_resp"
  BY <1>2 DEF Message
<1> HIDE DEF r
<1>5. msgs' \subseteq Message /\ VotesKept
  <2>1. Send({r})
    BY <1>3 DEF r
  <2> QED  BY <1>4, <2>1, SendFacts DEF TypeOK
<1>6. UNCHANGED <<electionVars, node, elected, proposed>>
  BY DEF OnPrevote
<1>7. KeepsConfig
  BY <1>6, NodeUnchanged DEF TypeOK
<1> QED  BY <1>5, <1>6, <1>7 DEF TypeOK, Quiet, electionVars

LEMMA OnPrevoteRespStep ==
  ASSUME TypeOK, NEW i \in Server, NEW m \in msgs, OnPrevoteResp(i, m)
  PROVE  TypeOK' /\ KeepsConfig /\ VotesKept
<1>1. m \in Message /\ m.type = "prevote_resp"
  BY DEF TypeOK, OnPrevoteResp
<1>2. m.from \in Server
  BY <1>1, MessageFields
<1>3. CASE StartElection(i, FALSE)
  BY <1>3, StartElectionType DEF VotesKept
<1>4. CASE /\ votes' = [votes EXCEPT ![i] =
                          votes[i] \cup (IF m.granted THEN {m.from} ELSE {})]
           /\ UNCHANGED <<current_term, voted_for, role, leader_id, pre_candidate,
                          prevote_term, transfer_target, node, msgs, elected, proposed>>
  <2>1. KeepsConfig /\ VotesKept
    BY <1>4, NodeUnchanged, MsgsUnchanged DEF TypeOK
  <2> QED  BY <1>2, <1>4, <2>1 DEF TypeOK
<1> QED  BY <1>3, <1>4 DEF OnPrevoteResp

LEMMA OnVoteType ==
  ASSUME TypeOK, NEW i \in Server, NEW m \in msgs, OnVote(i, m)
  PROVE  TypeOK' /\ KeepsConfig
<1>1. /\ m \in Message /\ m.type = "vote"
      /\ UNCHANGED <<node, elected, proposed>>
  BY DEF TypeOK, OnVote
<1>2. m.candidate \in Server /\ m.term \in Nat
  BY <1>1, MessageFields
<1>3. \A t \in Nat, granted \in BOOLEAN :
        Send({VoteReply(i, m, t, granted)}) => msgs' \subseteq Message
  <2> SUFFICES ASSUME NEW t \in Nat, NEW granted \in BOOLEAN,
                      Send({VoteReply(i, m, t, granted)})
               PROVE  msgs' \subseteq Message
    OBVIOUS
  <2>1. VoteReply(i, m, t, granted) \in Message
    BY <1>1, VoteReplyType
  <2> QED  BY <2>1, SendType DEF TypeOK
<1>4. KeepsConfig
  BY <1>1, NodeUnchanged DEF TypeOK
<1>5. CASE /\ Send({VoteReply(i, m, current_term[i], FALSE)})
           /\ UNCHANGED electionVars
  <2>1. msgs' \subseteq Message
    BY <1>3, <1>5 DEF TypeOK
  <2> QED  BY <1>1, <1>4, <1>5, <2>1 DEF TypeOK, electionVars
<1>6. ASSUME NEW granted \in BOOLEAN,
             voted_for' = [voted_for EXCEPT ![i] = IF granted THEN m.candidate ELSE @],
             Send({VoteReply(i, m, m.term, granted)}),
             UNCHANGED <<current_term, role, leader_id, pre_candidate, prevote_term,
                         votes, transfer_target>>
      PROVE  TypeOK'
  <2>1. msgs' \subseteq Message
    BY <1>2, <1>3, <1>6
  <2> QED  BY <1>1, <1>2, <1>6, <2>1 DEF TypeOK
<1>7. ASSUME NEW granted \in BOOLEAN,
             current_term' = [current_term EXCEPT ![i] = m.term],
             voted_for' = [voted_for EXCEPT ![i] = IF granted THEN m.candidate ELSE None],
             role' = [role EXCEPT ![i] = Follower],
             pre_candidate' = [pre_candidate EXCEPT ![i] = FALSE],
             transfer_target' = [transfer_target EXCEPT ![i] = None],
             Send({VoteReply(i, m, m.term, granted)}),
             UNCHANGED <<leader_id, prevote_term, votes>>
      PROVE  TypeOK'
  <2>1. msgs' \subseteq Message
    BY <1>2, <1>3, <1>7
  <2> QED  BY <1>1, <1>2, <1>7, <2>1 DEF TypeOK
<1>8. GrantsVote(i, m, voted_for[i]) \in BOOLEAN /\ GrantsVote(i, m, None) \in BOOLEAN
  BY DEF GrantsVote
<1> QED  BY <1>4, <1>5, <1>6, <1>7, <1>8 DEF OnVote

LEMMA OnVoteRespStep ==
  ASSUME TypeOK, NEW i \in Server, NEW m \in msgs, OnVoteResp(i, m)
  PROVE  TypeOK' /\ KeepsConfig /\ VotesKept
<1>1. /\ m \in Message /\ m.type = "vote_resp"
      /\ votes' = [votes EXCEPT ![i] = votes[i] \cup {m.from}]
      /\ UNCHANGED <<current_term, voted_for, prevote_term, proposed>>
  BY DEF TypeOK, OnVoteResp
<1>2. m.from \in Server /\ current_term[i] \in Nat
  BY <1>1, MessageFields DEF TypeOK
<1>3. votes' \in [Server -> SUBSET Server]
  BY <1>1, <1>2 DEF TypeOK
<1>4. CASE BecomeLeader(i, current_term[i])
  BY <1>1, <1>2, <1>3, <1>4, BecomeLeaderType DEF TypeOK, VotesKept
<1>5. CASE UNCHANGED <<role, leader_id, pre_candidate, transfer_target, node, msgs, elected>>
  <2>1. KeepsConfig /\ VotesKept
    BY <1>5, NodeUnchanged, MsgsUnchanged DEF TypeOK
  <2> QED  BY <1>1, <1>3, <1>5, <2>1 DEF TypeOK
<1> QED  BY <1>4, <1>5 DEF OnVoteResp

\* The log and the state after an append and after a snapshot.
LEMMA FollowerStateType ==
  ASSUME NEW i \in Server, NEW n \in NodeState, NEW m \in Message, m.type = "append",
         NEW merged \in [ok : BOOLEAN, match : Nat, conflict : Nat, log : LogOf(Payload)]
  PROVE  /\ FollowerState(i, n, m, merged) \in NodeState
         /\ Reconfigurable = {} => SameConfig(FollowerState(i, n, m, merged), n)
<1> DEFINE a == [n EXCEPT !.log = merged.log]
           index == MinOf(m.commit, LastIndex(merged.log))
           b == [a EXCEPT !.commit_index = index]
<1>1. FollowerState(i, n, m, merged) =
        IF merged.ok /\ m.commit > n.commit_index THEN ApplyCommitted(i, b) ELSE a
  BY DEF FollowerState
<1>2. merged.log \in LogOf(Payload)
  OBVIOUS
<1>3. a \in NodeState /\ SameConfig(a, n)
  BY <1>2, SetLog
<1>4. index \in Nat
  BY <1>2, MessageFields, ReadType DEF MinOf
<1> HIDE DEF a, index
<1>5. b \in NodeState /\ SameConfig(b, a)
  BY <1>3, <1>4, SetCommit
<1> HIDE DEF b
<1>6. /\ ApplyCommitted(i, b) \in NodeState
      /\ Reconfigurable = {} => SameConfig(ApplyCommitted(i, b), b)
  BY <1>5, ApplyCommittedType
<1> QED  BY <1>1, <1>3, <1>5, <1>6 DEF SameConfig

LEMMA InstallSnapshotType ==
  ASSUME NEW n \in NodeState, NEW m \in Message, m.type = "install_snapshot"
  PROVE  InstallSnapshot(n, m) \in NodeState /\ SameConfig(InstallSnapshot(n, m), n)
<1> DEFINE index == m.last_included_index
           term == m.last_included_term
           snap == [index |-> index, term |-> term, data |-> m.data]
           l == ResetTo(n.log, index, term)
           a == [n EXCEPT !.commit_index = MaxOf(n.commit_index, index)]
           b == [a EXCEPT !.state_machine = m.data]
           c == [b EXCEPT !.log = l]
           d == [c EXCEPT !.last_snapshot = snap]
           e == [d EXCEPT !.applied_index = MaxOf(n.applied_index, index)]
<1>1. /\ index \in Nat /\ term \in Nat \cup {-1} /\ m.data \in Applied
      /\ snap \in [index : Nat, term : Term, data : Applied]
  BY MessageFields DEF Term
<1>2. /\ n.log \in LogOf(Payload)
      /\ MaxOf(n.commit_index, index) \in Nat
      /\ MaxOf(n.applied_index, index) \in Nat
  BY <1>1, NodeFields DEF MaxOf
<1>3. a \in NodeState /\ SameConfig(a, n) /\ a.applied_index = n.applied_index
  BY <1>2, SetCommit DEF NodeState
<1>4. InstallSnapshot(n, m) = IF AlreadyHas(n.log, m) THEN a ELSE e
  <2>1. [a EXCEPT !.state_machine = m.data, !.log = l, !.last_snapshot = snap,
                  !.applied_index = MaxOf(@, index)] =
        [a EXCEPT !.state_machine = m.data, !.log = l, !.last_snapshot = snap,
                  !.applied_index = MaxOf(n.applied_index, index)]
    <3> HIDE DEF a, snap, l
    <3> QED  BY <1>3
  <2> QED  BY <2>1 DEF InstallSnapshot
<1>5. l \in LogOf(Payload)
  BY <1>1, <1>2, ResetToType
<1> HIDE DEF index, snap, l, a
<1>6. b \in NodeState /\ SameConfig(b, a)
  BY <1>1, <1>3, SetStateMachine
<1> HIDE DEF b
<1>7. c \in NodeState /\ SameConfig(c, b)
  BY <1>5, <1>6, SetLog
<1> HIDE DEF c
<1>8. d \in NodeState /\ SameConfig(d, c)
  BY <1>1, <1>7, SetSnapshot
<1> HIDE DEF d
<1>9. e \in NodeState /\ SameConfig(e, d)
  BY <1>2, <1>8, SetApplied
<1> HIDE DEF e
<1> QED  BY <1>3, <1>4, <1>6, <1>7, <1>8, <1>9 DEF SameConfig

LEMMA RejectStaleLeaderStep ==
  ASSUME TypeOK, NEW i \in Server, NEW m \in msgs,
         m.type \in {"append", "install_snapshot"},
         RejectStaleLeader(i, m), UNCHANGED <<elected, proposed>>
  PROVE  TypeOK' /\ KeepsConfig /\ Quiet
<1> DEFINE r == AppendReply(i, m, current_term[i], FALSE, 0, 0)
<1>1. Send({r}) /\ UNCHANGED <<electionVars, node>>
  BY DEF RejectStaleLeader
<1>2. r \in Message /\ r.type # "vote_resp"
  BY AppendReplyType DEF TypeOK
<1> HIDE DEF r
<1>3. msgs' \subseteq Message /\ VotesKept
  BY <1>1, <1>2, SendFacts DEF TypeOK
<1>4. KeepsConfig
  BY <1>1, NodeUnchanged DEF TypeOK
<1> QED  BY <1>1, <1>3, <1>4 DEF TypeOK, Quiet, electionVars

\* A server that follows the sender of a message either steps down or goes on
\* as a follower.
LEMMA FollowStep ==
  ASSUME TypeOK, NEW i \in Server, NEW m \in msgs, NEW n \in NodeState,
         m.type \in {"append", "install_snapshot"},
         FollowLeader(i, m), UNCHANGED <<elected, proposed>>,
         Reconfigurable = {} => SameConfig(n, node[i]),
         node' = [node EXCEPT ![i] = n],
         NEW r \in Message, r.type # "vote_resp", Send({r})
  PROVE  TypeOK' /\ KeepsConfig /\ (Quiet \/ SteppedDown(i))
<1>1. m \in Message /\ m.term \in Nat
  BY MessageFields DEF TypeOK
<1>2. ElectionTypeOK'
  BY <1>1, TypeParts, FollowLeaderType
<1>3. msgs' \subseteq Message /\ VotesKept
  BY SendFacts DEF TypeOK
<1>4. node' \in [Server -> NodeState] /\ KeepsConfig
  BY NodeStep DEF TypeOK
<1>5. TypeOK'
  BY <1>2, <1>3, <1>4 DEF TypeOK, ElectionTypeOK
<1>6. \/ StepDown(i, m.term)
      \/ UNCHANGED <<current_term, voted_for, role, pre_candidate>>
  BY DEF FollowLeader
<1>7. UNCHANGED votes
  BY DEF FollowLeader
<1> QED  BY <1>1, <1>3, <1>4, <1>5, <1>6, <1>7 DEF Quiet, SteppedDown

LEMMA OnAppendStep ==
  ASSUME TypeOK, NEW i \in Server, NEW m \in msgs, OnAppend(i, m)
  PROVE  TypeOK' /\ KeepsConfig /\ (Quiet \/ SteppedDown(i))
<1> DEFINE merged == Merge(node[i].log, m.prev_index, m.prev_term, m.entries)
           n == FollowerState(i, node[i], m, merged)
           r == AppendReply(i, m, m.term, merged.ok, merged.match, merged.conflict)
<1>1. m \in Message /\ m.type = "append" /\ UNCHANGED <<elected, proposed>>
  BY DEF TypeOK, OnAppend
<1>2. CASE RejectStaleLeader(i, m)
  BY <1>1, <1>2, RejectStaleLeaderStep
<1>3. CASE FollowLeader(i, m) /\ node' = [node EXCEPT ![i] = n] /\ Send({r})
  <2>1. /\ m.prev_index \in Nat /\ m.prev_term \in Nat \cup {-1}
        /\ m.entries \in Seq(EntryOf(Payload)) /\ m.term \in Nat
    BY <1>1, MessageFields, LogIsLogOf DEF Term
  <2>2. node[i] \in NodeState /\ node[i].log \in LogOf(Payload)
    BY NodeFields DEF TypeOK
  <2>3. merged \in [ok : BOOLEAN, match : Nat, conflict : Nat, log : LogOf(Payload)]
    BY <2>1, <2>2, MergeType
  <2> HIDE DEF merged
  <2>4. n \in NodeState /\ (Reconfigurable = {} => SameConfig(n, node[i]))
    BY <1>1, <2>2, <2>3, FollowerStateType
  <2>5. /\ merged.ok \in BOOLEAN /\ merged.match \in Nat /\ merged.conflict \in Nat
        /\ m.term \in Nat /\ m.type \in {"append", "install_snapshot"}
    BY <1>1, <2>1, <2>3
  <2>6. r \in Message /\ r.type # "vote_resp"
    BY <1>1, <2>5, AppendReplyType, Zenon
  <2> HIDE DEF n, r
  <2> QED  BY <1>1, <1>3, <2>4, <2>6, FollowStep
<1> QED  BY <1>2, <1>3 DEF OnAppend

LEMMA OnInstallSnapshotStep ==
  ASSUME TypeOK, NEW i \in Server, NEW m \in msgs, OnInstallSnapshot(i, m)
  PROVE  TypeOK' /\ KeepsConfig /\ (Quiet \/ SteppedDown(i))
<1> DEFINE n == InstallSnapshot(node[i], m)
           r == AppendReply(i, m, m.term, TRUE, m.last_included_index, 0)
<1>1. m \in Message /\ m.type = "install_snapshot" /\ UNCHANGED <<elected, proposed>>
  BY DEF TypeOK, OnInstallSnapshot
<1>2. CASE RejectStaleLeader(i, m)
  BY <1>1, <1>2, RejectStaleLeaderStep
<1>3. CASE FollowLeader(i, m) /\ node' = [node EXCEPT ![i] = n] /\ Send({r})
  <2>1. m.last_included_index \in Nat /\ m.term \in Nat
    BY <1>1, MessageFields
  <2>2. n \in NodeState /\ SameConfig(n, node[i])
    BY <1>1, InstallSnapshotType DEF TypeOK
  <2>3. r \in Message /\ r.type # "vote_resp"
    BY <1>1, <2>1, AppendReplyType
  <2> HIDE DEF n, r
  <2> QED  BY <1>1, <1>3, <2>2, <2>3, FollowStep
<1> QED  BY <1>2, <1>3 DEF OnInstallSnapshot

LEMMA ProgressUpdateType ==
  ASSUME NEW n \in NodeState, NEW p \in Tracked(n), NEW m \in Message, m.type = "append_resp"
  PROVE  /\ Acknowledged(n, p, m) \in NodeState /\ SameConfig(Acknowledged(n, p, m), n)
         /\ BackedOff(n, p, m) \in NodeState /\ SameConfig(BackedOff(n, p, m), n)
<1>1. /\ p \in Server /\ m.match \in Nat /\ m.conflict \in Nat
      /\ n.match_index \in [Server -> Nat]
      /\ n.next_index \in [Server -> Nat]
      /\ n.next_index[p] # 0
  BY MessageFields, NodeFields DEF Tracked
<1>2. Acknowledged(n, p, m) \in NodeState /\ SameConfig(Acknowledged(n, p, m), n)
  <2> DEFINE match == MaxOf(n.match_index[p], m.match)
             f == [n.match_index EXCEPT ![p] = match]
             a == [n EXCEPT !.match_index = f]
             g == [a.next_index EXCEPT ![p] = match + 1]
             b == [a EXCEPT !.next_index = g]
  <2>1. match \in Nat
    BY <1>1 DEF MaxOf
  <2>2. Acknowledged(n, p, m) = b
    BY DEF Acknowledged
  <2> HIDE DEF match
  <2>3. f \in [Server -> Nat]
    BY <1>1, <2>1
  <2> HIDE DEF f
  <2>4. a \in NodeState /\ SameConfig(a, n)
    BY <2>3, SetMatchIndex
  <2> HIDE DEF a
  <2>5. a.next_index \in [Server -> Nat]
    BY <2>4, NodeFields
  <2>6. g \in [Server -> Nat]
    BY <1>1, <2>1, <2>5
  <2> HIDE DEF g
  <2>7. b \in NodeState /\ SameConfig(b, a)
    BY <2>4, <2>6, SetNextIndex
  <2> HIDE DEF b
  <2> QED  BY <2>2, <2>4, <2>7 DEF SameConfig
<1>3. BackedOff(n, p, m) \in NodeState /\ SameConfig(BackedOff(n, p, m), n)
  <2> DEFINE hint == IF m.conflict # 0 THEN m.conflict ELSE n.next_index[p] - 1
             next == MaxOf(1, MinOf(n.next_index[p] - 1, hint))
             f == [n.next_index EXCEPT ![p] = next]
  <2>1. next \in Nat
    BY <1>1 DEF MaxOf, MinOf
  <2>2. BackedOff(n, p, m) = [n EXCEPT !.next_index = f]
    BY <1>1 DEF BackedOff
  <2> HIDE DEF next
  <2>3. f \in [Server -> Nat]
    BY <1>1, <2>1
  <2> HIDE DEF f
  <2> QED  BY <2>2, <2>3, SetNextIndex
<1> QED  BY <1>2, <1>3

LEMMA OnAppendRespStep ==
  ASSUME TypeOK, NEW i \in Server, NEW m \in msgs, OnAppendResp(i, m)
  PROVE  TypeOK' /\ KeepsConfig /\ (Quiet \/ SteppedDown(i))
<1>1. /\ m \in Message /\ m.type = "append_resp"
      /\ UNCHANGED <<elected, proposed>>
  BY DEF TypeOK, OnAppendResp
<1>2. m.term \in Nat /\ m.from \in Server
  BY <1>1, MessageFields
<1>3. CASE StepDown(i, m.term) /\ UNCHANGED <<leader_id, prevote_term, votes, node, msgs>>
  <2>1. KeepsConfig /\ VotesKept
    BY <1>3, NodeUnchanged, MsgsUnchanged DEF TypeOK
  <2>2. ElectionTypeOK
    BY TypeParts
  <2> QED  BY <1>1, <1>2, <1>3, <2>1, <2>2, StepDownType DEF TypeOK, SteppedDown
<1>4. CASE /\ m.from \in Tracked(node[i])
           /\ node' = [node EXCEPT ![i] =
                         AdvanceCommit(i, Acknowledged(node[i], m.from, m), m.term)]
           /\ UNCHANGED msgs
           /\ UNCHANGED electionVars
  <2> DEFINE a == Acknowledged(node[i], m.from, m)
             n == AdvanceCommit(i, a, m.term)
  <2>1. a \in NodeState /\ SameConfig(a, node[i])
    BY <1>1, <1>4, ProgressUpdateType DEF TypeOK
  <2> HIDE DEF a
  <2>2. n \in NodeState /\ (Reconfigurable = {} => SameConfig(n, a))
    BY <2>1, AdvanceCommitType
  <2>3. node' = [node EXCEPT ![i] = n]
    BY <1>4 DEF a
  <2> HIDE DEF n
  <2>4. Reconfigurable = {} => SameConfig(n, node[i])
    BY <2>1, <2>2 DEF SameConfig
  <2>5. node' \in [Server -> NodeState] /\ KeepsConfig
    BY <2>2, <2>3, <2>4, NodeStep DEF TypeOK
  <2>6. VotesKept
    BY <1>4, MsgsUnchanged DEF TypeOK
  <2> QED  BY <1>1, <1>4, <2>5, <2>6 DEF TypeOK, Quiet, electionVars
<1>5. CASE /\ m.from \in Tracked(node[i])
           /\ node' = [node EXCEPT ![i] = BackedOff(node[i], m.from, m)]
           /\ Send({SendAppend(i, node'[i], m.term, m.from)})
           /\ UNCHANGED electionVars
  <2> DEFINE n == BackedOff(node[i], m.from, m)
             r == SendAppend(i, n, m.term, m.from)
  <2>1. n \in NodeState /\ SameConfig(n, node[i])
    BY <1>1, <1>5, ProgressUpdateType DEF TypeOK
  <2>2. node' = [node EXCEPT ![i] = n]
    BY <1>5
  <2> HIDE DEF n
  <2>3. node' \in [Server -> NodeState] /\ node'[i] = n /\ KeepsConfig
    BY <2>1, <2>2, NodeStep DEF TypeOK
  <2>4. r \in Message /\ r.type # "vote_resp"
    BY <1>2, <2>1, SendAppendType
  <2>5. Send({r})
    BY <1>5, <2>3
  <2> HIDE DEF r
  <2>6. msgs' \subseteq Message /\ VotesKept
    BY <2>4, <2>5, SendFacts DEF TypeOK
  <2> QED  BY <1>1, <1>5, <2>3, <2>6 DEF TypeOK, Quiet, electionVars
<1> QED  BY <1>3, <1>4, <1>5 DEF OnAppendResp

LEMMA RestartStep ==
  ASSUME TypeOK, NEW i \in Server, Restart(i)
  PROVE  TypeOK' /\ KeepsConfig /\ VotesKept
<1> DEFINE fresh == [FreshNode EXCEPT !.log = node[i].log]
           n == RestartedNode(i, node[i])
<1>1. node[i] \in NodeState /\ node[i].log \in LogOf(Payload)
  BY NodeFields DEF TypeOK
<1>2. fresh \in NodeState /\ SameConfig(fresh, FreshNode)
  BY <1>1, FreshNodeType, SetLog
<1>3. n \in NodeState /\ (Reconfigurable = {} => SameConfig(n, FreshNode))
  <2> DEFINE a == [fresh EXCEPT !.commit_index = LastIndex(node[i].log)]
  <2>1. n = IF SimRestart THEN ApplyCommitted(i, a) ELSE fresh
    BY DEF RestartedNode
  <2>2. LastIndex(node[i].log) \in Nat
    BY <1>1, ReadType
  <2> HIDE DEF fresh
  <2>3. a \in NodeState /\ SameConfig(a, fresh)
    BY <1>2, <2>2, SetCommit
  <2> HIDE DEF a
  <2>4. /\ ApplyCommitted(i, a) \in NodeState
        /\ Reconfigurable = {} => SameConfig(ApplyCommitted(i, a), a)
    BY <2>3, ApplyCommittedType
  <2> HIDE DEF n
  <2> QED  BY <1>2, <2>1, <2>3, <2>4 DEF SameConfig
<1>4. node' = [node EXCEPT ![i] = n]
  BY DEF Restart
<1> HIDE DEF n
<1>5. KeepsConfig
  BY <1>3, <1>4, FreshNodeType DEF KeepsConfig, ConfigFixed, SameConfig, TypeOK
<1>6. VotesKept
  BY MsgsUnchanged DEF TypeOK, Restart
<1> QED  BY <1>3, <1>4, <1>5, <1>6 DEF TypeOK, Restart

\* Every step keeps the types, and the configuration where nobody changes it.
LEMMA TypeStep ==
  ASSUME TypeOK, [Next]_vars
  PROVE  TypeOK' /\ KeepsConfig
<1>1. CASE UNCHANGED vars
  BY <1>1 DEF vars, electionVars, TypeOK, KeepsConfig, ConfigFixed
<1>2. CASE Next
  <2> PICK i \in Server : \/ Tick(i)
                          \/ \E m \in msgs : Handle(i, m)
                          \/ Request(i)
                          \/ i \in Restartable /\ Restart(i)
    BY <1>2 DEF Next
  <2>1. CASE Tick(i)
    <3>1. CASE ElectionTimeout(i)
      BY <3>1, StartPreVoteStep, StartElectionType DEF ElectionTimeout
    <3> QED  BY <2>1, <3>1, HeartbeatStep, AbortTransferStep, CheckQuorumStep DEF Tick
  <2>2. CASE \E m \in msgs : Handle(i, m)
    <3> PICK m \in msgs : Handle(i, m)
      BY <2>2
    <3>1. CASE OnTimeoutNow(i, m)
      <4>1. pre_candidate[i] \in BOOLEAN
        BY DEF TypeOK
      <4> QED  BY <3>1, <4>1, StartElectionType DEF OnTimeoutNow
    <3> QED  BY <3>1, OnPrevoteStep, OnPrevoteRespStep, OnVoteType, OnVoteRespStep,
                OnAppendStep, OnAppendRespStep, OnInstallSnapshotStep DEF Handle
  <2>3. CASE Request(i)
    <3>1. ASSUME NEW s \in Reconfigurable,
                 ProposeAddServer(i, s) \/ ProposeRemoveServer(i, s)
          PROVE  TypeOK' /\ KeepsConfig
      <4>1. /\ Reconfigurable # {}
            /\ node[i].config \cup {s} \in SUBSET Server
            /\ node[i].config \ {s} \in SUBSET Server
        BY NodeFields, EnvironmentAssumption DEF TypeOK
      <4> QED  BY <3>1, <4>1, ProposeConfigStep DEF ProposeAddServer, ProposeRemoveServer
    <3> QED  BY <2>3, <3>1, ProposeStep, TransferLeadershipStep, SnapshotStep DEF Request
  <2>4. CASE Restart(i)
    BY <2>4, RestartStep
  <2> QED  BY <2>1, <2>2, <2>3, <2>4
<1> QED  BY <1>1, <1>2

LEMMA TypeInit ==
  ASSUME Init
  PROVE  TypeOK /\ ConfigFixed
BY FreshNodeType DEF Init, TypeOK, ConfigFixed

\* The state of every server and every message has the type of the class,
\* whatever the size of the cluster, the settings and the schedule.
THEOREM TypeInvariant == Spec => []TypeOK
<1>1. Init => TypeOK
  BY TypeInit
<1>2. TypeOK /\ [Next]_vars => TypeOK'
  BY TypeStep
<1> QED  BY <1>1, <1>2, PTL DEF Spec

-----------------------------------------------------------------------------
(***************************************************************************)
(* Election safety.  The code shares one set of votes between the pre-vote *)
(* and the election, so a pre-vote may be counted as a vote: with five     *)
(* servers that elects two leaders in a term.  It cannot when there is no  *)
(* pre-vote, nor with three servers, where a single foreign pre-vote is a  *)
(* majority at once and resets the set.  The configuration is fixed.       *)
(***************************************************************************)
VotesNotMixed == ~UsePreVote \/ Cardinality(Server) <= 3

\* A granted vote is one of a term its sender has reached, and of its present
\* term only if it is the vote it remembers (DurableState.save before _on_vote
\* answers, and _step_down forgets a vote only with a newer term).
BallotPast ==
  \A q, c \in Server, t \in Nat : VoteMsg(q, t, c) \in msgs =>
    t <= current_term[q] /\ (t = current_term[q] => voted_for[q] = c)

\* The same of the vote a leader cast for itself.
LeaderPast ==
  \A e \in elected :
    e[1] <= current_term[e[2]] /\ (e[1] = current_term[e[2]] => voted_for[e[2]] = e[2])

\* Nobody votes twice in a term.
OneBallot ==
  \A q, c, d \in Server, t \in Nat : VoteMsg(q, t, c) \in msgs =>
    /\ VoteMsg(q, t, d) \in msgs => c = d
    /\ <<t, q>> \in elected => c = q

\* What a candidate has counted are votes of its present term.
CandidateVotes ==
  \A i \in Server :
    /\ pre_candidate[i] => UsePreVote /\ i \in votes[i]
    /\ role[i] = Candidate =>
         /\ voted_for[i] = i
         /\ \A v \in votes[i] : v = i \/ VoteMsg(v, current_term[i], i) \in msgs

\* Who was elected had the votes of a majority.
ElectedQuorum ==
  \A e \in elected : \E Q \in SUBSET Server :
    /\ MoreThanHalf(Cardinality(Q), Server)
    /\ \A q \in Q : q = e[2] \/ VoteMsg(q, e[1], e[2]) \in msgs

ElectionInv ==
  BallotPast /\ LeaderPast /\ OneBallot /\ CandidateVotes /\ ElectedQuorum

\* Two majorities share a server, which voted once.
LEMMA ElectionInvSafe ==
  ASSUME TypeOK, ElectionInv
  PROVE  ElectionSafety
<1> SUFFICES ASSUME NEW a \in elected, NEW b \in elected, a[1] = b[1]
             PROVE  a[2] = b[2]
  BY DEF ElectionSafety
<1>1. /\ a[1] \in Nat /\ a[2] \in Server /\ a = <<a[1], a[2]>>
      /\ b[1] \in Nat /\ b[2] \in Server /\ b = <<b[1], b[2]>>
  BY DEF TypeOK
<1>2. PICK Q \in SUBSET Server :
        /\ MoreThanHalf(Cardinality(Q), Server)
        /\ \A q \in Q : q = a[2] \/ VoteMsg(q, a[1], a[2]) \in msgs
  BY DEF ElectionInv, ElectedQuorum
<1>3. PICK R \in SUBSET Server :
        /\ MoreThanHalf(Cardinality(R), Server)
        /\ \A q \in R : q = b[2] \/ VoteMsg(q, b[1], b[2]) \in msgs
  BY DEF ElectionInv, ElectedQuorum
<1>4. PICK q \in Q : q \in R
  <2>1. /\ Cardinality(Q) \in Nat /\ Cardinality(R) \in Nat
        /\ Cardinality(Server) \in Nat
    BY FS_Subset, FS_CardinalityType, ServerAssumption
  <2>2. Cardinality(Q) + Cardinality(R) > Cardinality(Server)
    BY <1>2, <1>3, <2>1 DEF MoreThanHalf
  <2> QED  BY <2>2, FS_MajoritiesIntersect, ServerAssumption
<1>5. q = a[2] \/ VoteMsg(q, a[1], a[2]) \in msgs
  BY <1>2
<1>6. q = b[2] \/ VoteMsg(q, a[1], b[2]) \in msgs
  BY <1>3, <1>4
<1>7. <<a[1], a[2]>> \in elected /\ <<a[1], b[2]>> \in elected
  BY <1>1
<1>8. q \in Server
  BY <1>2
<1>9. CASE q = a[2]
  BY <1>1, <1>6, <1>7, <1>8, <1>9 DEF ElectionInv, OneBallot
<1>10. CASE q = b[2]
  BY <1>1, <1>5, <1>7, <1>8, <1>10 DEF ElectionInv, OneBallot
<1>11. CASE VoteMsg(q, a[1], a[2]) \in msgs /\ VoteMsg(q, a[1], b[2]) \in msgs
  BY <1>1, <1>8, <1>11 DEF ElectionInv, OneBallot
<1> QED  BY <1>5, <1>6, <1>9, <1>10, <1>11

LEMMA QuietElection ==
  ASSUME TypeOK, ElectionInv, Quiet
  PROVE  ElectionInv'
<1> USE DEF Quiet, VotesKept
<1>1. BallotPast'
  BY DEF ElectionInv, BallotPast
<1>2. LeaderPast'
  BY DEF ElectionInv, LeaderPast
<1>3. OneBallot'
  BY DEF ElectionInv, OneBallot
<1>4. CandidateVotes'
  BY DEF ElectionInv, CandidateVotes
<1>5. ElectedQuorum'
  BY DEF ElectionInv, ElectedQuorum
<1> QED  BY <1>1, <1>2, <1>3, <1>4, <1>5 DEF ElectionInv

LEMMA StepDownElection ==
  ASSUME TypeOK, ElectionInv, NEW i \in Server, SteppedDown(i)
  PROVE  ElectionInv'
<1> PICK t \in Nat : StepDown(i, t)
  BY DEF SteppedDown
<1>0. /\ current_term' = [current_term EXCEPT ![i] = MaxOf(current_term[i], t)]
      /\ voted_for' = [voted_for EXCEPT ![i] = IF t > current_term[i] THEN None
                                                ELSE voted_for[i]]
      /\ role' = [role EXCEPT ![i] = Follower]
      /\ pre_candidate' = [pre_candidate EXCEPT ![i] = FALSE]
      /\ UNCHANGED <<votes, elected>>
      /\ VotesKept
  BY DEF SteppedDown, StepDown
<1>1. BallotPast'
  <2>1. \A q \in Server :
          /\ current_term[q] \in Nat /\ current_term'[q] \in Nat
          /\ current_term[q] <= current_term'[q]
          /\ current_term[q] = current_term'[q] => voted_for'[q] = voted_for[q]
    BY <1>0 DEF MaxOf, TypeOK
  <2> SUFFICES ASSUME NEW q \in Server, NEW c \in Server, NEW u \in Nat,
                      VoteMsg(q, u, c) \in msgs
               PROVE  /\ u <= current_term'[q]
                      /\ u = current_term'[q] => voted_for'[q] = c
    BY <1>0 DEF BallotPast, VotesKept
  <2>2. u <= current_term[q] /\ (u = current_term[q] => voted_for[q] = c)
    BY DEF ElectionInv, BallotPast
  <2> QED  BY <2>1, <2>2
<1>2. LeaderPast'
  BY <1>0 DEF ElectionInv, LeaderPast, MaxOf, TypeOK
<1>3. OneBallot'
  BY <1>0 DEF ElectionInv, OneBallot, VotesKept
<1>4. CandidateVotes'
  BY <1>0 DEF ElectionInv, CandidateVotes, VotesKept, TypeOK, Follower, Candidate
<1>5. ElectedQuorum'
  BY <1>0 DEF ElectionInv, ElectedQuorum, VotesKept
<1> QED  BY <1>1, <1>2, <1>3, <1>4, <1>5 DEF ElectionInv

LEMMA StartPreVoteElection ==
  ASSUME TypeOK, ElectionInv, NEW i \in Server, UsePreVote, StartPreVote(i)
  PROVE  ElectionInv'
<1>0. /\ pre_candidate' = [pre_candidate EXCEPT ![i] = TRUE]
      /\ votes' = [votes EXCEPT ![i] = {i}]
      /\ UNCHANGED <<current_term, voted_for, role, elected>>
      /\ VotesKept
  BY StartPreVoteStep DEF StartPreVote
<1>1. BallotPast'
  BY <1>0 DEF ElectionInv, BallotPast, VotesKept
<1>2. LeaderPast'
  BY <1>0 DEF ElectionInv, LeaderPast
<1>3. OneBallot'
  BY <1>0 DEF ElectionInv, OneBallot, VotesKept
<1>4. CandidateVotes'
  BY <1>0 DEF ElectionInv, CandidateVotes, VotesKept, TypeOK
<1>5. ElectedQuorum'
  BY <1>0 DEF ElectionInv, ElectedQuorum, VotesKept
<1> QED  BY <1>1, <1>2, <1>3, <1>4, <1>5 DEF ElectionInv

\* A new term: no vote of it has been sent, and nobody was elected in it.
LEMMA StartElectionElection ==
  ASSUME TypeOK, ConfigFixed, ElectionInv, NEW i \in Server, NEW pre \in BOOLEAN,
         pre => pre_candidate[i], StartElection(i, pre)
  PROVE  ElectionInv'
<1> DEFINE t == current_term[i] + 1
<1>0. /\ current_term' = [current_term EXCEPT ![i] = t]
      /\ voted_for' = [voted_for EXCEPT ![i] = i]
      /\ votes' = [votes EXCEPT ![i] = {i}]
      /\ VotesKept
      /\ t \in Nat /\ t > current_term[i]
  <2>1. VotesKept
    BY StartElectionType DEF VotesKept
  <2>2. t \in Nat /\ t > current_term[i]
    BY DEF TypeOK
  <2> QED  BY <2>1, <2>2 DEF StartElection
<1>1. \/ /\ Peers(i, node[i]) = {}
         /\ role' = [role EXCEPT ![i] = Leader]
         /\ pre_candidate' = [pre_candidate EXCEPT ![i] = FALSE]
         /\ elected' = elected \cup {<<t, i>>}
      \/ /\ role' = [role EXCEPT ![i] = Candidate]
         /\ pre_candidate' = [pre_candidate EXCEPT ![i] = pre]
         /\ elected' = elected
  BY DEF StartElection, BecomeLeader
<1> HIDE DEF t
<1>2. BallotPast'
  BY <1>0 DEF ElectionInv, BallotPast, VotesKept, TypeOK
<1>3. LeaderPast'
  <2> SUFFICES ASSUME NEW e \in elected'
               PROVE  /\ e[1] <= current_term'[e[2]]
                      /\ e[1] = current_term'[e[2]] => voted_for'[e[2]] = e[2]
    BY DEF LeaderPast
  <2>1. CASE e \in elected
    BY <1>0, <2>1 DEF ElectionInv, LeaderPast, TypeOK
  <2>2. CASE e = <<t, i>>
    BY <1>0, <2>2 DEF TypeOK
  <2> QED  BY <1>1, <2>1, <2>2
<1>4. OneBallot'
  <2>1. \A c \in Server : VoteMsg(i, t, c) \notin msgs
    BY <1>0 DEF ElectionInv, BallotPast, TypeOK
  <2>2. \A q \in Server, u \in Nat :
          <<u, q>> \in elected' => <<u, q>> \in elected \/ (u = t /\ q = i)
    BY <1>1
  <2> QED  BY <1>0, <2>1, <2>2 DEF ElectionInv, OneBallot, VotesKept
<1>5. CandidateVotes'
  <2> SUFFICES ASSUME NEW j \in Server
               PROVE  /\ pre_candidate'[j] => UsePreVote /\ j \in votes'[j]
                      /\ role'[j] = Candidate =>
                           /\ voted_for'[j] = j
                           /\ \A v \in votes'[j] :
                                v = j \/ VoteMsg(v, current_term'[j], j) \in msgs'
    BY DEF CandidateVotes
  <2>1. CASE j = i
    <3>1. pre_candidate'[i] => UsePreVote
      BY <1>1 DEF ElectionInv, CandidateVotes, TypeOK
    <3> QED  BY <1>0, <2>1, <3>1 DEF TypeOK
  <2>2. CASE j # i
    <3>1. /\ pre_candidate'[j] = pre_candidate[j]
          /\ role'[j] = role[j]
          /\ votes'[j] = votes[j]
          /\ voted_for'[j] = voted_for[j]
          /\ current_term'[j] = current_term[j]
      BY <1>0, <1>1, <2>2 DEF TypeOK
    <3> QED  BY <1>0, <3>1 DEF ElectionInv, CandidateVotes, VotesKept
  <2> QED  BY <2>1, <2>2
<1>6. ElectedQuorum'
  <2> SUFFICES ASSUME NEW e \in elected'
               PROVE  \E Q \in SUBSET Server :
                        /\ MoreThanHalf(Cardinality(Q), Server)
                        /\ \A q \in Q : q = e[2] \/ VoteMsg(q, e[1], e[2]) \in msgs'
    BY DEF ElectedQuorum
  <2>1. CASE e \in elected
    BY <1>0, <2>1 DEF ElectionInv, ElectedQuorum, VotesKept
  <2>2. CASE e = <<t, i>> /\ Peers(i, node[i]) = {}
    <3>1. Server = {i}
      BY <2>2 DEF ConfigFixed, Peers
    <3>2. MoreThanHalf(Cardinality({i}), Server)
      <4>1. Cardinality({i}) = 1
        BY FS_Singleton
      <4> QED  BY <3>1, <4>1 DEF MoreThanHalf
    <3> QED  BY <2>2, <3>2
  <2> QED  BY <1>1, <2>1, <2>2
<1> QED  BY <1>2, <1>3, <1>4, <1>5, <1>6 DEF ElectionInv

\* The case that needs VotesNotMixed: with at most three servers a foreign
\* pre-vote never stays in the set of a candidate.
LEMMA OnPrevoteRespElection ==
  ASSUME TypeOK, ConfigFixed, ElectionInv, VotesNotMixed,
         NEW i \in Server, NEW m \in msgs, OnPrevoteResp(i, m)
  PROVE  ElectionInv'
<1> DEFINE counted == votes[i] \cup (IF m.granted THEN {m.from} ELSE {})
<1>1. CASE StartElection(i, FALSE)
  BY <1>1, StartElectionElection
<1>2. CASE /\ ~HasMajority(node[i], counted)
           /\ votes' = [votes EXCEPT ![i] = counted]
           /\ UNCHANGED <<current_term, voted_for, role, leader_id, pre_candidate,
                          prevote_term, transfer_target, node, msgs, elected, proposed>>
  <2>1. pre_candidate[i] /\ m.type = "prevote_resp"
    BY DEF OnPrevoteResp
  <2>2. i \in votes[i] /\ Cardinality(Server) <= 3
    BY <2>1 DEF ElectionInv, CandidateVotes, VotesNotMixed
  <2>3. m.from \in Server /\ counted \in SUBSET Server
    BY <2>1, MessageFields DEF TypeOK
  <2>4. counted = votes[i]
    <3> SUFFICES ASSUME m.granted, m.from \notin votes[i]
                 PROVE  FALSE
      OBVIOUS
    <3> DEFINE pair == {i} \cup {m.from}
    <3>1. Cardinality(pair) = 2
      <4>1. IsFiniteSet({i}) /\ Cardinality({i}) = 1
        BY FS_Singleton
      <4>2. m.from \notin {i}
        BY <2>2
      <4>3. Cardinality({i} \cup {m.from}) = Cardinality({i}) + 1
        BY <4>1, <4>2, FS_AddElement, Zenon
      <4> QED  BY <4>1, <4>3
    <3>2. pair \in SUBSET counted
      BY <2>2
    <3>3. IsFiniteSet(counted) /\ Cardinality(counted) \in Nat /\ Cardinality(Server) \in Nat
      BY <2>3, FS_Subset, FS_CardinalityType, ServerAssumption
    <3> HIDE DEF pair, counted
    <3>4. Cardinality(pair) <= Cardinality(counted)
      BY <3>2, <3>3, FS_Subset
    <3>5. MoreThanHalf(Cardinality(counted), Server)
      BY <2>2, <3>1, <3>3, <3>4 DEF MoreThanHalf
    <3> QED  BY <1>2, <3>5 DEF HasMajority, ConfigFixed
  <2>5. Quiet
    <3>1. votes' = votes
      BY <1>2, <2>4 DEF TypeOK
    <3> QED  BY <1>2, <3>1 DEF Quiet, VotesKept
  <2> QED  BY <2>5, QuietElection
<1> QED  BY <1>1, <1>2 DEF OnPrevoteResp

\* A vote is granted to the server voted for before in the term, or to the
\* first one that asks.
LEMMA OnVoteElection ==
  ASSUME TypeOK, ElectionInv, NEW i \in Server, NEW m \in msgs, OnVote(i, m)
  PROVE  ElectionInv'
<1>1. /\ m \in Message /\ m.type = "vote"
      /\ m.candidate \in Server /\ m.term \in Nat
      /\ elected' = elected
  BY MessageFields DEF TypeOK, OnVote
<1>2. CASE /\ Send({VoteReply(i, m, current_term[i], FALSE)})
           /\ UNCHANGED electionVars
  <2>1. VotesKept
    BY <1>2 DEF Send, VotesKept, VoteReply, VoteMsg
  <2> QED  BY <1>1, <1>2, <2>1, QuietElection DEF Quiet, electionVars
<1>3. ASSUME NEW granted \in BOOLEAN, m.term >= current_term[i],
             current_term' = [current_term EXCEPT ![i] = m.term],
             \/ /\ m.term = current_term[i]
                /\ granted => voted_for[i] \in {None, m.candidate}
                /\ voted_for' = [voted_for EXCEPT ![i] =
                                   IF granted THEN m.candidate ELSE voted_for[i]]
                /\ UNCHANGED <<role, pre_candidate>>
             \/ /\ m.term > current_term[i]
                /\ voted_for' = [voted_for EXCEPT ![i] =
                                   IF granted THEN m.candidate ELSE None]
                /\ role' = [role EXCEPT ![i] = Follower]
                /\ pre_candidate' = [pre_candidate EXCEPT ![i] = FALSE],
             votes' = votes, Send({VoteReply(i, m, m.term, granted)})
      PROVE  ElectionInv'
  <2>1. \A q \in Server :
          /\ current_term[q] \in Nat /\ current_term'[q] \in Nat
          /\ current_term[q] <= current_term'[q]
          /\ (current_term[q] = current_term'[q] /\ voted_for[q] # None) =>
               voted_for'[q] = voted_for[q]
    BY <1>1, <1>3 DEF TypeOK
  <2>2. \A q, c \in Server, u \in Nat : VoteMsg(q, u, c) \in msgs' =>
          \/ VoteMsg(q, u, c) \in msgs
          \/ granted /\ q = i /\ u = m.term /\ c = m.candidate
    BY <1>3 DEF Send, VoteReply, VoteMsg
  <2>3. \A q, u, c : VoteMsg(q, u, c) \in msgs => VoteMsg(q, u, c) \in msgs'
    BY <1>3 DEF Send
  <2>4. granted => current_term'[i] = m.term /\ voted_for'[i] = m.candidate
    BY <1>3 DEF TypeOK
  <2>5. None \notin Server
    BY ServerAssumption
  <2>6. BallotPast'
    <3> SUFFICES ASSUME NEW q \in Server, NEW c \in Server, NEW u \in Nat,
                        VoteMsg(q, u, c) \in msgs'
                 PROVE  /\ u <= current_term'[q]
                        /\ u = current_term'[q] => voted_for'[q] = c
      BY DEF BallotPast
    <3>1. CASE VoteMsg(q, u, c) \in msgs
      <4>1. u <= current_term[q] /\ (u = current_term[q] => voted_for[q] = c)
        BY <3>1 DEF ElectionInv, BallotPast
      <4> QED  BY <2>1, <2>5, <4>1
    <3>2. CASE granted /\ q = i /\ u = m.term /\ c = m.candidate
      BY <1>1, <2>4, <3>2
    <3> QED  BY <2>2, <3>1, <3>2
  <2>7. LeaderPast'
    <3> SUFFICES ASSUME NEW e \in elected
                 PROVE  /\ e[1] <= current_term'[e[2]]
                        /\ e[1] = current_term'[e[2]] => voted_for'[e[2]] = e[2]
      BY <1>1 DEF LeaderPast
    <3>1. e[1] \in Nat /\ e[2] \in Server
      BY DEF TypeOK
    <3>2. /\ e[1] <= current_term[e[2]]
          /\ e[1] = current_term[e[2]] => voted_for[e[2]] = e[2]
      BY DEF ElectionInv, LeaderPast
    <3> QED  BY <2>1, <2>5, <3>1, <3>2
  <2>8. OneBallot'
    \* A vote of the same term and server as the one being cast is for the same.
    <3>1. ASSUME granted, NEW c \in Server, VoteMsg(i, m.term, c) \in msgs
          PROVE  c = m.candidate
      <4>1. m.term <= current_term[i] /\ (m.term = current_term[i] => voted_for[i] = c)
        BY <1>1, <3>1 DEF ElectionInv, BallotPast
      <4>2. m.term = current_term[i]
        BY <1>1, <1>3, <2>1, <4>1
      <4> QED  BY <1>3, <2>1, <2>5, <3>1, <4>1, <4>2
    <3>2. ASSUME granted, <<m.term, i>> \in elected
          PROVE  m.candidate = i
      <4>1. m.term <= current_term[i] /\ (m.term = current_term[i] => voted_for[i] = i)
        BY <3>2 DEF ElectionInv, LeaderPast
      <4>2. m.term = current_term[i]
        BY <1>1, <1>3, <2>1, <4>1
      <4> QED  BY <1>3, <2>1, <2>5, <3>2, <4>1, <4>2
    <3> SUFFICES ASSUME NEW q \in Server, NEW c \in Server, NEW d \in Server, NEW u \in Nat,
                        VoteMsg(q, u, c) \in msgs'
                 PROVE  /\ VoteMsg(q, u, d) \in msgs' => c = d
                        /\ <<u, q>> \in elected => c = q
      BY <1>1 DEF OneBallot
    <3>3. CASE VoteMsg(q, u, c) \in msgs
      <4>1. <<u, q>> \in elected => c = q
        BY <3>3 DEF ElectionInv, OneBallot
      <4>2. VoteMsg(q, u, d) \in msgs => c = d
        BY <3>3 DEF ElectionInv, OneBallot
      <4> QED  BY <2>2, <3>1, <3>3, <4>1, <4>2
    <3>4. CASE granted /\ q = i /\ u = m.term /\ c = m.candidate
      BY <2>2, <3>1, <3>2, <3>4
    <3> QED  BY <2>2, <3>3, <3>4
  <2>9. CandidateVotes'
    <3> SUFFICES ASSUME NEW j \in Server
                 PROVE  /\ pre_candidate'[j] => UsePreVote /\ j \in votes[j]
                        /\ role'[j] = Candidate =>
                             /\ voted_for'[j] = j
                             /\ \A v \in votes[j] :
                                  v = j \/ VoteMsg(v, current_term'[j], j) \in msgs'
      BY <1>3 DEF CandidateVotes
    <3>1. pre_candidate'[j] => pre_candidate[j]
      BY <1>3 DEF TypeOK
    <3>2. role'[j] = Candidate => role[j] = Candidate /\ current_term'[j] = current_term[j]
      BY <1>3 DEF TypeOK, Follower, Candidate
    <3>3. role[j] = Candidate => voted_for[j] = j
      BY DEF ElectionInv, CandidateVotes
    <3>4. role'[j] = Candidate => voted_for'[j] = j
      BY <2>1, <2>5, <3>2, <3>3
    <3> QED  BY <2>3, <3>1, <3>2, <3>4 DEF ElectionInv, CandidateVotes
  <2>10. ElectedQuorum'
    BY <1>1, <2>3 DEF ElectionInv, ElectedQuorum
  <2> QED  BY <2>6, <2>7, <2>8, <2>9, <2>10 DEF ElectionInv
<1>4. CASE /\ m.term = current_term[i]
           /\ voted_for' = [voted_for EXCEPT ![i] =
                              IF GrantsVote(i, m, voted_for[i]) THEN m.candidate ELSE @]
           /\ Send({VoteReply(i, m, m.term, GrantsVote(i, m, voted_for[i]))})
           /\ UNCHANGED <<current_term, role, leader_id, pre_candidate, prevote_term,
                          votes, transfer_target>>
  <2>1. GrantsVote(i, m, voted_for[i]) \in BOOLEAN
    BY DEF GrantsVote
  <2>2. GrantsVote(i, m, voted_for[i]) => voted_for[i] \in {None, m.candidate}
    BY DEF GrantsVote
  <2>3. current_term' = [current_term EXCEPT ![i] = m.term] /\ m.term >= current_term[i]
    BY <1>4 DEF TypeOK
  <2> QED  BY <1>3, <1>4, <2>1, <2>2, <2>3
<1>5. CASE /\ m.term > current_term[i]
           /\ current_term' = [current_term EXCEPT ![i] = m.term]
           /\ voted_for' = [voted_for EXCEPT ![i] =
                              IF GrantsVote(i, m, None) THEN m.candidate ELSE None]
           /\ role' = [role EXCEPT ![i] = Follower]
           /\ pre_candidate' = [pre_candidate EXCEPT ![i] = FALSE]
           /\ Send({VoteReply(i, m, m.term, GrantsVote(i, m, None))})
           /\ votes' = votes
  <2>1. GrantsVote(i, m, None) \in BOOLEAN
    BY DEF GrantsVote
  <2>2. m.term >= current_term[i]
    BY <1>1, <1>5 DEF TypeOK
  <2> QED  BY <1>3, <1>5, <2>1, <2>2
<1> QED  BY <1>2, <1>4, <1>5 DEF OnVote

\* A candidate with a majority of the votes of its term becomes its leader.
LEMMA OnVoteRespElection ==
  ASSUME TypeOK, ConfigFixed, ElectionInv,
         NEW i \in Server, NEW m \in msgs, m.dest = i, OnVoteResp(i, m)
  PROVE  ElectionInv'
<1> DEFINE t == current_term[i]
           counted == votes[i] \cup {m.from}
<1>1. /\ m.type = "vote_resp" /\ m.granted /\ m.term = t
      /\ role[i] = Candidate
      /\ votes' = [votes EXCEPT ![i] = counted]
      /\ UNCHANGED <<current_term, voted_for>>
  BY DEF OnVoteResp
<1>2. VotesKept
  BY OnVoteRespStep
<1>3. /\ t \in Nat /\ m \in Message /\ m.from \in Server
      /\ counted \in SUBSET Server
  BY <1>1, MessageFields DEF TypeOK
<1>4. VoteMsg(m.from, t, i) \in msgs
  BY <1>1, <1>3, VoteMsgIs
<1>5. voted_for[i] = i /\ \A v \in counted : v = i \/ VoteMsg(v, t, i) \in msgs
  BY <1>1, <1>4 DEF ElectionInv, CandidateVotes
<1>6. \/ /\ HasMajority(node[i], counted)
         /\ role' = [role EXCEPT ![i] = Leader]
         /\ pre_candidate' = [pre_candidate EXCEPT ![i] = FALSE]
         /\ elected' = elected \cup {<<t, i>>}
      \/ UNCHANGED <<role, pre_candidate, elected>>
  BY DEF OnVoteResp, BecomeLeader
<1> HIDE DEF t, counted
<1>7. t = current_term[i]
  BY DEF t
<1>8. BallotPast'
  BY <1>1, <1>2 DEF ElectionInv, BallotPast, VotesKept
<1>9. LeaderPast'
  <2> SUFFICES ASSUME NEW e \in elected'
               PROVE  /\ e[1] <= current_term[e[2]]
                      /\ e[1] = current_term[e[2]] => voted_for[e[2]] = e[2]
    BY <1>1 DEF LeaderPast
  <2>1. CASE e \in elected
    BY <2>1 DEF ElectionInv, LeaderPast
  <2>2. CASE e = <<t, i>>
    BY <1>3, <1>5, <1>7, <2>2
  <2> QED  BY <1>6, <2>1, <2>2
<1>10. OneBallot'
  <2>1. \A c \in Server : VoteMsg(i, t, c) \in msgs => c = i
    BY <1>3, <1>5, <1>7 DEF ElectionInv, BallotPast
  <2>2. \A q \in Server, u \in Nat :
          <<u, q>> \in elected' => <<u, q>> \in elected \/ (u = t /\ q = i)
    BY <1>6
  <2> QED  BY <1>2, <2>1, <2>2 DEF ElectionInv, OneBallot, VotesKept
<1>11. CandidateVotes'
  <2> SUFFICES ASSUME NEW j \in Server
               PROVE  /\ pre_candidate'[j] => UsePreVote /\ j \in votes'[j]
                      /\ role'[j] = Candidate =>
                           /\ voted_for[j] = j
                           /\ \A v \in votes'[j] :
                                v = j \/ VoteMsg(v, current_term[j], j) \in msgs
    BY <1>1, <1>2 DEF CandidateVotes, VotesKept
  <2>1. pre_candidate'[j] => pre_candidate[j]
    BY <1>6 DEF TypeOK
  <2>2. role'[j] = Candidate => role[j] = Candidate
    BY <1>6 DEF TypeOK, Leader, Candidate
  <2>3. CASE j = i
    <3>1. votes'[i] = counted /\ votes[i] \subseteq counted
      BY <1>1 DEF TypeOK, counted
    <3> QED  BY <1>5, <1>7, <2>1, <2>3, <3>1 DEF ElectionInv, CandidateVotes
  <2>4. CASE j # i
    <3>1. votes'[j] = votes[j]
      BY <1>1, <2>4 DEF TypeOK
    <3> QED  BY <2>1, <2>2, <3>1 DEF ElectionInv, CandidateVotes
  <2> QED  BY <2>3, <2>4
<1>12. ElectedQuorum'
  <2> SUFFICES ASSUME NEW e \in elected'
               PROVE  \E Q \in SUBSET Server :
                        /\ MoreThanHalf(Cardinality(Q), Server)
                        /\ \A q \in Q : q = e[2] \/ VoteMsg(q, e[1], e[2]) \in msgs
    BY <1>2 DEF ElectedQuorum, VotesKept
  <2>1. CASE e \in elected
    BY <2>1 DEF ElectionInv, ElectedQuorum
  <2>2. CASE HasMajority(node[i], counted) /\ e = <<t, i>>
    <3>1. MoreThanHalf(Cardinality(counted), Server)
      BY <2>2 DEF HasMajority, ConfigFixed
    <3> QED  BY <1>3, <1>5, <2>2, <3>1
  <2> QED  BY <1>6, <2>1, <2>2
<1> QED  BY <1>8, <1>9, <1>10, <1>11, <1>12 DEF ElectionInv

\* The term and the vote survive a restart, the candidacy does not.
LEMMA RestartElection ==
  ASSUME TypeOK, ElectionInv, NEW i \in Server, Restart(i)
  PROVE  ElectionInv'
<1>0. /\ role' = [role EXCEPT ![i] = Follower]
      /\ pre_candidate' = [pre_candidate EXCEPT ![i] = FALSE]
      /\ votes' = [votes EXCEPT ![i] = {}]
      /\ UNCHANGED <<current_term, voted_for, elected>>
      /\ VotesKept
  BY RestartStep DEF Restart
<1>1. BallotPast'
  BY <1>0 DEF ElectionInv, BallotPast, VotesKept
<1>2. LeaderPast'
  BY <1>0 DEF ElectionInv, LeaderPast
<1>3. OneBallot'
  BY <1>0 DEF ElectionInv, OneBallot, VotesKept
<1>4. CandidateVotes'
  BY <1>0 DEF ElectionInv, CandidateVotes, VotesKept, TypeOK, Follower, Candidate
<1>5. ElectedQuorum'
  BY <1>0 DEF ElectionInv, ElectedQuorum, VotesKept
<1> QED  BY <1>1, <1>2, <1>3, <1>4, <1>5 DEF ElectionInv

LEMMA ElectionStep ==
  ASSUME TypeOK, ConfigFixed, ElectionInv, Reconfigurable = {}, VotesNotMixed, [Next]_vars
  PROVE  ElectionInv'
<1>1. CASE UNCHANGED vars
  BY <1>1, QuietElection DEF vars, electionVars, Quiet, VotesKept
<1>2. CASE Next
  <2> PICK i \in Server : \/ Tick(i)
                          \/ \E m \in msgs : Handle(i, m)
                          \/ Request(i)
                          \/ i \in Restartable /\ Restart(i)
    BY <1>2 DEF Next
  <2>1. CASE Tick(i)
    <3>1. CASE ElectionTimeout(i)
      <4>1. CASE UsePreVote /\ StartPreVote(i)
        BY <4>1, StartPreVoteElection
      <4>2. CASE StartElection(i, FALSE)
        BY <4>2, StartElectionElection
      <4> QED  BY <3>1, <4>1, <4>2 DEF ElectionTimeout
    <3>2. CASE Heartbeat(i) \/ AbortTransfer(i)
      BY <3>2, HeartbeatStep, AbortTransferStep, QuietElection
    <3>3. CASE CheckQuorum(i)
      BY <3>3, CheckQuorumStep, StepDownElection
    <3> QED  BY <2>1, <3>1, <3>2, <3>3 DEF Tick
  <2>2. CASE \E m \in msgs : Handle(i, m)
    <3> PICK m \in msgs : Handle(i, m)
      BY <2>2
    <3>1. CASE OnPrevote(i, m)
      BY <3>1, OnPrevoteStep, QuietElection
    <3>2. CASE OnPrevoteResp(i, m)
      BY <3>2, OnPrevoteRespElection
    <3>3. CASE OnVote(i, m)
      BY <3>3, OnVoteElection
    <3>4. CASE OnVoteResp(i, m)
      BY <3>4, OnVoteRespElection DEF Handle
    <3>5. CASE OnAppend(i, m) \/ OnAppendResp(i, m) \/ OnInstallSnapshot(i, m)
      <4>1. Quiet \/ SteppedDown(i)
        BY <3>5, OnAppendStep, OnAppendRespStep, OnInstallSnapshotStep
      <4> QED  BY <4>1, QuietElection, StepDownElection
    <3>6. CASE OnTimeoutNow(i, m)
      <4>1. pre_candidate[i] \in BOOLEAN
        BY DEF TypeOK
      <4> QED  BY <3>6, <4>1, StartElectionElection DEF OnTimeoutNow
    <3> QED  BY <3>1, <3>2, <3>3, <3>4, <3>5, <3>6 DEF Handle
  <2>3. CASE Request(i)
    <3>1. Quiet
      BY <2>3, ProposeStep, TransferLeadershipStep, SnapshotStep DEF Request
    <3> QED  BY <3>1, QuietElection
  <2>4. CASE Restart(i)
    BY <2>4, RestartElection
  <2> QED  BY <2>1, <2>2, <2>3, <2>4
<1> QED  BY <1>1, <1>2

LEMMA ElectionInit ==
  ASSUME Init
  PROVE  ElectionInv
BY DEF Init, ElectionInv, BallotPast, LeaderPast, OneBallot, CandidateVotes, ElectedQuorum,
       Follower, Candidate

\* At most one leader per term, for every cluster and every schedule of
\* messages, timeouts and restarts, while nobody changes the configuration and
\* pre-votes cannot be counted as votes.
THEOREM ElectionSafetyHolds ==
  ASSUME Reconfigurable = {}, VotesNotMixed
  PROVE  Spec => []ElectionSafety
<1> DEFINE Inv == TypeOK /\ ConfigFixed /\ ElectionInv
<1>1. Init => Inv
  BY TypeInit, ElectionInit
<1>2. Inv /\ [Next]_vars => Inv'
  BY TypeStep, ElectionStep DEF KeepsConfig
<1>3. Inv => ElectionSafety
  BY ElectionInvSafe
<1> HIDE DEF Inv
<1> QED  BY <1>1, <1>2, <1>3, PTL DEF Spec

=============================================================================
