-------------------------------- MODULE Raft --------------------------------
(***************************************************************************)
(* The Raft node of pylog (class RaftNode of pylog/raft.py) and the        *)
(* clusters that drive it: the simulator (pylog/sim.py) and the TCP server *)
(* (pylog/server.py).  Variables and record fields keep the names of the   *)
(* attributes and message keys they model.                                 *)
(*                                                                         *)
(* Every handler is one atomic action: the simulator runs one event at a   *)
(* time.  msgs holds every message ever sent and any of them may be        *)
(* handled at any time, so that messages are lost (never handled), delayed *)
(* and reordered (the simulator draws a latency per message, drops across  *)
(* a partition) and duplicated (TcpTransport.send repeats a call whose     *)
(* answer was lost).  A crash is a server that takes no step.              *)
(*                                                                         *)
(* Clocks are abstracted away: a timer may fire whenever the role lets it, *)
(* and a comparison with the clock has either outcome.                     *)
(***************************************************************************)
EXTENDS RaftLog, FiniteSets

CONSTANTS
  Server,              \* the cluster, SimCluster.node_ids
  Value,               \* client commands; each is proposed at most once
  None,                \* Python's None
  UsePreVote,          \* use_prevote
  MaxBatch,            \* max_entries_per_append
  SimRestart,          \* TRUE: restart of sim.py, FALSE: of server.py
  AutoSnapshotEvery,   \* auto_snapshot_every, 0 when it is off
  \* What the environment does: the servers whose election timer may fire,
  \* that may be cut off for the whole window of the quorum check, that may
  \* restart, that may be asked for a snapshot, that may be added or removed,
  \* and that leadership may be transferred to; the pairs {a, b} of servers
  \* that SimCluster.partition has cut.
  Partitioned, Timers, Isolatable, Restartable, Snapshotters, Reconfigurable, Targets,
  MaxTerm,             \* bound on the term of an election
  MaxLog               \* bound on the log of a leader that takes a proposal

ASSUME ServerAssumption == IsFiniteSet(Server) /\ Server # {} /\ None \notin Server
ASSUME BoundAssumption == MaxTerm \in Nat /\ MaxLog \in Nat
ASSUME SettingAssumption ==
  /\ UsePreVote \in BOOLEAN
  /\ SimRestart \in BOOLEAN
  /\ MaxBatch \in Nat \ {0}
  /\ AutoSnapshotEvery \in Nat
ASSUME EnvironmentAssumption ==
  /\ Partitioned \subseteq SUBSET Server
  /\ Timers \subseteq Server
  /\ Isolatable \subseteq Server
  /\ Restartable \subseteq Server
  /\ Snapshotters \subseteq Server
  /\ Reconfigurable \subseteq Server
  /\ Targets \subseteq Server

VARIABLES
  current_term, voted_for,   \* the DurableState, saved before it is used
  role, leader_id,
  pre_candidate, prevote_term,
  votes,                     \* shared by the pre-vote and the real election
  transfer_target,
  node,                      \* log, commit state and configuration: NodeState
  msgs,
  elected,                   \* history: every <<term, leader>> of an election
  proposed                   \* the commands that clients have proposed

electionVars == <<current_term, voted_for, role, leader_id, pre_candidate,
                  prevote_term, votes, transfer_target>>
vars == <<electionVars, node, msgs, elected, proposed>>

-----------------------------------------------------------------------------
(* State *)

Follower == "follower"
Candidate == "candidate"
Leader == "leader"

Noop == [kind |-> "noop"]
Command(v) == [kind |-> "cmd", value |-> v]
ConfigChange(servers) == [kind |-> "cfg", servers |-> servers]

Payload ==
  {Noop} \cup {Command(v) : v \in Value}
    \cup (IF Reconfigurable = {} THEN {}
          ELSE {ConfigChange(servers) : servers \in SUBSET Server})

Term == Nat \cup {-1}
Entry == [index : Nat, term : Nat, payload : Payload]
Log == [entries : Seq(Entry), first_index : Nat \ {0},
        snapshot_last_index : Nat, snapshot_last_term : Term]

\* The KVStore, as the commands it has applied and the index of each.
Applied == SUBSET (Nat \X Value)
NoSnapshot == [index |-> 0, term |-> 0, data |-> {}]

\* next_index is 0 for a peer that has no key in the dictionaries; old_config
\* is {} outside a joint configuration.
NodeState ==
  [log : Log, commit_index : Nat, applied_index : Nat, state_machine : Applied,
   last_snapshot : [index : Nat, term : Term, data : Applied],
   config : SUBSET Server, old_config : SUBSET Server,
   next_index : [Server -> Nat], match_index : [Server -> Nat]]

FreshNode ==
  [log |-> EmptyLog, commit_index |-> 0, applied_index |-> 0, state_machine |-> {},
   last_snapshot |-> NoSnapshot, config |-> Server, old_config |-> {},
   next_index |-> [p \in Server |-> 0], match_index |-> [p \in Server |-> 0]]

Message ==
       [type : {"prevote", "vote"}, dest : Server, term : Nat, candidate : Server,
        last_index : Nat, last_term : Term]
  \cup [type : {"prevote_resp", "vote_resp"}, dest : Server, term : Nat, from : Server,
        granted : BOOLEAN]
  \cup [type : {"append"}, dest : Server, term : Nat, leader : Server, prev_index : Nat,
        prev_term : Term, entries : Seq(Entry), commit : Nat]
  \cup [type : {"append_resp"}, dest : Server, term : Nat, from : Server,
        success : BOOLEAN, match : Nat, conflict : Nat]
  \cup [type : {"timeout_now"}, dest : Server, term : Nat]
  \cup [type : {"install_snapshot"}, dest : Server, term : Nat, leader : Server,
        last_included_index : Nat, last_included_term : Term, data : Applied]

-----------------------------------------------------------------------------
(* Helpers of RaftNode: functions of the node's own state n *)

Peers(i, n) == n.config \ {i}
Tracked(n) == {p \in Server : n.next_index[p] # 0}
MoreThanHalf(k, S) == 2 * k > Cardinality(S)

\* Outside a joint configuration votes of servers that are no members count.
HasMajority(n, voters) ==
  IF n.old_config # {}
  THEN /\ MoreThanHalf(Cardinality(voters \cap n.old_config), n.old_config)
       /\ MoreThanHalf(Cardinality(voters \cap n.config), n.config)
  ELSE MoreThanHalf(Cardinality(voters), n.config)

\* <<last term, last index>> for the freshness check of votes.
Progress(log) ==
  IF LastIndex(log) = 0 /\ log.snapshot_last_index > 0
  THEN <<log.snapshot_last_term, log.snapshot_last_index>>
  ELSE <<LastTerm(log), LastIndex(log)>>

\* Mutant of UpToDate: no freshness check.
BugAnyLogUpToDate(m, log) == TRUE

UpToDate(m, log) ==
  \/ m.last_term > Progress(log)[1]
  \/ m.last_term = Progress(log)[1] /\ m.last_index >= Progress(log)[2]

\* The servers of S, the leader i among them, that have the entry.
Replicas(i, n, index, S) ==
  {p \in S : p = i \/ (p \in Tracked(n) /\ n.match_index[p] >= index)}

\* Mutant of HasCommitQuorum: half of the servers, the leader apart, are enough.
BugCommitQuorumOffByOne(i, n, index) ==
  2 * Cardinality(Replicas(i, n, index, n.config)) + 1 >= Cardinality(n.config)

\* The leader counts itself in config even when it is not a member of it.
HasCommitQuorum(i, n, index) ==
  /\ n.old_config # {} =>
       MoreThanHalf(Cardinality(Replicas(i, n, index, n.old_config)), n.old_config)
  /\ MoreThanHalf(Cardinality(Replicas(i, n, index, n.config \cup {i})), n.config)

\* Mutant of TakeSnapshot: the snapshot claims one entry too many.
BugSnapshotAhead(n) ==
  [n EXCEPT !.last_snapshot = [index |-> n.applied_index + 1,
                               term |-> MaxOf(0, TermAt(n.log, n.applied_index)),
                               data |-> n.state_machine]]

TakeSnapshot(n) ==
  LET index == n.applied_index
      term == IF TermAt(n.log, index) < 0 /\ n.log.snapshot_last_index = index
              THEN n.log.snapshot_last_term
              ELSE TermAt(n.log, index)
  IN  IF index = 0 THEN n
      ELSE [n EXCEPT
              !.last_snapshot = [index |-> index, term |-> term, data |-> n.state_machine],
              !.log = Compact(n.log, index, term)]

\* The entries that _apply_committed reaches: up to the commit index, as long
\* as the array holds the next one.
ApplyUpTo(n) ==
  IF n.applied_index < n.commit_index /\ Present(n.log, n.applied_index + 1)
  THEN MinOf(n.commit_index, LastPosition(n.log))
  ELSE n.applied_index

ToApply(n, kind) ==
  {k \in (n.applied_index + 1)..ApplyUpTo(n) : Get(n.log, k).payload.kind = kind}

\* Mutant of ApplyConfigs: only a server that has been leader changes.
BugLeaderConfigOnly(i, n) ==
  LET cfgs == ToApply(n, "cfg")
  IN  IF cfgs = {} \/ Tracked(n) = {} THEN n
      ELSE [n EXCEPT !.config = Get(n.log, Greatest(cfgs, 0)).payload.servers, !.old_config = {}]

\* Configuration entries take effect here and only here: the last one is the
\* configuration, a peer that any of them leaves out loses its progress.
ApplyConfigs(i, n) ==
  LET cfgs == ToApply(n, "cfg")
      servers(k) == Get(n.log, k).payload.servers
      config == servers(Greatest(cfgs, 0))
      keeps(p) == p \in Tracked(n) /\ \A k \in cfgs : p \in servers(k)
  IN  IF cfgs = {} THEN n
      ELSE [n EXCEPT
              !.config = config,
              !.old_config = {},
              !.next_index = [p \in Server |->
                 IF p \notin config \ {i} THEN 0
                 ELSE IF keeps(p) THEN n.next_index[p] ELSE LastIndex(n.log) + 1],
              !.match_index = [p \in Server |->
                 IF p \in config \ {i} /\ keeps(p) THEN n.match_index[p] ELSE 0]]

ApplyEntries(i, n) ==
  [ApplyConfigs(i, n) EXCEPT
     !.state_machine = @ \cup {<<k, Get(n.log, k).payload.value>> : k \in ToApply(n, "cmd")},
     !.applied_index = ApplyUpTo(n)]

ApplyCommitted(i, n) ==
  LET done == ApplyEntries(i, n)
      due == done.applied_index >= done.last_snapshot.index + AutoSnapshotEvery
  IN  IF AutoSnapshotEvery > 0 /\ due THEN TakeSnapshot(done) ELSE done

\* Only an entry of the leader's own term commits by counting replicas.
Committable(i, n, t) ==
  {k \in (n.commit_index + 1)..LastIndex(n.log) :
     TermAt(n.log, k) = t /\ HasCommitQuorum(i, n, k)}

AdvanceCommit(i, n, t) ==
  LET index == Greatest(Committable(i, n, t), 0)
  IN  IF index = 0 THEN n ELSE ApplyCommitted(i, [n EXCEPT !.commit_index = index])

\* append_entry and _advance_commit of a leader of term t.
ProposeEntry(i, n, t, payload) ==
  AdvanceCommit(i, [n EXCEPT !.log = AppendEntry(n.log, t, payload)], t)

\* _send_append: a peer whose next entry is compacted away gets the snapshot.
InstallMsg(i, n, t, p) ==
  LET snap == IF n.last_snapshot.index # 0 THEN n.last_snapshot
              ELSE [index |-> n.log.snapshot_last_index,
                    term |-> n.log.snapshot_last_term, data |-> {}]
  IN  [type |-> "install_snapshot", dest |-> p, term |-> t, leader |-> i,
       last_included_index |-> snap.index, last_included_term |-> snap.term,
       data |-> snap.data]

SendAppend(i, n, t, p) ==
  LET next == IF p \in Tracked(n) THEN n.next_index[p] ELSE LastIndex(n.log) + 1
  IN  IF next < n.log.first_index THEN InstallMsg(i, n, t, p)
      ELSE [type |-> "append", dest |-> p, term |-> t, leader |-> i,
            prev_index |-> next - 1, prev_term |-> TermAt(n.log, next - 1),
            entries |-> EntriesFrom(n.log, next, MaxBatch), commit |-> n.commit_index]

SendAllAppends(i, n, t) == {SendAppend(i, n, t, p) : p \in Peers(i, n)}

-----------------------------------------------------------------------------

Init ==
  /\ current_term = [i \in Server |-> 0]
  /\ voted_for = [i \in Server |-> None]
  /\ role = [i \in Server |-> Follower]
  /\ leader_id = [i \in Server |-> None]
  /\ pre_candidate = [i \in Server |-> FALSE]
  /\ prevote_term = [i \in Server |-> 0]
  /\ votes = [i \in Server |-> {}]
  /\ transfer_target = [i \in Server |-> None]
  /\ node = [i \in Server |-> FreshNode]
  /\ msgs = {}
  /\ elected = {}
  /\ proposed = {}

-----------------------------------------------------------------------------

\* The network takes a set of messages.  A refusal that no handler reacts to is
\* lost at once: _on_vote_resp ignores a vote that was not granted, and a
\* refused pre-vote only moves a deadline unless the configuration shrank
\* while the pre-vote was under way.
Ignored(m) ==
  \/ m.type = "vote_resp" /\ ~m.granted
  \/ m.type = "prevote_resp" /\ ~m.granted /\ Reconfigurable = {}

\* The simulator drops what crosses a partition; timeout_now names no sender.
Sender(m) ==
  CASE m.type \in {"prevote", "vote"} -> m.candidate
    [] m.type \in {"append", "install_snapshot"} -> m.leader
    [] m.type \in {"prevote_resp", "vote_resp", "append_resp"} -> m.from
    [] OTHER -> None

Send(M) ==
  msgs' = msgs \cup {m \in M : ~Ignored(m) /\ {Sender(m), m.dest} \notin Partitioned}

-----------------------------------------------------------------------------
(* Elections *)

\* A request for (pre-)votes to every peer.
VoteRequests(i, type, t) ==
  {[type |-> type, dest |-> p, term |-> t, candidate |-> i,
    last_term |-> Progress(node[i].log)[1], last_index |-> Progress(node[i].log)[2]] :
      p \in Peers(i, node[i])}

\* _become_leader in term t, with the no-op it proposes.
LeaderState(i, n, t) ==
  ProposeEntry(i,
    [n EXCEPT
       !.next_index = [p \in Server |->
                         IF p \in Peers(i, n) THEN LastIndex(n.log) + 1 ELSE 0],
       !.match_index = [p \in Server |-> 0]],
    t, Noop)

BecomeLeader(i, t) ==
  /\ role' = [role EXCEPT ![i] = Leader]
  /\ leader_id' = [leader_id EXCEPT ![i] = i]
  /\ pre_candidate' = [pre_candidate EXCEPT ![i] = FALSE]
  /\ transfer_target' = [transfer_target EXCEPT ![i] = None]
  /\ node' = [node EXCEPT ![i] = LeaderState(i, node[i], t)]
  /\ Send(SendAllAppends(i, node'[i], t))
  /\ elected' = elected \cup {<<t, i>>}

\* _start_election; pre is the value pre_candidate is left with.  A server
\* without peers wins at once.
StartElection(i, pre) ==
  LET t == current_term[i] + 1
  IN  /\ t <= MaxTerm
      /\ current_term' = [current_term EXCEPT ![i] = t]
      /\ voted_for' = [voted_for EXCEPT ![i] = i]
      /\ votes' = [votes EXCEPT ![i] = {i}]
      /\ \/ /\ Peers(i, node[i]) = {}
            /\ BecomeLeader(i, t)
         \/ /\ Peers(i, node[i]) # {}
            /\ role' = [role EXCEPT ![i] = Candidate]
            /\ leader_id' = [leader_id EXCEPT ![i] = None]
            /\ pre_candidate' = [pre_candidate EXCEPT ![i] = pre]
            /\ Send(VoteRequests(i, "vote", t))
            /\ UNCHANGED <<transfer_target, node, elected>>
      /\ UNCHANGED <<prevote_term, proposed>>

StartPreVote(i) ==
  /\ current_term[i] < MaxTerm
  /\ pre_candidate' = [pre_candidate EXCEPT ![i] = TRUE]
  /\ prevote_term' = [prevote_term EXCEPT ![i] = current_term[i] + 1]
  /\ votes' = [votes EXCEPT ![i] = {i}]
  /\ Send(VoteRequests(i, "prevote", current_term[i] + 1))
  /\ UNCHANGED <<current_term, voted_for, role, leader_id, transfer_target,
                 node, elected, proposed>>

\* tick of a server that is not the leader: a first timeout asks for
\* pre-votes, one while they are outstanding starts the election.
ElectionTimeout(i) ==
  /\ role[i] # Leader
  /\ IF UsePreVote /\ ~pre_candidate[i] THEN StartPreVote(i) ELSE StartElection(i, FALSE)

\* _step_down to term t of a message (t may be the current term).
StepDown(i, t) ==
  /\ current_term' = [current_term EXCEPT ![i] = MaxOf(@, t)]
  /\ voted_for' = [voted_for EXCEPT ![i] = IF t > current_term[i] THEN None ELSE @]
  /\ role' = [role EXCEPT ![i] = Follower]
  /\ pre_candidate' = [pre_candidate EXCEPT ![i] = FALSE]
  /\ transfer_target' = [transfer_target EXCEPT ![i] = None]

\* Whether the last contact of the leader is recent depends on the clock.
OnPrevote(i, m) ==
  /\ m.type = "prevote"
  /\ \E leader_alive \in BOOLEAN :
       LET granted == /\ m.term > current_term[i]
                      /\ UpToDate(m, node[i].log)
                      /\ ~(role[i] = Follower /\ leader_id[i] # None /\ leader_alive)
       IN  Send({[type |-> "prevote_resp", dest |-> m.candidate,
                  term |-> m.term, from |-> i, granted |-> granted]})
  /\ UNCHANGED <<electionVars, node, elected, proposed>>

OnPrevoteResp(i, m) ==
  LET counted == votes[i] \cup (IF m.granted THEN {m.from} ELSE {})
  IN  /\ m.type = "prevote_resp"
      /\ pre_candidate[i]
      /\ m.term = prevote_term[i]
      /\ \/ /\ HasMajority(node[i], counted)
            /\ StartElection(i, FALSE)
         \/ /\ ~HasMajority(node[i], counted)
            /\ votes' = [votes EXCEPT ![i] = counted]
            /\ UNCHANGED <<current_term, voted_for, role, leader_id, pre_candidate,
                           prevote_term, transfer_target, node, msgs, elected, proposed>>

VoteReply(i, m, t, granted) ==
  [type |-> "vote_resp", dest |-> m.candidate, term |-> t, from |-> i, granted |-> granted]

\* Mutant of GrantsVote: an earlier vote in the term is ignored.
BugGrantsSecondVote(i, m, vote) == UpToDate(m, node[i].log)

GrantsVote(i, m, vote) ==
  /\ vote \in {None, m.candidate}
  /\ UpToDate(m, node[i].log)

OnVote(i, m) ==
  /\ m.type = "vote"
  /\ \/ /\ m.term < current_term[i]
        /\ Send({VoteReply(i, m, current_term[i], FALSE)})
        /\ UNCHANGED electionVars
     \/ LET granted == GrantsVote(i, m, voted_for[i])
        IN  /\ m.term = current_term[i]
            /\ voted_for' = [voted_for EXCEPT ![i] = IF granted THEN m.candidate ELSE @]
            /\ Send({VoteReply(i, m, m.term, granted)})
            /\ UNCHANGED <<current_term, role, leader_id, pre_candidate, prevote_term,
                           votes, transfer_target>>
     \/ LET granted == GrantsVote(i, m, None)
        IN  /\ m.term > current_term[i]
            /\ current_term' = [current_term EXCEPT ![i] = m.term]
            /\ voted_for' = [voted_for EXCEPT ![i] = IF granted THEN m.candidate ELSE None]
            /\ role' = [role EXCEPT ![i] = Follower]
            /\ pre_candidate' = [pre_candidate EXCEPT ![i] = FALSE]
            /\ transfer_target' = [transfer_target EXCEPT ![i] = None]
            /\ Send({VoteReply(i, m, m.term, granted)})
            /\ UNCHANGED <<leader_id, prevote_term, votes>>
  /\ UNCHANGED <<node, elected, proposed>>

OnVoteResp(i, m) ==
  LET counted == votes[i] \cup {m.from}
  IN  /\ m.type = "vote_resp"
      /\ role[i] = Candidate
      /\ m.term = current_term[i]
      /\ m.granted
      /\ votes' = [votes EXCEPT ![i] = counted]
      /\ \/ /\ HasMajority(node[i], counted)
            /\ BecomeLeader(i, current_term[i])
         \/ /\ ~HasMajority(node[i], counted)
            /\ UNCHANGED <<role, leader_id, pre_candidate, transfer_target, node,
                           msgs, elected>>
      /\ UNCHANGED <<current_term, voted_for, prevote_term, proposed>>

\* A leader of an older or the same term may transfer leadership; the
\* pre-vote that may be under way is not given up.
OnTimeoutNow(i, m) ==
  /\ m.type = "timeout_now"
  /\ m.term >= current_term[i]
  /\ role[i] # Leader
  /\ StartElection(i, pre_candidate[i])

-----------------------------------------------------------------------------
(* Replication *)

\* What a server does with the sender of an append or install_snapshot of its
\* own or a newer term; a follower of the same term does not step down.
FollowLeader(i, m) ==
  /\ leader_id' = [leader_id EXCEPT ![i] = m.leader]
  /\ \/ /\ m.term > current_term[i] \/ role[i] # Follower
        /\ StepDown(i, m.term)
     \/ /\ ~(m.term > current_term[i] \/ role[i] # Follower)
        /\ UNCHANGED <<current_term, voted_for, role, pre_candidate, transfer_target>>
  /\ UNCHANGED <<prevote_term, votes>>

AppendReply(i, m, t, success, match, conflict) ==
  [type |-> "append_resp", dest |-> m.leader, term |-> t, from |-> i,
   success |-> success, match |-> match, conflict |-> conflict]

\* The answer to a leader of an older term, to an append or a snapshot.
RejectStaleLeader(i, m) ==
  /\ m.term < current_term[i]
  /\ Send({AppendReply(i, m, current_term[i], FALSE, 0, 0)})
  /\ UNCHANGED <<electionVars, node>>

\* Mutant of FollowerState: the commit index follows every message.
BugFollowsCommit(i, n, m, merged) ==
  LET stored == [n EXCEPT !.log = merged.log]
  IN  IF merged.ok
      THEN ApplyCommitted(i, [stored EXCEPT
                                !.commit_index = MinOf(m.commit, LastIndex(merged.log))])
      ELSE stored

\* The log after the merge, and the commit index the message allows.
FollowerState(i, n, m, merged) ==
  LET stored == [n EXCEPT !.log = merged.log]
  IN  IF merged.ok /\ m.commit > n.commit_index
      THEN ApplyCommitted(i, [stored EXCEPT
                                !.commit_index = MinOf(m.commit, LastIndex(merged.log))])
      ELSE stored

OnAppend(i, m) ==
  /\ m.type = "append"
  /\ \/ RejectStaleLeader(i, m)
     \/ LET merged == Merge(node[i].log, m.prev_index, m.prev_term, m.entries)
        IN  /\ m.term >= current_term[i]
            /\ FollowLeader(i, m)
            /\ node' = [node EXCEPT ![i] = FollowerState(i, node[i], m, merged)]
            /\ Send({AppendReply(i, m, m.term, merged.ok, merged.match, merged.conflict)})
  /\ UNCHANGED <<elected, proposed>>

\* Mutant of AlreadyHas: every snapshot is installed.
BugAlwaysInstalls(log, m) == FALSE

\* A snapshot is skipped when the log has the entry or an equal or later one.
AlreadyHas(log, m) ==
  \/ TermAt(log, m.last_included_index) = m.last_included_term
  \/ log.snapshot_last_index >= m.last_included_index

\* Mutant of InstallSnapshot: the entries that the snapshot replaces stay.
BugInstallKeepsEntries(n, m) ==
  IF AlreadyHas(n.log, m) THEN n
  ELSE [n EXCEPT !.state_machine = m.data,
                 !.log.first_index = m.last_included_index + 1,
                 !.log.snapshot_last_index = m.last_included_index,
                 !.applied_index = m.last_included_index]

\* What is installed is the state, the snapshot point and the indexes; the entries
\* above the snapshot stay, as in compact.
InstallSnapshot(n, m) ==
  LET index == m.last_included_index
      committed == [n EXCEPT !.commit_index = MaxOf(@, index)]
  IN  IF AlreadyHas(n.log, m) THEN committed
      ELSE [committed EXCEPT
              !.state_machine = m.data,
              !.log = ResetTo(n.log, index, m.last_included_term),
              !.last_snapshot = [index |-> index, term |-> m.last_included_term,
                                 data |-> m.data],
              !.applied_index = MaxOf(@, index)]

OnInstallSnapshot(i, m) ==
  /\ m.type = "install_snapshot"
  /\ \/ RejectStaleLeader(i, m)
     \/ /\ m.term >= current_term[i]
        /\ FollowLeader(i, m)
        /\ node' = [node EXCEPT ![i] = InstallSnapshot(@, m)]
        /\ Send({AppendReply(i, m, m.term, TRUE, m.last_included_index, 0)})
  /\ UNCHANGED <<elected, proposed>>

\* The progress of peer p after a success and after a rejection.
Acknowledged(n, p, m) ==
  LET match == MaxOf(n.match_index[p], m.match)
  IN  [n EXCEPT !.match_index[p] = match, !.next_index[p] = match + 1]

\* Mutant of BackedOff: a rejection is answered by the same append again.
BugKeepsNextIndex(n, p, m) == n

BackedOff(n, p, m) ==
  LET hint == IF m.conflict # 0 THEN m.conflict ELSE n.next_index[p] - 1
  IN  [n EXCEPT !.next_index[p] = MaxOf(1, MinOf(@ - 1, hint))]

\* An answer of a peer without progress raises KeyError and changes nothing.
OnAppendResp(i, m) ==
  /\ m.type = "append_resp"
  /\ \/ /\ m.term > current_term[i]
        /\ StepDown(i, m.term)
        /\ UNCHANGED <<leader_id, prevote_term, votes, node, msgs>>
     \/ /\ m.term = current_term[i]
        /\ role[i] = Leader
        /\ m.from \in Tracked(node[i])
        /\ \/ /\ m.success
              /\ node' = [node EXCEPT ![i] =
                            AdvanceCommit(i, Acknowledged(@, m.from, m), m.term)]
              /\ UNCHANGED msgs
           \/ /\ ~m.success
              /\ node' = [node EXCEPT ![i] = BackedOff(@, m.from, m)]
              /\ Send({SendAppend(i, node'[i], m.term, m.from)})
        /\ UNCHANGED electionVars
  /\ UNCHANGED <<elected, proposed>>

-----------------------------------------------------------------------------
(* The leader's timers and the client interface *)

\* tick: the heartbeat timer.
Heartbeat(i) ==
  /\ role[i] = Leader
  /\ Send(SendAllAppends(i, node[i], current_term[i]))
  /\ UNCHANGED <<electionVars, node, elected, proposed>>

\* tick: the deadline of a transfer has passed.
AbortTransfer(i) ==
  /\ role[i] = Leader
  /\ transfer_target[i] # None
  /\ transfer_target' = [transfer_target EXCEPT ![i] = None]
  /\ Send(SendAllAppends(i, node[i], current_term[i]))
  /\ UNCHANGED <<current_term, voted_for, role, leader_id, pre_candidate, prevote_term,
                 votes, node, elected, proposed>>

\* _check_quorum: which peers answered within the window depends on the clock.
QuorumAlive(i, n, alive) ==
  /\ n.old_config # {} =>
       MoreThanHalf(Cardinality((alive \cup {i}) \cap n.old_config), n.old_config)
  /\ MoreThanHalf(Cardinality((alive \cap n.config) \cup {i}), n.config)

CheckQuorum(i) ==
  /\ role[i] = Leader
  /\ \E alive \in SUBSET (Server \ {i}) : ~QuorumAlive(i, node[i], alive)
  /\ StepDown(i, current_term[i])
  /\ UNCHANGED <<leader_id, prevote_term, votes, node, msgs, elected, proposed>>

Propose(i, v) ==
  /\ role[i] = Leader
  /\ transfer_target[i] = None
  /\ v \notin proposed
  /\ LastIndex(node[i].log) < MaxLog
  /\ node' = [node EXCEPT ![i] = ProposeEntry(i, @, current_term[i], Command(v))]
  /\ Send(SendAllAppends(i, node'[i], current_term[i]))
  /\ proposed' = proposed \cup {v}
  /\ UNCHANGED <<electionVars, elected>>

TransferLeadership(i, target) ==
  /\ role[i] = Leader
  /\ target \in Peers(i, node[i])
  /\ transfer_target' = [transfer_target EXCEPT ![i] = target]
  /\ Send({[type |-> "timeout_now", dest |-> target, term |-> current_term[i]]})
  /\ UNCHANGED <<current_term, voted_for, role, leader_id, pre_candidate, prevote_term,
                 votes, node, elected, proposed>>

\* _propose_config: the leader enters the joint configuration at once and
\* logs the new one.
JointState(i, n, servers) ==
  LET fresh == servers \ (Tracked(n) \cup {i})
  IN  [n EXCEPT
         !.old_config = n.config,
         !.config = n.config \cup servers,
         !.next_index = [p \in Server |-> IF p \in fresh THEN LastIndex(n.log) + 1 ELSE @[p]],
         !.match_index = [p \in Server |-> IF p \in fresh THEN 0 ELSE @[p]]]

ProposeConfig(i, servers) ==
  /\ role[i] = Leader
  /\ node[i].old_config = {}
  /\ LastIndex(node[i].log) < MaxLog
  /\ node' = [node EXCEPT ![i] = ProposeEntry(i, JointState(i, @, servers),
                                              current_term[i], ConfigChange(servers))]
  /\ Send(SendAllAppends(i, node'[i], current_term[i]))
  /\ UNCHANGED <<electionVars, elected, proposed>>

ProposeAddServer(i, s) ==
  /\ s \notin node[i].config
  /\ ProposeConfig(i, node[i].config \cup {s})

ProposeRemoveServer(i, s) ==
  /\ s \in node[i].config
  /\ s # i
  /\ Cardinality(node[i].config) > 2
  /\ ProposeConfig(i, node[i].config \ {s})

\* take_snapshot on request.
Snapshot(i) ==
  /\ node[i].applied_index > 0
  /\ node' = [node EXCEPT ![i] = TakeSnapshot(@)]
  /\ UNCHANGED <<electionVars, msgs, elected, proposed>>

\* Mutants of RestartedNode and Restart: the log is lost; the vote is lost.
BugRestartLosesLog(i, n) == FreshNode
BugRestartLosesVote(i) ==
  /\ role' = [role EXCEPT ![i] = Follower]
  /\ voted_for' = [voted_for EXCEPT ![i] = None]
  /\ votes' = [votes EXCEPT ![i] = {}]
  /\ node' = [node EXCEPT ![i] = [FreshNode EXCEPT !.log = node[i].log]]
  /\ UNCHANGED <<current_term, leader_id, pre_candidate, prevote_term, transfer_target,
                 msgs, elected, proposed>>

\* A restarted node keeps its term, its vote and its log.  The simulator
\* takes the whole log for committed and applies it; the server starts from
\* commit index 0 (a server with a snapshot file is the subject of
\* DurableRaftLog).
RestartedNode(i, n) ==
  LET fresh == [FreshNode EXCEPT !.log = n.log]
  IN  IF SimRestart
      THEN ApplyCommitted(i, [fresh EXCEPT !.commit_index = LastIndex(n.log)])
      ELSE fresh

Restart(i) ==
  /\ ~SimRestart => node[i].last_snapshot.index = 0
  /\ role' = [role EXCEPT ![i] = Follower]
  /\ leader_id' = [leader_id EXCEPT ![i] = None]
  /\ pre_candidate' = [pre_candidate EXCEPT ![i] = FALSE]
  /\ prevote_term' = [prevote_term EXCEPT ![i] = 0]
  /\ votes' = [votes EXCEPT ![i] = {}]
  /\ transfer_target' = [transfer_target EXCEPT ![i] = None]
  /\ node' = [node EXCEPT ![i] = RestartedNode(i, @)]
  /\ UNCHANGED <<current_term, voted_for, msgs, elected, proposed>>

-----------------------------------------------------------------------------

Tick(i) ==
  \/ i \in Timers /\ ElectionTimeout(i)
  \/ Heartbeat(i)
  \/ AbortTransfer(i)
  \/ i \in Isolatable /\ CheckQuorum(i)

Handle(i, m) ==
  /\ m.dest = i
  /\ \/ OnPrevote(i, m) \/ OnPrevoteResp(i, m)
     \/ OnVote(i, m) \/ OnVoteResp(i, m)
     \/ OnAppend(i, m) \/ OnAppendResp(i, m)
     \/ OnTimeoutNow(i, m) \/ OnInstallSnapshot(i, m)

Request(i) ==
  \/ \E v \in Value : Propose(i, v)
  \/ \E target \in Targets : TransferLeadership(i, target)
  \/ \E s \in Reconfigurable : ProposeAddServer(i, s) \/ ProposeRemoveServer(i, s)
  \/ i \in Snapshotters /\ Snapshot(i)

Next ==
  \E i \in Server :
    \/ Tick(i)
    \/ \E m \in msgs : Handle(i, m)
    \/ Request(i)
    \/ i \in Restartable /\ Restart(i)

Spec == Init /\ [][Next]_vars

(* Fairness: the heartbeat timer fires again and again, and the network is fair:
   a message that is present again and again, being sent anew with every heartbeat,
   is delivered again and again, and so is the answer to it.  Older messages may
   still come in between, as often as they like, and nothing is assumed of
   elections, clients and restarts. *)

\* What a leader sends to a peer now, if it is in the network already.
CurrentAppend(l, p) ==
  {m \in {SendAppend(l, node[l], current_term[l], p)} :
     /\ role[l] = Leader
     /\ p \in Peers(l, node[l])
     /\ m \in msgs}

\* What p would answer to message m of its leader, if it has done so already.
CurrentReply(p, m) ==
  LET merged == Merge(node[p].log, m.prev_index, m.prev_term, m.entries)
  IN  {CASE m.term < current_term[p] -> AppendReply(p, m, current_term[p], FALSE, 0, 0)
         [] m.term >= current_term[p] /\ m.type = "append" ->
              AppendReply(p, m, m.term, merged.ok, merged.match, merged.conflict)
         [] OTHER -> AppendReply(p, m, m.term, TRUE, m.last_included_index, 0)} \cap msgs

DeliverAppend(l, p) ==
  \E m \in CurrentAppend(l, p) : OnAppend(p, m) \/ OnInstallSnapshot(p, m)

DeliverReply(l, p) ==
  \E m \in CurrentAppend(l, p) : \E r \in CurrentReply(p, m) : OnAppendResp(l, r)

Fairness ==
  \A l \in Server :
    /\ WF_vars(Heartbeat(l))
    /\ \A p \in Server \ {l} : SF_vars(DeliverAppend(l, p)) /\ SF_vars(DeliverReply(l, p))

FairSpec == Spec /\ Fairness

-----------------------------------------------------------------------------
(* Properties *)

\* The state of every server and every message has the type of the class.
TypeOK ==
  /\ current_term \in [Server -> Nat]
  /\ voted_for \in [Server -> Server \cup {None}]
  /\ role \in [Server -> {Follower, Candidate, Leader}]
  /\ leader_id \in [Server -> Server \cup {None}]
  /\ pre_candidate \in [Server -> BOOLEAN]
  /\ prevote_term \in [Server -> Nat]
  /\ votes \in [Server -> SUBSET Server]
  /\ transfer_target \in [Server -> Server \cup {None}]
  /\ node \in [Server -> NodeState]
  /\ msgs \subseteq Message
  /\ elected \subseteq Nat \X Server
  /\ proposed \subseteq Value

\* At most one server ever becomes leader in a term, over the whole history of
\* elections (_start_election, _on_vote, _on_vote_resp, _become_leader).
ElectionSafety ==
  \A a, b \in elected : a[1] = b[1] => a[2] = b[2]

\* If two logs hold an entry of the same term at an index, they agree on every
\* entry up to it that both still hold (the consistency check of merge).
LogMatching ==
  \A i, j \in Server :
    LET a == node[i].log
        b == node[j].log
        both == {k \in 1..MinOf(LastPosition(a), LastPosition(b)) :
                   Present(a, k) /\ Present(b, k)}
    IN  \A k \in both : TermAt(a, k) = TermAt(b, k) =>
          \A l \in both : l <= k => Get(a, l) = Get(b, l)

\* A command that one state machine has applied at an index has been applied at
\* that index by every state machine that has come as far (_apply_committed), by
\* installing a snapshot too.  An append that a snapshot has overtaken breaks it (see
\* LogContiguous), and so does a simulated restart of a server whose tail is not
\* committed (sim.py:89).
StateMachineSafety ==
  \A i, j \in Server : \A c \in node[j].state_machine :
    c[1] <= node[i].applied_index => c \in node[i].state_machine

\* Log a has the entry that log b holds at index k, or a snapshot of it.
Covers(a, b, k) ==
  \/ k <= a.snapshot_last_index
  \/ Present(a, k) /\ Get(a, k) = Get(b, k)

\* A leader whose term no server has passed has every entry that any server
\* knows to be committed (the up-to-date check of _on_vote).
LeaderCompleteness ==
  \A i, j \in Server :
    (role[i] = Leader /\ \A s \in Server : current_term[s] <= current_term[i]) =>
      \A k \in 1..node[j].commit_index :
        Present(node[j].log, k) => Covers(node[i].log, node[j].log, k)

\* An entry that a server knows to be committed is in the logs of a majority,
\* whatever elections, truncations and restarts followed (_advance_commit).
CommittedOnMajority ==
  \A j \in Server : \A k \in 1..node[j].commit_index :
    Present(node[j].log, k) =>
      MoreThanHalf(Cardinality({i \in Server : Covers(node[i].log, node[j].log, k)}), Server)

\* What a leader believes of a peer's log is true as long as the peer is in the
\* leader's term: the two logs agree up to match_index (_on_append_resp).
MatchIndexSound ==
  \A i, p \in Server :
    (role[i] = Leader /\ p \in Tracked(node[i]) /\ current_term[p] = current_term[i]) =>
      \A k \in 1..node[i].match_index[p] :
        Present(node[i].log, k) => Covers(node[p].log, node[i].log, k)

\* A snapshot that a server keeps or sends holds what every state machine that
\* has come as far had applied up to its index, no more and no less
\* (take_snapshot, _on_install_snapshot, _send_append).
SnapshotSound ==
  LET upTo(i, index) == {c \in node[i].state_machine : c[1] <= index}
  IN  \A i \in Server :
        /\ \A j \in Server : LET snap == node[j].last_snapshot IN
             node[i].applied_index >= snap.index => upTo(i, snap.index) = snap.data
        /\ \A m \in msgs :
             (m.type = "install_snapshot" /\ node[i].applied_index >= m.last_included_index) =>
               upTo(i, m.last_included_index) = m.data

\* The entries of a log have consecutive indexes from first_index on (the
\* docstring of RaftLog), when a snapshot has replaced a conflicting or a shorter
\* log too.  It is not so once an append from index 0, or one whose previous term is
\* -1, reaches a log after a snapshot that covers it, nor when a server without an
\* entry above its snapshot leads: it numbers its own from 1 (last_index).
LogContiguous ==
  \A i \in Server : \A k \in 1..Len(node[i].log.entries) :
    node[i].log.entries[k].index = node[i].log.first_index + k - 1

\* Servers that have applied as much agree on the configuration, except for a
\* leader between proposing a change and applying it (_apply_committed).
ConfigAgreement ==
  \A i, j \in Server :
    (/\ node[i].applied_index = node[j].applied_index
     /\ node[i].old_config = {} /\ node[j].old_config = {}) =>
      node[i].config = node[j].config

\* A step never removes or changes an entry that its server knows to be
\* committed, except into a snapshot (the truncation of merge, compact).
CommittedNeverLost ==
  [][\A i \in Server : \A k \in 1..node[i].commit_index :
       Present(node[i].log, k) => Covers(node'[i].log, node[i].log, k)]_vars

\* A server that stays leader commits all of its log, and every server that it
\* can reach applies it: conflicts are backed off from, stale answers corrected
\* (_send_append, merge, _on_append_resp, _advance_commit).
StableLeaderReplicates ==
  \A l \in Server :
    []<>(role[l] = Leader =>
           \A p \in Server : {l, p} \notin Partitioned =>
             node[p].applied_index = LastPosition(node[l].log))

\* The commit index never moves back (_on_append, _on_install_snapshot).
CommitMonotonic ==
  [][\A i \in Server : node'[i].commit_index >= node[i].commit_index]_vars
=============================================================================
