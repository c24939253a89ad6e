# Verification of pylog

pylog is a durable commit log, a small broker on top of it, and a Raft
implementation that replicates a log over TCP or inside a deterministic
simulator. This directory holds TLA+ models of its core, the TLC configurations
that check them on small instances, and TLAPS proofs of what holds for every
instance. `PROJECT.json` lists components, runs, mutants, hazards, findings and
theorems, and maps every definition to the lines it models.

    tlc -workers 2 -config MCRaft_conflict.cfg MCRaft     # one run
    tlc -workers 2 -config DurableRaftLog.cfg DurableRaftLog
    tlapm RaftCommitProofs.tla                            # the proofs of one module

## Inventory

| Component | State | Operations | Used by | What makes it correct |
|---|---|---|---|---|
| In-memory Raft log (`pylog/raft.py`, `RaftLog`) | entries, `first_index`, snapshot point | append, merge, compact, reads | Raft node | a merge keeps what matches and cuts what conflicts; indexes stay consecutive |
| Raft node (`raft.py`, `RaftNode`, `DurableState`) | term, vote, role, votes, log, commit and applied index, configuration, progress of peers, snapshot | `tick`, eight message handlers, `propose`, `transfer_leadership`, membership changes, `take_snapshot` | simulator, TCP server | one leader per term; committed entries survive; state machines agree; snapshots are what was applied |
| Key-value state machine (`statemachine.py`) | a dictionary | apply, snapshot, restore | Raft node | the same prefix gives the same state |
| Simulated cluster (`sim.py`) | nodes, message queue, virtual clock, partitions | step, crash, restart, partition, `propose_via_leader` | tests | delivers, delays, drops; a restart gives back what was durable |
| TCP server and transport (`server.py`) | a node, connections, a timer thread | handle a call, client requests, restart from disk | `cli.py replicate` | one thread at a time in the node (not enforced by the code) |
| Commit log (`log.py`) | segment files; per segment size, next offset, sparse index | append, append_many, read, truncate_from, truncate_segments_before, recover | broker, durable Raft log | reads are exact; a crash costs the unfinished record only; offsets have no gap |
| Durable Raft log (`durable_log.py`) | a commit log and its mirror in memory | append, merge, truncate after a snapshot, load | Raft node | memory and disk agree, also after a restart |
| Broker, consumer groups (`broker.py`) | topics, partitions, committed offsets | produce, consume, commit, retention | HTTP API, CLI | order per partition; a group passes over nothing and confirmed offsets are on disk; retention keeps what it must |
| Frames, HTTP API, metrics, CLI (`net.py`, `api.py`, `metrics.py`, `cli.py`, demos) | sockets, counters | I/O around the above | users | - |

How they interact: a Raft node is driven by `handle` and `tick` and answers
through `transport.send`; the simulator queues those messages, the TCP transport
makes them calls (and repeats a call whose answer was lost). The node writes
term and vote through `DurableState.save` before it answers, entries through its
log, commands to the state machine as `commit_index` moves. The durable log and
the broker's partitions both sit on the commit log.

Hard behaviours: messages lost, delayed, reordered, repeated; elections that
overlap with pre-votes, transfers and membership changes; restarts between any
two steps; snapshots that race appends; crashes inside an append, a truncation
or retention; threads of the TCP server and the HTTP server that share state
without a lock.

The repository has a sketch of its own, `src/tla/pylog.tla`. The models here do
not build on it; they are translated from the Python code.

## Modules

**`RaftLog`** - the operators of class `RaftLog`, on a record with its four
fields. `last_index` is 0 when there are no entries, even after a snapshot, as
in the code; `LastPosition` is where the array really ends.

**`Raft`** (extends `RaftLog`) - class `RaftNode` and the clusters around it.
Variables are the node's attributes; what does not take part in elections is one
record per server (`node`), so that the helpers of the class (`_advance_commit`,
`_apply_committed`, `take_snapshot`, ...) are functions of that record. Each
handler is one atomic action, with everything it calls: committing applies,
applying may change the configuration and take an automatic snapshot, becoming
leader appends the no-op and sends appends. `msgs` holds every message ever
sent, and any of them may be handled at any time, again and again, or never.
Clocks are left out: a timer fires whenever the role allows it and a comparison
with the clock (recent leader contact, `CheckQuorum`) has either outcome. The
sets `Timers`, `Restartable`, `Snapshotters`, ... say what the environment does
in an instance. `elected` and `proposed` are history variables. The state
machine is the set of commands with the index each was applied at.

**`MCRaft`, `MCRaft5`** - clusters of one to three and of five servers. Some
specifications start later than `Init`, in a state the protocol reaches: a leader
just elected (`LeaderSpec`, `VotedSpec`), and a deposed leader with an entry of
its own besides a successor (`SplitSpec`, and `FairSplitSpec` with fairness).
`SnapshotSpec` starts where a snapshot matters (`LaggingInit`): n3 has elected n2, which
logged one or two entries and reached nobody, then n1, which has committed with n3,
compacted and logged more, so that n2 can be brought up to date by a snapshot
only; or with every server alone in a cluster of its own. The simulator's restart
(`SimRestart = TRUE`) is modelled and taken by no run, because it contradicts a test
(below).

**`RaftLogProofs`, `RaftProofs`, `RaftMatchingProofs`, `RaftCommitProofs`, `CommitLogProofs`,
`DurableRaftLogProofs`, `BrokerProofs`** - the proofs (below); each of the four about
Raft extends the one before it. `BoundTheorems` says that bounded sets of integers have
a least and a greatest element, which is what searches rely on and the form in which
the proofs use induction.

**`CommitLog`** - classes `Segment` and `CommitLog`. A file is its valid records
with their byte positions, and whether bad bytes follow; a record is its offset,
position and length. A segment in memory has the size, next offset, sparse index
and `last_indexed_position` of the code, and `read` goes through that index.
Operations are atomic unless the process dies in them: `Crash` leaves the disk
after any record of an append (in a segment just rolled or within a record), any
deletion of a truncation or of retention, or with a damaged record, as far as
`Faults` allows; `Open` recovers. `Chosen` and `InOrder` are the comprehensions and the
sort of the code, written so that the prover can reason about them.

**`OrderedLog`** - what the commit log promises: one sequence with consecutive
offsets that grows at its end, is cut from an offset on, and loses its oldest
records. `CommitLog` implements it with the concatenated files as `records` and
the lowest base offset as `first` (`INSTANCE OrderedLog WITH ...`).

**`DurableRaftLog`** (extends `RaftLog`) - class `DurableRaftLog` in one server,
with the snapshot files of `RaftNode`. `log` is the mirror, `disk` the records of
the commit log, `snapshots` the files.
`DurableMerge` is the class's own `merge`, which works on stored indexes where
the one in memory works on positions. The rest of the cluster is reduced to what
`Raft` guarantees of it: one leader, this server or another, whose log contains
every committed entry; an append carries any part of that log. The server dies
between any two steps, inside the truncation or the batch of a merge
(`CrashInAppend`), between the snapshot file and the truncation of an install or in
the middle of it (`CrashInInstall`), and in the truncation of a restart
(`CrashInRestart`); it restarts through `__init__` and `_load_snapshot_file`.

A crash inside `truncate_from` (`TruncateCrashes`, the crash points of
`CommitLog.TruncateCrashes`) may leave segments behind a gap, so `disk` is what reads
reach, the records before the first gap, and `next_offset` is a variable of its own, which
may lie behind it. What is written behind a gap is never read and is not kept in
the model. A crash between two writes of `append_many` leaves a prefix of the batch.

The code has defects that lose or misplace records, and the model takes every one of
those steps. `defects` is history and says which of them the log has met, each at the
step where it does harm:

| Defect | Step |
|---|---|
| `"torn"` | a crash inside `truncate_from` leaves a gap |
| `"buried"` | a record is written behind a gap |
| `"cut"` | a re-sync to a snapshot, at an install or a restart, removes records that can be read |
| `"overtaken"` | an append from index 0 is merged into a log that begins above it |
| `"misplaced"` | a record is written at an offset that is not its index |
| `"behind"` | a restart goes on from a snapshot that its log does not have |

A log is `Sound` without `"buried"`, `"cut"` and `"overtaken"`; the first three invariants
speak of sound logs, torn ones, installs and restarts that compact among them as long as no
record was removed. `SnapshotsTrue` also speaks of logs that a re-sync has cut, and ends
with the other defects. `resync` is about the first re-sync that removes a record.

**`Broker`, `MCBroker`** - `broker.py` behind the requests of `api.py`. A partition
is its list of segments, a record its key and its number in the order of
production; sizes are counted in records. A client has one request at a time, and
its handler works in steps (read the group's offset, fetch, compare with the offset in
memory, assign, replace the file, answer); any number of clients may be in one
group, and producers, retention (which segments have expired is the clock's choice),
crashes and restarts come in between. A client may also commit an offset of its own
(`Posted`). Writing the `.tmp` file and renaming it is one step, `WriteOffsets`: exact for one client
of a group at a time, while two threads of one group would also share the `.tmp` file.
`passed` and `confirmed` are history: the offsets that a group has gone past because a
handler has read them or a client has posted an offset above them, and what answers
have told.

## Runs

The Raft runs do not check for deadlock: when the bounds on terms and logs have
stopped the last election and proposal a behaviour may end. The others do.

| Run | Instance | Shows |
|---|---|---|
| `prevote` | 3 servers, a leader just elected, PreVote, transfer to n3, n1-n2 cut, terms to 2 | one leader per term and no leader without the committed entries while pre-votes, votes, `timeout_now` and an aborted transfer interleave |
| `conflict` | `SplitSpec`, terms to 4, CheckQuorum | conflicting tails are cut and matching ones are not: log matching, state machine safety, leader completeness, soundness of `match_index`, `commit_index` never moves back |
| `restart` | from `Init`, n1-n2 cut, n1 and n3 restart, one command | votes and logs outlive restarts: nothing committed is lost or drops below a majority |
| `membership` | servers removed and added by leaders of two terms | equal applied prefixes give equal configurations; elections and commitment stay safe |
| `snapshot` | `SnapshotSpec`: 3 servers, one with a conflicting tail of 2 or 3 entries below the leader's snapshot; the leader snapshots by request and every 3 entries, terms to 2; or one server alone | a snapshot that replaces a log, over a conflicting or a shorter tail and again when the leader has compacted more, gives the state that the entries give; logs stay contiguous; nothing committed is lost |
| `catchup` | `FairSplitSpec`: a conflicting log, two leaders of different terms, CheckQuorum | a leader that stays leader gets its log applied by every server it reaches |
| `commitlog` | records of 1 or 2 bytes, segments of 5, an index entry every 2, batches to 3, offsets to 7 | reads through the sparse index are exact, recovery rebuilds exactly what was in memory, no gaps, no record lost, `OrderedLog` implemented |
| `durable` | leaders of 3 terms, logs to 3 entries | committed entries that were acknowledged are on disk or in a snapshot through every crash; mirror and disk agree; both merges agree; snapshot files name the right term; each until a defect above |
| `broker` | 1 topic, 2 partitions, 2 keys, segments of one record, 3 records, 1 consumer, 1 crash | records of a key stay in one partition in order; a confirmed offset is on disk; no record is passed over; a consumer that polls catches up |
| `batch`, `election5`, `resync` | - | disagreements between code and documents (below) |

Why the bounds suffice. Three servers are the smallest cluster with a minority.
Four terms are what it takes for an entry of term 1 to be overwritten and for
the overwriting leader to be deposed; `conflict` starts where the first three are
over. The pair that cannot communicate makes the interesting schedules
(two leaders that know nothing of each other, joined by one voter) the only
ones and keeps the state space within minutes. `MaxBatch` is at least
`MaxLog + MaxTerm` in every passing run, so that the theorems below speak of the same
instances; `batch` asks what smaller ones do. In `commitlog`, segments of 5 with
an interval of 2 hold up to three index entries and may overflow (append_many
does not roll before its first record), and seven offsets reach three segments,
truncation back across them and retention. `Faults` has what leaves no gap; with all
four faults `TypeOK`, `ReadCorrect` and `RecoveryExact` have been run once by hand and hold,
and they are proved so. In `durable`, two leaders are what a
conflicting tail takes and a third what it takes to merge after a torn truncation, and
three entries are one below a snapshot, one at it and
one above. `StillClaimed` stops TLC at logs of which no property says anything any more,
and `View` forgets acknowledgements that no property can ask about again. (Four terms
have been run once by hand: 150,891 states, no violation.)
In `snapshot` the bounds keep what is known to fail outside (see the list below): appends
from index 0 that arrive after an install, a tail so long that a second snapshot leaves an
append with previous term -1 matching, a server elected with nothing above its snapshot,
and a leader that has not compacted and sends from 0. Within them n2 installs every
snapshot that the leader ever takes, at any time and in any order with the appends.
In `broker`, three records make three segments in one partition, which is where
the size sweep deletes two at once, `Limit` 2 makes a consumer poll more than
once, and `Posted` commits one offset below and one beyond what it has read. It has one
client because two make liveness too large for TLC and break `CommitDurable` (below);
`NothingSkipped` has been run once by hand with two clients of the group and two records
(3,997,727 states, no violation) and is proved for any number.

Fairness. `catchup` assumes that the heartbeat timer of a leader fires again and
again (weak fairness; `tick` does nothing else that could prevent it) and that
links are fair: a message that is in the network again and again is delivered
again and again (strong fairness of `DeliverAppend` and `DeliverReply`, for the
message the leader would send now and the answer to it). Weak fairness would not
do: a stale rejection, delivered over and over, keeps changing which message is
the present one. The simulator delivers every message between connected nodes,
and the TCP transport loses one only with its connection, so strong fairness is
less than either gives. Nothing is assumed of elections, clients and restarts.
`broker` assumes that handlers run on, that a process which died is restarted
(weak fairness) and that the consumer polls every partition again and again, in
between its other requests (strong fairness of `Consume`). Crashes and
productions are bounded, so "in the end" is after the last of them.

Every property has a mutant in `PROJECT.json`: a plausible bug in a mapped
definition that makes the property fail in that run.

### Disagreements between the code and its documents

| Run | What TLC shows |
|---|---|
| `batch` | a follower sets `commit_index` to the minimum of the leader's and its own last index, not of what the message matched (`raft.py:481`): with small batches it commits a tail no majority has |
| `election5` | pre-votes and votes share a set (`raft.py:423`): five servers elect two leaders in one term |
| `resync` | `truncate_disk_through` drops the suffix its docstring keeps (`durable_log.py:49`): a restart with a snapshot file leaves entries in memory that are on disk no more |

Met while modelling, without a run of their own:

- A second election timeout during a pre-vote starts a real election
  (`raft.py:269-290`); ARCHITECTURE.md:94 says only a pre-vote majority does.
- `propose_via_leader` compares commit indexes and not terms (`sim.py:210`), and
  so answers True for a command another leader has overwritten.
- A leader deposed before its configuration entry is applied stays in the joint
  configuration if the entry is overwritten (`raft.py:379-393`).
- `CommitLog.truncate_from` deletes later segments oldest first (`log.py:445`):
  a crash in between leaves a gap. `Faults = {"truncate"}` shows it with `NoGap`.
  In a durable log, after a crash inside a merge, `next_offset` then lies behind what
  `__init__` loads; `durable_log.py:9` says "`disk.next_offset == last_index` is an
  invariant". A leader that appends next writes behind the gap, and the following restart
  does not load the entry although it was acknowledged. `Coherent` without
  `"torn" \notin defects`, and `AcknowledgedDurable` with `"buried"` allowed, fail.
- The simulator's restart takes the whole log for committed and applies it
  (`sim.py:89`); tests/test_sim.py:96 says uncommitted entries are never applied.
  `SimRestart = TRUE` with a tail that a second leader overwrites breaks
  `StateMachineSafety`.
- After `install_snapshot` empties the log, a delayed append with `prev_index` 0
  passes the check and its entries land above the snapshot (`raft.py:551`,
  `raft.py:38`): with `Snapshotters = {n1}`, a cut between n2 and n3 and one term,
  `StateMachineSafety` fails. In a durable log the same append cuts the disk at
  offset 0 (`durable_log.py:66-71`).
- An append whose previous entry the leader has compacted carries `prev_term` -1, and
  `term_at` of a follower that has compacted more is -1 too: the check passes and the
  entries land above the snapshot (`raft.py:49`), which breaks `LogContiguous`.
- A server elected with nothing above its snapshot numbers its no-op 1 (`raft.py:38`,
  `raft.py:62`); the docstring of `RaftLog` says indexes are contiguous.
- A follower whose entries are all in its snapshot has `last_index` 0 and refuses
  every append that does not start at index 0; the leader answers with the snapshot
  again, for good. In `Raft` with fair links such a follower never catches up.
- A restart whose snapshot is ahead of the disk (a crash inside an install)
  compacts nothing, since `compact` refuses, and still moves `commit_index` and
  `applied_index` to the snapshot (`raft.py:759-764`). The next `take_snapshot` looks the
  term up in a log that does not have the entry and writes -1, or the term of another
  entry (`raft.py:777-781`). `SnapshotsTrue` with `"behind"` allowed fails.
- A restart that cuts the disk below its mirror (`resync`) makes `append_many` write
  the next entries at offsets that are not their indexes (`"misplaced"`).
- A bad record in an older segment cuts that file only (`log.py:349`), which leaves
  a gap; README.md:122 says the log truncates at the first checksum failure.
  `Faults = {"damage"}` shows it with `NoGap`.
- Two clients of one group in two threads: between the comparison and the assignment of
  `commit` (`broker.py:94-96`) the other may commit a later offset, which then goes back;
  tests/test_broker.py:90 is called `test_commit_never_moves_backwards`. A commit
  with an older offset is also confirmed before the newer one is on disk. With two
  clients in `Consumer`, `CommitDurable` fails; `NothingSkipped` holds.
- A consumer whose next record retention has deleted gets no record ever again:
  `read_after` starts at its offset and stops at the first offset it cannot read
  (`broker.py:42-46`). `ConsumerCatchesUp` excepts this case.

## Proofs

`RaftLogProofs`: what each operator of the log returns, for any log.

`RaftProofs`, for every set of servers, commands and settings:

- **`TypeInvariant`**: `Spec => []TypeOK`. `TypeOK` is inductive. The work is in
  the functions of a node's record (a lemma each) and one lemma per action.
- **`ElectionSafetyHolds`**: at most one server is ever elected in a term,
  assuming a fixed configuration (`Reconfigurable = {}`) and `VotesNotMixed`
  (no PreVote, or at most three servers).

`ElectionSafety` speaks of the history of elections only and is not inductive.
The invariant is `TypeOK`, `ConfigFixed` (every server has the whole cluster as
its configuration) and `ElectionInv`, five parts:

- `BallotPast`, `LeaderPast`: a vote that was sent, and the vote a leader gave
  itself, belong to a term its sender has reached, and if it is the present term
  then `voted_for` still remembers it. This carries the durability of term and
  vote through restarts.
- `OneBallot`: nobody votes twice in a term; it follows from the former when a
  vote is granted.
- `CandidateVotes`: what a candidate has counted are votes sent to it in its term.
- `ElectedQuorum`: everyone elected had the votes of a majority.

Two majorities of a finite set share a server, and by `OneBallot` that server
voted for one candidate only. `VotesNotMixed` is needed for `CandidateVotes`: the
code counts pre-votes in the same set, and with five servers the theorem is false
(`election5`). With three, one foreign pre-vote is a majority at once and the
election it starts resets the set.

The actions are split once: `Quiet` steps leave term, vote, role, votes and
elections alone, and preserve `ElectionInv` by one lemma; stepping down, granting a
vote, standing for election, winning and restarting have lemmas of their own.

`RaftMatchingProofs` adds **`LogMatchingHolds`** and **`LogContiguousHolds`**, where in
addition no log is compacted (`NoSnapshots`). With snapshots a log that is empty
above its snapshot has `last_index` 0 and numbers its next entry 1, and delayed
appends land above the snapshot (see the list above). A follower's log is
changed by messages that were sent long ago, so the invariant `MatchingInv` speaks
of *fragments*: the logs, and the part of a log that an append in flight
carries with the term before it. Its parts:

- `ShapeInv`: logs are numbered from 1, appends from their previous entry.
- `Matching`: two fragments with an entry of one term at one index agree below it.
- `FromElected`: every entry's term is one somebody was elected in.
- `LeaderHas`: a leader has every entry of its term that any fragment has. So an
  entry it adds meets no other entry of its term.
- `CandidateNew`: a candidate has not yet won its term (and terms stay in bounds).

Every step leaves the fragments alone, adds one entry to the log of a leader, or
splices an append into a follower's log (`Spliced`); one lemma for each of the
three, and `MergeSplices` shows that `merge`, with its reuse of a matching tail, its
truncation at the first conflict and its renumbering, is a splice.

`RaftCommitProofs` proves what Raft is for:

- **`LeaderCompletenessHolds`**, **`StateMachineSafetyHolds`**,
  **`CommittedOnMajorityHolds`**, **`MatchIndexSoundHolds`** (invariants) and
  **`CommittedNeverLostHolds`**, **`CommitMonotonicHolds`** (action properties), for
  every set of servers, every schedule, and logs, terms and settings of any size.

Assumed besides the above are `HonestRestart` (nobody restarts, or it is the restart
of the TCP server: the simulator's takes the whole log for committed, which breaks
`StateMachineSafety`) and `WholeLogs` (`MaxLog + MaxTerm <= MaxBatch`: an append has room
for any log within the bounds, a leader adding entries up to `MaxLog` and one more
for each election). `WholeLogs` is the part of the claim to look at: the code's limit
is 256 entries (`raft.py:159`) and nothing keeps logs below it. It is needed because
a follower takes `min(leader_commit, its own last index)` (`raft.py:481`); without it the
theorems are false, as `batch` shows. Where it is used is one lemma, `CarriedStep`:
an append carries the entries up to the commit index it tells (`CommitCarried`). A
follower that took the minimum with the last entry of the message would need no such
lemma. `CommitMonotonicHolds` assumes that nobody restarts (a server that restarts
begins with commit index 0).

None of these is inductive, and the state does not hold enough to say why they are true:
a deposed leader's log may be gone when its entries matter. The invariant
`CommitInv` therefore says that there *is* a history `h`, with `h[t]` the log of the leader of
term `t` as long as it got, such that (`Recorded`):

- `HistOK`, `LogsOK`, `AppendsOK`, `AcksOK`: every log, append and acknowledgement is a part
  of the history of its terms; terms rise along each; a leader's log is the history of
  its own term.
- `MatchOK`, `RequestsOK`, `BallotsOK`: what leaders and voters believe they were told in a
  message, and what candidates said of their logs is still so.
- `LaterLeaders`: if the leader of a later term lacks an entry, the entry is `Doomed`: a
  majority has left its term without acknowledging it, so nobody will ever commit it.
  This is leader completeness, stated for all terms at once.
- `Keepers`: a server that acknowledged an entry has it still, unless it is doomed (its log is
  overwritten by later leaders only).
- `Voters`: a candidate with the vote of such a server has the entry, or it is doomed (the
  comparison of last term and index in `_on_vote`). With these, a majority of votes
  meets a majority of acknowledgements when a leader is elected.
- `CommitOK`, `AppliedOK`: what a server has committed is a part of the history of some term
  up to an entry of that term that a majority has acknowledged (`Chosen`), and what it has
  applied is the commands of that part.

A step extends `h` only when a leader adds an entry. One lemma (`RecordedStep`) shows
that the parts survive a step of one server, from how the server moves; the actions
are then cases of four: nothing that matters changes, the leader's log grows, the
commit index grows, a log is merged.

`DurableRaftLogProofs`, for terms, logs and commit indexes of any size:
**`AcknowledgedDurableHolds`**, **`CoherentHolds`** and **`MergeAgreesHolds`**, with crashes
inside `truncate_from`. The invariant `DurableInv` has six parts: `ClusterInv` (types
of the abstract cluster, terms of its log), `DiskInv` (records that reads reach are
numbered by their place, and the disk agrees with the leader's log below any entry both
have), `OffsetInv` (`next_offset` is where they end or, after a torn truncation, behind a
gap), `SnapshotInv` (snapshot files end at committed entries), `AckedInv` (what was
acknowledged is kept, by the disk or a snapshot, as long as the leader's log has it,
committed or not: it may be committed any time) and, for a server that is up, `MirrorInv`
(the log in memory mirrors the disk above its snapshot, and a disk that goes on above
what was applied has the leader's entries up to there, `Held`; one that ends below
may be anything, which is what a crash in an install leaves). All but the first hold
while the log is `Sound`. The disk does not depend on whether the server is up,
so a crash preserves the invariant, and a restart has to establish `MirrorInv` alone.
`SnapshotsTrue` is model-checked only.

`BrokerProofs`, for any number of topics, partitions, keys, records, groups and crashes:

- **`TypeCorrect`** and **`KeyOrderHolds`**, from `StorageInv` (partitions are well formed and hold
  no more records than were produced), `GroupsType` (offsets and requests) and `KeyInv` (numbers rise along a partition, of
  all keys, and every record lies where its key is routed).
- **`NothingSkippedHolds`**, for any number of clients in a group, with every interleaving
  of their handlers. `SkipInv` says of every offset in memory, in the file and in a
  request that the group has gone past all below it; a fetch adds to `passed` all from
  the offset it started at to the last one it returns (`ReadAfterRange`).
- **`CommitDurableHolds`**, for groups with one client each (`OneClientPerGroup`; with two
  clients in a group it is false, see above). The invariant `ConfirmInv` follows a request
  through its steps: memory and file differ only between the assignment and the
  write, by the offset being committed.

`CommitLogProofs`, for every size of segments, records, batches and index intervals and
every length of log; what is assumed is what a crash may interrupt (`Faults`):

| Theorem | Assumes |
|---|---|
| **`TypeCorrect`**, **`RecoveryIsExact`**, **`ReadIsCorrect`** | nothing: every fault may happen |
| **`OnlyRequestsRemoveRecords`** (an action property) | no record goes bad |
| **`NoGapUnlessTruncationTorn`** | `Orderly`: crashes inside appends and retention only |
| **`FilesImplementOrderedLog`** (the refinement of `OrderedLog`) | `Orderly` |

`Orderly` cannot be weakened: a crash inside `truncate_from` and a bad record each leave a
gap, so that the last two are false (see the list above). The
invariant `LogInv` has two parts:

- `DiskInv`, of the files: a file's records have consecutive offsets from its base
  and consecutive positions from 0 (`WellFormed`), files do not overlap, and, if
  `Orderly`, each but the last ends where the next begins (`Contiguous`). The last
  part needs a non-empty file before every roll: `append` rolls a full segment only,
  `append_many` not before its first record.
- `SegmentsInv`, of memory while the log is open: there is one segment for each file, in order,
  and it equals what `RecoveredSegment` gives for that file. This is `RecoveryExact`
  with the order added; everything a segment holds follows from its file.

The argument has four layers. (1) `RecoveredShape` says what a recovered segment looks
like: its size and next offset are the end of the file, its index entries point at the
records they name and rise. (2) `RecoveredAppend` and `TruncatedIs` show that
appending to a segment, and cutting its index, give the segment that a recovery of the
changed file gives; the second is the delicate one, because the index is sparse
and the distance to the last entry decides where the next one goes. (3)
`SegmentReadIs` shows that the search from the last index entry at or below the
offset ends at the record of the offset. (4) Each step of the log, and each
disk that a crash can leave, changes the files in one of three ways: they grow
(`Grows`), the log loses its end (`CutsEnd`) or its first files (`CutsFront`). From
these come both the action property and the refinement: under `Orderly` the joined files
are one sequence with the record of offset `o` at place `o - first + 1` (`OnDisk`), so the
three ways are `Extend`, `Truncate` and `DropOldest` of `OrderedLog`, or a stutter.

The replay of a file, the stores after each record of a batch and the joined files
are recursive functions. The prover has no theorem it could instantiate to unfold them:
for each, a lemma shows that a function with the defining equation exists (`ReplayExists`,
`AppendedExists`, `JoinedExists`: the least length without one leads to a contradiction),
and the proofs go on from the equation, again by least counterexamples.

Only model-checked: the snapshots and membership changes of `Raft` (`SnapshotSound`,
`ConfigAgreement`, and the Raft theorems in their presence). `SnapshotSound` is false for
some clusters: with three servers, n1 the leader and n2 and n3 cut off from each other,
an append that a snapshot has overtaken breaks it as it breaks `StateMachineSafety`
(above); a theorem would have to exclude such appends, which nothing in the code does.
`ConfigAgreement` needs agreement on what is applied while majorities change, that is
`CommitInv` without `ConfigFixed`, which is not proved. Out of the prover's reach, and left to TLC: liveness under fairness
(`StableLeaderReplicates`, `ConsumerCatchesUp`) and `ENABLED`. No module uses a `RECURSIVE`
operator; recursive functions replace them.

## Not modelled

- Threads. `RaftServerNode` has no lock around the node; `Raft` takes handlers as
  atomic, which is what the simulator does.
- Time: `can_serve_linearizable_read` (leases) and the exact length of timeouts.
- In `Raft`, restart of the TCP server with a snapshot file; `DurableRaftLog` has it,
  for one server in an abstract cluster.
- Threads inside a broker operation: `produce`, `fetch`, a sweep, and the check, the
  assignment and the write of the file of a commit are one step each.
- Loss of power: records are not synced by default, group offsets are, so that a
  committed offset may lie above the end of the log (`broker.py:102`).
- Writes that fail or are short while the process goes on: `append_entry` changes the
  mirror before the disk (`durable_log.py:43-44`), and `Segment.append` ignores the
  count that `write` returns (`log.py:180`).
- The commit log's sidecar index (written, never read), timestamps, handles,
  mmap; loss of unsynced writes in any other form than `damage`.
- Wire format, JSON, base64, HTTP routing, metrics, command line.

## Plan

Done: the Raft node and its log, the commit log and its abstract specification,
the durable log, the broker, liveness of replication and of consumers; proofs of
election safety, log matching and commit safety of Raft, and of the commit log with
its refinement, the durable log and the broker. Left, in this order:

1. Proofs: the Raft theorems with configuration changes (`ConfigFixed` replaced by the
   configurations a log has applied) and with snapshots.
2. `RaftServer`: the threads of `server.py` around one node, vote and save as
   separate steps, calls that wait on each other.
3. Leases: a bounded clock, and whether a read under a lease is current.
