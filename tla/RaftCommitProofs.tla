-------------------------- MODULE RaftCommitProofs --------------------------
(***************************************************************************)
(* Commit safety of Raft: what one server has committed no server loses or *)
(* contradicts, for every cluster and every schedule, where nobody changes *)
(* the configuration, no log is compacted, a restart is that of the TCP    *)
(* server, and an append has room for any log that the bounds allow, so    *)
(* that it carries the entries up to the commit index it tells (see the    *)
(* run with batches of one entry for what happens otherwise).              *)
(*                                                                         *)
(* The inductive invariant speaks of a history h that the program does not *)
(* keep: h[t] is the log of the leader of term t, as long as it got.  The  *)
(* history is quantified in the invariant; every step shows how to extend  *)
(* it.                                                                     *)
(***************************************************************************)
EXTENDS RaftMatchingProofs

\* Every append carries the entries up to the commit index it tells.  (One
\* whose previous entry its leader did not have is never accepted.)
CommitCarried ==
  \A m \in msgs : m.type = "append" /\ m.prev_term # -1 =>
    m.commit <= m.prev_index + Len(m.entries)

\* The limit of an append is longer than any log that the bounds allow.
WholeLogs == MaxLog + MaxTerm <= MaxBatch

\* The restart of sim.py takes the whole log for committed.
HonestRestart == Restartable = {} \/ ~SimRestart

-----------------------------------------------------------------------------
(* Entries, votes and acknowledgements *)

Entries(i) == node[i].log.entries
HasAt(E, k, t) == k \in 1..Len(E) /\ E[k].term = t

\* Two sequences are the same up to k.
SameTo(E, G, k) == k <= Len(E) /\ k <= Len(G) /\ \A l \in 1..k : E[l] = G[l]

Won(t) == \E x \in Server : <<t, x>> \in elected

WonNext(t) == \E x \in Server : <<t, x>> \in elected'

\* Every entry of E was made by the leader of its term, on the log it had.
FromHist(h, E) == \A k \in 1..Len(E) : Won(E[k].term) /\ SameTo(E, h[E[k].term], k)

\* Terms never fall along E, and stay within t.
Rising(E, t) == \A b \in 1..Len(E) : E[b].term <= t /\ \A a \in 1..b : E[a].term <= E[b].term

\* The leader of term t made an entry at index k.
Made(h, k, t) == Won(t) /\ HasAt(h[t], k, t)

AckOf(m, q, t, k) ==
  m.type = "append_resp" /\ m.success /\ m.from = q /\ m.term = t /\ m.match >= k

\* q is the leader of term t, or has told it that it has the log up to k.
Acked(q, t, k) == <<t, q>> \in elected \/ \E m \in msgs : AckOf(m, q, t, k)

Majority(Q) == Q \in SUBSET Server /\ MoreThanHalf(Cardinality(Q), Server)

\* The entry that the leader of t made at k may be committed.
Chosen(k, t) == \E Q : Majority(Q) /\ \A q \in Q : Acked(q, t, k)

\* It never will: a majority has left the term without acknowledging it.
Doomed(k, t) == \E Q : Majority(Q) /\ \A q \in Q : current_term[q] > t /\ ~Acked(q, t, k)

-----------------------------------------------------------------------------
(* The inductive invariant *)

\* A leader takes proposals up to MaxLog, and adds one entry when it is elected.
HistOK(h) ==
  /\ h \in [Nat -> Seq(EntryOf(Payload))]
  /\ \A t \in Nat : Won(t) =>
       FromHist(h, h[t]) /\ Rising(h[t], t) /\ Len(h[t]) <= MaxLog + t

\* A leader's log is the history of its term.
LogsOK(h) ==
  \A i \in Server :
    /\ FromHist(h, Entries(i))
    /\ \A k \in 1..Len(Entries(i)) : Entries(i)[k].term <= current_term[i]
    /\ role[i] = Leader => h[current_term[i]] = Entries(i)
    /\ node[i].log.snapshot_last_index = 0

\* What is committed of E is a part of the history of a term t up to u, below
\* an entry of that term that may be committed.
Committed(h, E, c, u) ==
  c = 0 \/ \E k, t \in Nat :
    c <= k /\ t <= u /\ Made(h, k, t) /\ Chosen(k, t) /\ SameTo(E, h[t], c)

\* An append is a part of the history of its term.
Segment(m, G) ==
  /\ m.prev_index + Len(m.entries) <= Len(G)
  /\ \A j \in 1..Len(m.entries) : m.entries[j] = G[m.prev_index + j]
  /\ m.prev_index > 0 => G[m.prev_index].term = m.prev_term

AppendOK(h, m) ==
  m.type = "append" =>
    /\ Won(m.term)
    /\ m.prev_term # -1 => Segment(m, h[m.term]) /\ Committed(h, h[m.term], m.commit, m.term)
AppendsOK(h) == \A m \in msgs : AppendOK(h, m)

\* An acknowledgement stays true as long as its sender is in the term.
AckOK(h, m) ==
  m.type = "append_resp" /\ m.success =>
    /\ Won(m.term) /\ m.match <= Len(h[m.term]) /\ m.term <= current_term[m.from]
    /\ m.term = current_term[m.from] => SameTo(Entries(m.from), h[m.term], m.match)
AcksOK(h) == \A m \in msgs : AckOK(h, m)

\* What a leader believes of its peers they have told it.
MatchOK ==
  \A i, p \in Server : role[i] = Leader =>
    \/ node[i].match_index[p] = 0
    \/ \E m \in msgs : AckOf(m, p, current_term[i], node[i].match_index[p])

\* A request for votes shows the log of the candidate as it still is.
RequestsOK ==
  \A m \in msgs : m.type = "vote" =>
    /\ m.term <= current_term[m.candidate]
    /\ role[m.candidate] = Candidate /\ current_term[m.candidate] = m.term =>
         <<m.last_term, m.last_index>> = Progress(node[m.candidate].log)

BallotsOK == \A q, c \in Server, u \in Nat : VoteMsg(q, u, c) \in msgs => u <= current_term[c]

\* A later leader that lacks an entry shows that it will never be committed.
LaterLeaders(h) ==
  \A t, u, k \in Nat : Made(h, k, t) /\ Won(u) /\ t < u /\ ~HasAt(h[u], k, t) => Doomed(k, t)

\* Who has acknowledged an entry keeps it, unless it is doomed.
Keepers(h) ==
  \A q \in Server : \A t, k \in Nat :
    Made(h, k, t) /\ Acked(q, t, k) => HasAt(Entries(q), k, t) \/ Doomed(k, t)

\* Who has a vote of one that acknowledged an entry has the entry.
Voters(h) ==
  \A q, c \in Server : \A t, k \in Nat :
    /\ role[c] = Candidate /\ VoteMsg(q, current_term[c], c) \in msgs /\ t < current_term[c]
    /\ Made(h, k, t) /\ Acked(q, t, k)
    => HasAt(Entries(c), k, t) \/ Doomed(k, t)

CommitOK(h) ==
  \A i \in Server : Committed(h, Entries(i), node[i].commit_index, current_term[i])

\* The commands of the first n entries.
Commands(E, n) ==
  {<<k, E[k].payload.value>> : k \in {x \in 1..n : E[x].payload.kind = "cmd"}}

AppliedOK ==
  \A i \in Server :
    /\ node[i].applied_index <= node[i].commit_index
    /\ node[i].state_machine = Commands(Entries(i), node[i].applied_index)

Recorded(h) ==
  /\ HistOK(h) /\ LogsOK(h) /\ AppendsOK(h) /\ AcksOK(h)
  /\ MatchOK /\ RequestsOK /\ BallotsOK
  /\ LaterLeaders(h) /\ Keepers(h) /\ Voters(h)
  /\ CommitOK(h) /\ AppliedOK

CommitInv == \E h : Recorded(h)

-----------------------------------------------------------------------------
(* Sequences that are the same *)

LEMMA SameToLess ==
  ASSUME NEW E, NEW G, NEW k \in Nat, NEW l \in Nat, l <= k,
         Len(E) \in Nat, Len(G) \in Nat, SameTo(E, G, k)
  PROVE  SameTo(E, G, l)
BY DEF SameTo

LEMMA SameToSymmetric ==
  ASSUME NEW E, NEW G, NEW k, SameTo(E, G, k)
  PROVE  SameTo(G, E, k)
BY DEF SameTo

LEMMA SameToTransitive ==
  ASSUME NEW E, NEW F, NEW G, NEW k, SameTo(E, F, k), SameTo(F, G, k)
  PROVE  SameTo(E, G, k)
BY DEF SameTo

LEMMA SameToItself ==
  ASSUME NEW E, NEW k \in Nat, Len(E) \in Nat, k <= Len(E)
  PROVE  SameTo(E, E, k)
BY DEF SameTo

\* An entry that E has at k, G has.
LEMMA SameToHas ==
  ASSUME NEW E, NEW G, NEW k \in Nat, NEW j \in Nat, NEW t, Len(E) \in Nat, Len(G) \in Nat,
         SameTo(E, G, k), j <= k, HasAt(E, j, t)
  PROVE  HasAt(G, j, t)
BY DEF SameTo, HasAt

-----------------------------------------------------------------------------
(* Majorities *)

LEMMA MajoritiesMeet ==
  ASSUME NEW Q, NEW R, Majority(Q), Majority(R)
  PROVE  \E q \in Server : q \in Q /\ q \in R
<1>1. /\ Cardinality(Q) \in Nat /\ Cardinality(R) \in Nat
      /\ Cardinality(Server) \in Nat
  BY FS_Subset, FS_CardinalityType, ServerAssumption DEF Majority
<1>2. Cardinality(Q) + Cardinality(R) > Cardinality(Server)
  BY <1>1 DEF MoreThanHalf, Majority
<1>3. Q \in SUBSET Server /\ R \in SUBSET Server
  BY DEF Majority
<1>4. Q \cap R # {}
  BY <1>2, <1>3, FS_MajoritiesIntersect, ServerAssumption
<1> QED  BY <1>3, <1>4

LEMMA LargerMajority ==
  ASSUME NEW Q, NEW R, Majority(Q), R \in SUBSET Server, Q \subseteq R
  PROVE  Majority(R)
<1>1. IsFiniteSet(R) /\ IsFiniteSet(Q)
  BY FS_Subset, ServerAssumption DEF Majority
<1>2. Cardinality(Q) <= Cardinality(R) /\ Cardinality(Q) \in Nat /\ Cardinality(R) \in Nat
      /\ Cardinality(Server) \in Nat
  BY <1>1, FS_Subset, FS_CardinalityType, ServerAssumption
<1> QED  BY <1>2 DEF Majority, MoreThanHalf

LEMMA ChosenNotDoomed ==
  ASSUME NEW k, NEW t, Chosen(k, t)
  PROVE  ~Doomed(k, t)
<1> SUFFICES ASSUME Doomed(k, t) PROVE FALSE
  OBVIOUS
<1>1. PICK Q : Majority(Q) /\ \A q \in Q : Acked(q, t, k)
  BY DEF Chosen
<1>2. PICK R : Majority(R) /\ \A q \in R : current_term[q] > t /\ ~Acked(q, t, k)
  BY DEF Doomed
<1> QED  BY <1>1, <1>2, MajoritiesMeet

-----------------------------------------------------------------------------
(* What a step of server i does, whatever it is *)

\* A message that is sent: an append of a leader, a request for votes, a vote.
Sent(i, m) ==
  /\ m.type = "append" =>
       role'[i] = Leader /\ \E p \in Server : m = SendAppend(i, node'[i], current_term'[i], p)
  /\ m.type = "vote" =>
       /\ m.candidate = i /\ m.term = current_term'[i] /\ current_term[i] < current_term'[i]
       /\ <<m.last_term, m.last_index>> = Progress(node'[i].log)
  /\ m.type = "vote_resp" /\ m.granted =>
       /\ m.from = i /\ m.term = current_term'[i]
       /\ \E r \in msgs : /\ r.type = "vote" /\ r.candidate = m.dest /\ r.term = m.term
                          /\ UpToDate(r, node[i].log)

Frame(i) ==
  /\ \A j \in Server \ {i} :
       node'[j] = node[j] /\ role'[j] = role[j] /\ current_term'[j] = current_term[j]
  /\ current_term[i] <= current_term'[i]
  /\ node'[i].log.snapshot_last_index = node[i].log.snapshot_last_index
  /\ msgs \subseteq msgs'
  /\ \A m \in msgs' : m \in msgs \/ Sent(i, m)
  /\ role'[i] = Candidate =>
       /\ node'[i].log = node[i].log
       /\ \/ role[i] = Candidate /\ current_term'[i] = current_term[i]
          \/ current_term[i] < current_term'[i]

\* No acknowledgement but of i, in its term; nobody is elected but i, in its term.
Acks(i) ==
  \A m \in msgs' : m.type = "append_resp" /\ m.success =>
    m \in msgs \/ (m.from = i /\ m.term = current_term'[i])
Elects(i) ==
  elected \subseteq elected' /\ \A e \in elected' : e \in elected \/ e = <<current_term'[i], i>>

\* An entry that i has just made, and that nobody else has acknowledged.
Fresh(i, k, t) ==
  /\ role'[i] = Leader /\ t = current_term'[i] /\ HasAt(node'[i].log.entries, k, t)
  /\ \A m \in msgs' : ~(m.type = "append_resp" /\ m.success /\ m.term = t /\ m.match >= k)

\* The history grows, by entries that i makes.
Extends(h, h2, i) ==
  /\ h \in [Nat -> Seq(EntryOf(Payload))] /\ h2 \in [Nat -> Seq(EntryOf(Payload))]
  /\ \A t \in Nat : Won(t) => SameTo(h[t], h2[t], Len(h[t]))
  /\ \A k, t \in Nat : Made(h2, k, t)' => Made(h, k, t) \/ Fresh(i, k, t)

Moves(h, h2, i) == Frame(i) /\ Acks(i) /\ Elects(i) /\ Extends(h, h2, i)

LEMMA HistLen ==
  ASSUME NEW h \in [Nat -> Seq(EntryOf(Payload))], NEW t \in Nat
  PROVE  h[t] \in Seq(EntryOf(Payload)) /\ Len(h[t]) \in Nat
<1>1. h[t] \in Seq(EntryOf(Payload))
  OBVIOUS
<1> QED  BY <1>1, LenProperties

LEMMA EntriesType ==
  ASSUME TypeOK, NEW i \in Server
  PROVE  Entries(i) \in Seq(EntryOf(Payload)) /\ Len(Entries(i)) \in Nat
BY NodeFields, ReadType DEF TypeOK, Entries

LEMMA EntryFields ==
  ASSUME NEW E \in Seq(EntryOf(Payload)), NEW k \in 1..Len(E)
  PROVE  E[k] \in EntryOf(Payload) /\ E[k].term \in Nat /\ E[k].payload \in Payload
<1>1. E[k] \in EntryOf(Payload)
  BY ElementOfSeq
<1> QED  BY <1>1 DEF EntryOf

LEMMA WonKept ==
  ASSUME NEW i \in Server, Elects(i), NEW t, Won(t)
  PROVE  Won(t)'
BY DEF Elects, Won

LEMMA MadeKept ==
  ASSUME NEW h, NEW h2, NEW i \in Server, Moves(h, h2, i), NEW k \in Nat, NEW t \in Nat,
         Made(h, k, t)
  PROVE  Made(h2, k, t)'
<1>1. Won(t)'
  BY WonKept DEF Made, Moves
<1>2. Len(h[t]) \in Nat /\ Len(h2[t]) \in Nat
  BY HistLen DEF Moves, Extends
<1>3. SameTo(h[t], h2[t], Len(h[t])) /\ HasAt(h[t], k, t)
  BY DEF Moves, Extends, Made
<1>4. k <= Len(h[t])
  BY <1>2, <1>3 DEF HasAt
<1>5. HasAt(h2[t], k, t)
  BY <1>2, <1>3, <1>4, SameToHas
<1> QED  BY <1>1, <1>5 DEF Made

LEMMA AckedKept ==
  ASSUME NEW i \in Server, Frame(i), Elects(i), NEW q, NEW t, NEW k, Acked(q, t, k)
  PROVE  Acked(q, t, k)'
BY DEF Frame, Elects, Acked, AckOf

LEMMA AckedBefore ==
  ASSUME NEW i \in Server, Acks(i), Elects(i), NEW q, NEW t, NEW k, Acked(q, t, k)'
  PROVE  Acked(q, t, k) \/ (q = i /\ t = current_term'[i])
<1>1. CASE <<t, q>> \in elected'
  BY <1>1 DEF Elects, Acked
<1>2. CASE \E m \in msgs' : AckOf(m, q, t, k)
  BY <1>2 DEF Acks, Acked, AckOf
<1> QED  BY <1>1, <1>2 DEF Acked

LEMMA ChosenKept ==
  ASSUME NEW i \in Server, Frame(i), Elects(i), NEW k, NEW t, Chosen(k, t)
  PROVE  Chosen(k, t)'
<1>1. PICK Q : Majority(Q) /\ \A q \in Q : Acked(q, t, k)
  BY DEF Chosen
<1>2. \A q \in Q : Acked(q, t, k)'
  BY <1>1, AckedKept
<1> QED  BY <1>1, <1>2 DEF Chosen, Majority

LEMMA TermsGrow ==
  ASSUME TypeOK, TypeOK', NEW i \in Server, Frame(i), NEW q \in Server
  PROVE  current_term[q] \in Nat /\ current_term'[q] \in Nat /\ current_term[q] <= current_term'[q]
<1>1. current_term[q] \in Nat /\ current_term'[q] \in Nat
  BY DEF TypeOK
<1>2. q # i => current_term'[q] = current_term[q]
  BY DEF Frame
<1>3. q = i => current_term[q] <= current_term'[q]
  BY DEF Frame
<1> QED  BY <1>1, <1>2, <1>3

LEMMA DoomedKept ==
  ASSUME TypeOK, TypeOK', NEW i \in Server, Frame(i), Acks(i), Elects(i),
         NEW k, NEW t \in Nat, Doomed(k, t)
  PROVE  Doomed(k, t)'
<1>1. PICK Q : Majority(Q) /\ \A q \in Q : current_term[q] > t /\ ~Acked(q, t, k)
  BY DEF Doomed
<1>2. ASSUME NEW q \in Q
      PROVE  current_term'[q] > t /\ ~Acked(q, t, k)'
  <2>1. q \in Server
    BY <1>1 DEF Majority
  <2>2. current_term'[q] > t
    BY <1>1, <2>1, TermsGrow
  <2>3. ~(q = i /\ t = current_term'[i])
    BY <2>2
  <2> QED  BY <1>1, <2>2, <2>3, AckedBefore
<1> QED  BY <1>1, <1>2 DEF Doomed, Majority

-----------------------------------------------------------------------------
(* Votes: the up-to-date check *)

LEMMA LogReads ==
  ASSUME TypeOK, MatchingInv, NEW h, LogsOK(h), NEW i \in Server
  PROVE  LET n == Len(Entries(i))
         IN  /\ n = 0 => Progress(node[i].log) = <<0, 0>>
             /\ n # 0 => Progress(node[i].log) = <<Entries(i)[n].term, n>>
<1> DEFINE l == node[i].log
           n == Len(l.entries)
<1>1. l \in LogOf(Payload) /\ NumberedLog(0, l)
  BY LogType
<1>2. \A x \in Nat : LastIndex(l) = n
  BY <1>1, TermAtReads
<1>3. LastIndex(l) = n
  BY <1>2
<1>4. l.snapshot_last_index = 0
  BY DEF LogsOK
<1>5. Progress(l) = <<LastTerm(l), LastIndex(l)>>
  BY <1>4 DEF Progress
<1>6. l.entries \in Seq(EntryOf(Payload)) /\ n \in Nat
  BY <1>1, ReadType
<1>7. n = 0 <=> l.entries = << >>
  BY <1>6, EmptySeq
<1>8. n = 0 => LastTerm(l) = 0
  BY <1>7 DEF LastTerm
<1>9. n # 0 => LastTerm(l) = l.entries[n].term
  BY <1>7 DEF LastTerm
<1> QED  BY <1>3, <1>5, <1>8, <1>9 DEF Entries

\* A log is a part of the history of the term of its last entry.
LEMMA LogIsPast ==
  ASSUME TypeOK, NEW h, HistOK(h), LogsOK(h), NEW i \in Server, Len(Entries(i)) # 0
  PROVE  LET n == Len(Entries(i))
             t == Entries(i)[n].term
         IN  /\ n \in Nat \ {0} /\ t \in Nat /\ Won(t)
             /\ SameTo(Entries(i), h[t], n) /\ Rising(h[t], t) /\ Len(h[t]) \in Nat
             /\ h[t] \in Seq(EntryOf(Payload))
<1> DEFINE n == Len(Entries(i))
           t == Entries(i)[n].term
<1>1. Entries(i) \in Seq(EntryOf(Payload)) /\ n \in Nat
  BY EntriesType
<1>2. n \in 1..n
  BY <1>1
<1>3. t \in Nat
  BY <1>1, <1>2, EntryFields
<1>4. Won(t) /\ SameTo(Entries(i), h[t], n)
  BY <1>2 DEF LogsOK, FromHist
<1>5. Rising(h[t], t) /\ h \in [Nat -> Seq(EntryOf(Payload))]
  BY <1>3, <1>4 DEF HistOK
<1>6. Len(h[t]) \in Nat /\ h[t] \in Seq(EntryOf(Payload))
  BY <1>3, <1>5, HistLen
<1> QED  BY <1>1, <1>2, <1>3, <1>4, <1>5, <1>6

\* A candidate that is as up to date as one who has an entry has it too.
LEMMA UpToDateHas ==
  ASSUME TypeOK, MatchingInv, NEW h, HistOK(h), LogsOK(h), LaterLeaders(h),
         NEW i \in Server, NEW c \in Server, NEW k \in Nat, NEW t \in Nat,
         Made(h, k, t), HasAt(Entries(i), k, t),
         NEW r, <<r.last_term, r.last_index>> = Progress(node[c].log), UpToDate(r, node[i].log)
  PROVE  HasAt(Entries(c), k, t) \/ Doomed(k, t)
<1> DEFINE L == Entries(i)
           C == Entries(c)
           a == Len(L)
           n == Len(C)
<1>1. L \in Seq(EntryOf(Payload)) /\ a \in Nat /\ C \in Seq(EntryOf(Payload)) /\ n \in Nat
  BY EntriesType
<1>2. a # 0 /\ k \in 1..a /\ k <= a
  BY <1>1 DEF HasAt
<1> DEFINE s == L[a].term
<1>3. /\ s \in Nat /\ SameTo(L, h[s], a) /\ Rising(h[s], s) /\ Len(h[s]) \in Nat
  BY <1>2, LogIsPast
<1>4. t <= s
  <2>1. h[s][k] = L[k] /\ h[s][a] = L[a] /\ L[k].term = t /\ a \in 1..Len(h[s]) /\ k \in 1..a
    BY <1>1, <1>2, <1>3 DEF SameTo, HasAt
  <2>2. h[s][k].term <= h[s][a].term
    BY <1>3, <2>1 DEF Rising
  <2> QED  BY <2>1, <2>2
<1>5. Progress(node[i].log) = <<s, a>>
  BY <1>2, LogReads
<1> HIDE DEF s
<1>6. r.last_term > s \/ (r.last_term = s /\ r.last_index >= a)
  BY <1>5 DEF UpToDate
<1>7. n # 0
  <2> SUFFICES ASSUME n = 0 PROVE FALSE
    OBVIOUS
  <2>1. r.last_term = 0 /\ r.last_index = 0
    BY LogReads
  <2> HIDE DEF a, n
  <2> QED  BY <1>1, <1>2, <1>3, <1>6, <2>1
<1> DEFINE u == C[n].term
<1>8. r.last_term = u /\ r.last_index = n
  BY <1>7, LogReads
<1>9. /\ u \in Nat /\ Won(u) /\ SameTo(C, h[u], n) /\ Rising(h[u], u) /\ Len(h[u]) \in Nat
      /\ h[u] \in Seq(EntryOf(Payload))
  BY <1>7, LogIsPast
<1>10. CASE u > t
  <2> SUFFICES ASSUME ~HasAt(C, k, t) PROVE Doomed(k, t)
    OBVIOUS
  <2>1. ASSUME HasAt(h[u], k, t) PROVE FALSE
    <3>1. CASE k <= n
      BY <1>1, <1>9, <2>1, <3>1, SameToSymmetric, SameToHas
    <3>2. CASE n < k
      <4>1. /\ n \in 1..k /\ k \in 1..Len(h[u]) /\ h[u][n] = C[n] /\ h[u][k].term = t
        BY <1>1, <1>7, <1>9, <2>1, <3>2 DEF SameTo, HasAt
      <4>2. h[u][n].term <= h[u][k].term
        BY <1>9, <4>1 DEF Rising
      <4>3. u <= t
        BY <4>1, <4>2
      <4> HIDE DEF u
      <4> QED  BY <1>9, <1>10, <4>3
    <3> HIDE DEF n
    <3> QED  BY <1>1, <3>1, <3>2
  <2> HIDE DEF u
  <2>2. t < u
    BY <1>9, <1>10
  <2> QED  BY <1>9, <2>1, <2>2 DEF LaterLeaders
<1>11. CASE ~(u > t)
  <2>1. u = t /\ n >= a
    <3> HIDE DEF u, n, a
    <3> QED  BY <1>1, <1>3, <1>4, <1>6, <1>8, <1>9, <1>11
  <2>2. k <= n
    <3> HIDE DEF u, n, a
    <3> QED  BY <1>1, <1>2, <2>1
  <2>3. SameTo(h[t], C, n)
    BY <1>9, <2>1, SameToSymmetric
  <2>4. HasAt(h[t], k, t) /\ Len(h[t]) \in Nat
    BY <1>9, <2>1 DEF Made
  <2> QED  BY <1>1, <2>2, <2>3, <2>4, SameToHas
<1> QED  BY <1>10, <1>11

-----------------------------------------------------------------------------
(* Entries that were made stay where they were acknowledged *)

\* A fresh entry has been acknowledged by its leader alone.
LEMMA FreshAcked ==
  ASSUME NEW i \in Server, MatchingInv', ElectionSafety', NEW k, NEW t, Fresh(i, k, t),
         NEW q, Acked(q, t, k)'
  PROVE  q = i
<1>1. <<t, i>> \in elected'
  BY DEF Fresh, MatchingInv, LeaderHas
<1>2. <<t, q>> \in elected'
  BY DEF Fresh, Acked, AckOf
<1> QED  BY <1>1, <1>2 DEF ElectionSafety

\* Who voted has reached the term; so has who was elected.
LEMMA VotersPast ==
  ASSUME TypeOK', ElectionInv', NEW u \in Nat, Won(u)'
  PROVE  \E Q : Majority(Q) /\ \A q \in Q : q \in Server /\ u <= current_term'[q]
<1>1. PICK x \in Server : <<u, x>> \in elected'
  BY DEF Won
<1>2. PICK Q \in SUBSET Server :
        /\ MoreThanHalf(Cardinality(Q), Server)
        /\ \A q \in Q : q = x \/ VoteMsg(q, u, x) \in msgs'
  BY <1>1 DEF ElectionInv, ElectedQuorum
<1>3. u <= current_term'[x]
  BY <1>1 DEF ElectionInv, LeaderPast
<1>4. \A q \in Q : VoteMsg(q, u, x) \in msgs' => u <= current_term'[q]
  BY <1>2 DEF ElectionInv, BallotPast
<1>5. Majority(Q) /\ \A q \in Q : q \in Server /\ u <= current_term'[q]
  BY <1>2, <1>3, <1>4 DEF Majority
<1> QED  BY <1>5

LEMMA KeepersStep ==
  ASSUME TypeOK, TypeOK', MatchingInv', ElectionSafety', NEW h, NEW h2, NEW i \in Server,
         Moves(h, h2, i), Keepers(h),
         \A k, t \in Nat : Made(h, k, t) /\ HasAt(Entries(i), k, t) =>
           HasAt(node'[i].log.entries, k, t) \/ Doomed(k, t),
         \A k, t \in Nat : Made(h, k, t) /\ Acked(i, t, k)' =>
           Acked(i, t, k) \/ HasAt(node'[i].log.entries, k, t)
  PROVE  Keepers(h2)'
<1> SUFFICES ASSUME NEW q \in Server, NEW t \in Nat, NEW k \in Nat,
                    Made(h2, k, t)', Acked(q, t, k)'
             PROVE  HasAt(node'[q].log.entries, k, t) \/ Doomed(k, t)'
  BY DEF Keepers, Entries
<1>1. CASE Fresh(i, k, t)
  BY <1>1, FreshAcked DEF Fresh
<1>2. CASE Made(h, k, t)
  <2>1. Doomed(k, t) => Doomed(k, t)'
    BY DoomedKept DEF Moves
  <2>2. CASE q = i
    <3>1. CASE Acked(i, t, k)
      BY <1>2, <2>1, <2>2, <3>1 DEF Keepers
    <3>2. CASE HasAt(node'[i].log.entries, k, t)
      BY <2>2, <3>2
    <3> QED  BY <1>2, <2>2, <3>1, <3>2
  <2>3. CASE q # i
    <3>1. Acked(q, t, k)
      BY <2>3, AckedBefore DEF Moves
    <3>2. node'[q] = node[q]
      BY <2>3 DEF Moves, Frame
    <3> QED  BY <1>2, <2>1, <3>1, <3>2 DEF Keepers, Entries
  <2> QED  BY <2>2, <2>3
<1> QED  BY <1>1, <1>2 DEF Moves, Extends

LEMMA VotersStep ==
  ASSUME TypeOK, TypeOK', MatchingInv, MatchingInv', ElectionInv, ElectionInv',
         ElectionSafety', NEW h, NEW h2, NEW i \in Server,
         Moves(h, h2, i), HistOK(h), LogsOK(h), RequestsOK, BallotsOK,
         LaterLeaders(h), Keepers(h), Voters(h)
  PROVE  Voters(h2)'
<1> SUFFICES ASSUME NEW q \in Server, NEW c \in Server, NEW t \in Nat, NEW k \in Nat,
                    role'[c] = Candidate, VoteMsg(q, current_term'[c], c) \in msgs',
                    t < current_term'[c], Made(h2, k, t)', Acked(q, t, k)'
             PROVE  HasAt(node'[c].log.entries, k, t) \/ Doomed(k, t)'
  BY DEF Voters, Entries
<1> DEFINE u == current_term'[c]
<1>1. u \in Nat /\ current_term[c] \in Nat /\ current_term'[i] \in Nat
  BY DEF TypeOK
<1>2. u <= current_term'[q] /\ current_term'[q] \in Nat
  BY <1>1 DEF ElectionInv, BallotPast, TypeOK
<1>3. ~(q = i /\ t = current_term'[i])
  BY <1>1, <1>2
<1>4. CASE Fresh(i, k, t)
  BY <1>3, <1>4, FreshAcked DEF Fresh
<1>5. CASE Made(h, k, t)
  <2>1. Acked(q, t, k)
    BY <1>3, AckedBefore DEF Moves
  <2>2. Doomed(k, t) => Doomed(k, t)'
    BY DoomedKept DEF Moves
  <2>3. \/ role[c] = Candidate /\ current_term[c] = u
        \/ c = i /\ current_term[c] < u
    BY DEF Moves, Frame
  <2>4. node'[c].log = node[c].log
    BY DEF Moves, Frame
  <2>5. CASE VoteMsg(q, u, c) \in msgs
    <3>1. u <= current_term[c]
      BY <1>1, <2>5 DEF BallotsOK
    <3>2. role[c] = Candidate /\ current_term[c] = u
      BY <1>1, <2>3, <3>1
    <3>3. HasAt(Entries(c), k, t) \/ Doomed(k, t)
      BY <1>5, <2>1, <2>5, <3>2 DEF Voters
    <3> QED  BY <2>2, <2>4, <3>3 DEF Entries
  <2>6. CASE VoteMsg(q, u, c) \notin msgs
    <3>1. Sent(i, VoteMsg(q, u, c))
      BY <2>6 DEF Moves, Frame
    <3>2. /\ q = i
          /\ \E r \in msgs : r.type = "vote" /\ r.candidate = c /\ r.term = u
                             /\ UpToDate(r, node[i].log)
      BY <3>1 DEF Sent, VoteMsg
    <3>3. PICK r \in msgs : r.type = "vote" /\ r.candidate = c /\ r.term = u
                            /\ UpToDate(r, node[i].log)
      BY <3>2
    <3>4. u <= current_term[c]
      BY <3>3 DEF RequestsOK
    <3>5. role[c] = Candidate /\ current_term[c] = u
      BY <1>1, <2>3, <3>4
    <3>6. <<r.last_term, r.last_index>> = Progress(node[c].log)
      BY <3>3, <3>5 DEF RequestsOK
    <3>7. HasAt(Entries(i), k, t) \/ Doomed(k, t)
      BY <1>5, <2>1, <3>2 DEF Keepers
    <3>8. HasAt(Entries(c), k, t) \/ Doomed(k, t)
      BY <1>5, <3>3, <3>6, <3>7, UpToDateHas
    <3> QED  BY <2>2, <2>4, <3>8 DEF Entries
  <2> QED  BY <2>5, <2>6
<1> QED  BY <1>4, <1>5 DEF Moves, Extends

\* Server i has become leader of its term, on the log it had, without a new vote
\* or acknowledgement.
NewLeader(h2, i) ==
  /\ SameTo(Entries(i), h2[current_term'[i]], Len(Entries(i)))
  /\ \/ role[i] = Candidate /\ current_term[i] = current_term'[i]
     \/ current_term[i] < current_term'[i]
  /\ \A m \in msgs' : m.type = "vote_resp" /\ m.granted => m \in msgs

LEMMA LaterLeadersStep ==
  ASSUME TypeOK, TypeOK', MatchingInv', ElectionInv, ElectionInv', ElectionSafety',
         NEW h, NEW h2, NEW i \in Server, Moves(h, h2, i),
         BallotsOK, LaterLeaders(h), Keepers(h), Voters(h),
         ~Won(current_term'[i]) /\ WonNext(current_term'[i]) => NewLeader(h2, i)
  PROVE  LaterLeaders(h2)'
<1> SUFFICES ASSUME NEW t \in Nat, NEW u \in Nat, NEW k \in Nat,
                    Made(h2, k, t)', Won(u)', t < u, ~HasAt(h2[u], k, t)
             PROVE  Doomed(k, t)'
  BY DEF LaterLeaders
<1>1. /\ current_term'[i] \in Nat /\ current_term[i] \in Nat
      /\ Len(h[u]) \in Nat /\ Len(h2[u]) \in Nat
  BY HistLen DEF TypeOK, Moves, Extends
<1>2. CASE Fresh(i, k, t)
  <2>1. PICK Q : Majority(Q) /\ \A q \in Q : q \in Server /\ u <= current_term'[q]
    BY VotersPast
  <2>2. \A q \in Q : current_term'[q] > t
    <3> TAKE q \in Q
    <3>1. q \in Server /\ current_term'[q] \in Nat /\ u <= current_term'[q]
      BY <2>1 DEF TypeOK
    <3> QED  BY <3>1
  <2>3. \A q \in Q : ~Acked(q, t, k)'
    BY <1>2, <2>2, FreshAcked DEF Fresh
  <2> QED  BY <2>1, <2>2, <2>3 DEF Doomed, Majority
<1>3. CASE Made(h, k, t) /\ Won(u)
  <2>1. ~HasAt(h[u], k, t)
    <3> SUFFICES ASSUME HasAt(h[u], k, t) PROVE FALSE
      OBVIOUS
    <3>1. SameTo(h[u], h2[u], Len(h[u])) /\ k <= Len(h[u])
      BY <1>1, <1>3 DEF Moves, Extends, HasAt
    <3> QED  BY <1>1, <3>1, SameToHas
  <2>2. Doomed(k, t)
    BY <1>3, <2>1 DEF LaterLeaders
  <2> QED  BY <2>2, DoomedKept DEF Moves
<1>4. CASE Made(h, k, t) /\ ~Won(u)
  <2>1. u = current_term'[i] /\ <<u, i>> \in elected'
    BY <1>4 DEF Won, Moves, Elects
  <2>2. NewLeader(h2, i)
    BY <1>4, <2>1 DEF WonNext
  <2>3. ~HasAt(Entries(i), k, t)
    <3> SUFFICES ASSUME HasAt(Entries(i), k, t) PROVE FALSE
      OBVIOUS
    <3>1. Len(Entries(i)) \in Nat
      BY EntriesType
    <3>2. k <= Len(Entries(i)) /\ SameTo(Entries(i), h2[u], Len(Entries(i)))
      BY <2>1, <2>2, <3>1 DEF NewLeader, HasAt
    <3> QED  BY <1>1, <3>1, <3>2, SameToHas
  <2>4. CASE Doomed(k, t)
    BY <2>4, DoomedKept DEF Moves
  <2>5. CASE ~Doomed(k, t)
    <3>1. PICK Q \in SUBSET Server :
            /\ MoreThanHalf(Cardinality(Q), Server)
            /\ \A q \in Q : q = i \/ VoteMsg(q, u, i) \in msgs'
      BY <2>1 DEF ElectionInv, ElectedQuorum
    <3>2. ASSUME NEW q \in Q
          PROVE  current_term'[q] > t /\ ~Acked(q, t, k)'
      <4>1. q \in Server /\ current_term'[q] \in Nat
        BY DEF TypeOK
      <4>2. u <= current_term'[q]
        BY <2>1, <3>1, <4>1 DEF ElectionInv, BallotPast
      <4>3. ~Acked(q, t, k)
        <5>1. CASE q = i
          BY <1>4, <2>3, <2>5, <5>1 DEF Keepers
        <5>2. CASE VoteMsg(q, u, i) \in msgs'
          <6>1. VoteMsg(q, u, i) \in msgs
            BY <2>2, <5>2 DEF NewLeader, VoteMsg
          <6>2. u <= current_term[i]
            BY <4>1, <6>1 DEF BallotsOK
          <6>3. role[i] = Candidate /\ current_term[i] = u
            BY <1>1, <2>1, <2>2, <6>2 DEF NewLeader
          <6> QED  BY <1>4, <2>3, <2>5, <4>1, <6>1, <6>3 DEF Voters
        <5> QED  BY <3>1, <5>1, <5>2
      <4>4. t # current_term'[i]
        BY <2>1
      <4>5. ~Acked(q, t, k)'
        BY <4>3, <4>4, AckedBefore DEF Moves
      <4> QED  BY <4>1, <4>2, <4>5
    <3> QED  BY <3>1, <3>2 DEF Doomed, Majority
  <2> QED  BY <2>4, <2>5
<1> QED  BY <1>2, <1>3, <1>4 DEF Moves, Extends

-----------------------------------------------------------------------------
(* What stays true of messages and of what is committed *)

CommittedNext(h, E, c, u) ==
  c = 0 \/ \E k, t \in Nat :
    c <= k /\ t <= u /\ Made(h, k, t)' /\ Chosen(k, t)' /\ SameTo(E, h[t], c)

LEMMA CommittedKept ==
  ASSUME NEW h, NEW h2, NEW i \in Server, Moves(h, h2, i),
         NEW E, NEW c \in Nat, NEW u \in Nat, NEW v \in Nat, u <= v, Committed(h, E, c, u)
  PROVE  CommittedNext(h2, E, c, v)
<1>1. CASE c = 0
  BY <1>1 DEF CommittedNext
<1>2. CASE c # 0
  <2>1. PICK k \in Nat, t \in Nat :
          c <= k /\ t <= u /\ Made(h, k, t) /\ Chosen(k, t) /\ SameTo(E, h[t], c)
    BY <1>2 DEF Committed
  <2>2. Made(h2, k, t)' /\ Chosen(k, t)'
    BY <2>1, MadeKept, ChosenKept DEF Moves
  <2>3. SameTo(h[t], h2[t], Len(h[t])) /\ Len(h[t]) \in Nat /\ Len(h2[t]) \in Nat
    BY <2>1, HistLen DEF Moves, Extends, Made
  <2>4. c <= Len(h[t])
    BY <2>1 DEF SameTo
  <2>5. SameTo(E, h2[t], c)
    BY <2>1, <2>3, <2>4, SameToLess, SameToTransitive
  <2>6. t <= v
    BY <2>1
  <2> QED  BY <2>1, <2>2, <2>5, <2>6 DEF CommittedNext
<1> QED  BY <1>1, <1>2

LEMMA FromHistKept ==
  ASSUME NEW h, NEW h2, NEW i \in Server, Moves(h, h2, i), NEW E \in Seq(EntryOf(Payload)),
         FromHist(h, E)
  PROVE  \A k \in 1..Len(E) : WonNext(E[k].term) /\ SameTo(E, h2[E[k].term], k)
<1> TAKE k \in 1..Len(E)
<1> DEFINE t == E[k].term
<1>1. t \in Nat /\ Len(E) \in Nat /\ k \in Nat
  BY EntryFields, LenProperties
<1>2. Won(t) /\ SameTo(E, h[t], k)
  BY DEF FromHist
<1>3. SameTo(h[t], h2[t], Len(h[t])) /\ Len(h[t]) \in Nat /\ Len(h2[t]) \in Nat
  BY <1>1, <1>2, HistLen DEF Moves, Extends
<1>4. k <= Len(h[t])
  BY <1>2 DEF SameTo
<1>5. WonNext(t)
  BY <1>2 DEF Moves, Elects, Won, WonNext
<1> HIDE DEF t
<1>6. SameTo(E, h2[t], k)
  BY <1>1, <1>2, <1>3, <1>4, SameToLess, SameToTransitive
<1> QED  BY <1>5, <1>6 DEF t

\* A part of the history is one of the longer history.
LEMMA SegmentKept ==
  ASSUME NEW m, m.prev_index \in Nat, m.entries \in Seq(EntryOf(Payload)), NEW G, NEW H,
         Len(G) \in Nat, Len(H) \in Nat, Segment(m, G), SameTo(G, H, Len(G))
  PROVE  Segment(m, H)
<1> DEFINE b == m.prev_index
           n == Len(m.entries)
<1>1. b \in Nat /\ n \in Nat
  BY LenProperties
<1>2. b + n <= Len(G) /\ Len(G) <= Len(H) /\ \A l \in 1..Len(G) : G[l] = H[l]
  BY DEF Segment, SameTo
<1>3. b + n <= Len(H)
  BY <1>1, <1>2
<1>4. \A j \in 1..n : m.entries[j] = H[b + j]
  <2> TAKE j \in 1..n
  <2>1. b + j \in 1..Len(G)
    BY <1>1, <1>2
  <2> QED  BY <1>2, <2>1 DEF Segment
<1>5. b > 0 => H[b].term = m.prev_term
  <2> SUFFICES ASSUME b > 0 PROVE H[b].term = m.prev_term
    OBVIOUS
  <2>1. b \in 1..Len(G)
    BY <1>1, <1>2
  <2> QED  BY <1>2, <2>1 DEF Segment
<1> QED  BY <1>3, <1>4, <1>5 DEF Segment

\* What a leader sends is a part of its log.
LEMMA SendSegment ==
  ASSUME NEW i \in Server, NEW n \in NodeState, NumberedLog(0, n.log), NEW t, NEW p \in Server,
         SendAppend(i, n, t, p).prev_term # -1
  PROVE  /\ Segment(SendAppend(i, n, t, p), n.log.entries)
         /\ SendAppend(i, n, t, p).term = t /\ SendAppend(i, n, t, p).commit = n.commit_index
         /\ Len(n.log.entries) <= MaxBatch =>
              SendAppend(i, n, t, p).prev_index + Len(SendAppend(i, n, t, p).entries)
                = Len(n.log.entries)
<1> DEFINE l == n.log
           next == IF p \in Tracked(n) THEN n.next_index[p] ELSE LastIndex(l) + 1
           b == next - 1
           m == SendAppend(i, n, t, p)
           size == Len(l.entries)
<1>1. l \in LogOf(Payload) /\ l.first_index \in Nat /\ l.first_index = 1 /\ size \in Nat
  <2>1. l \in LogOf(Payload)
    BY NodeFields
  <2>2. l.first_index \in Nat /\ l.first_index - 1 = 0
    BY <2>1 DEF LogOf, NumberedLog
  <2> QED  BY <2>1, <2>2, ReadType
<1>2. next \in Nat /\ next # 0
  <2>1. n.next_index \in [Server -> Nat] /\ LastIndex(l) \in Nat
    BY <1>1, ReadType, NodeFields
  <2> QED  BY <2>1 DEF Tracked
<1>3. m = [type |-> "append", dest |-> p, term |-> t, leader |-> i,
           prev_index |-> b, prev_term |-> TermAt(l, b),
           entries |-> EntriesFrom(l, next, MaxBatch), commit |-> n.commit_index]
  <2>1. ~(next < l.first_index)
    BY <1>1, <1>2
  <2> QED  BY <2>1 DEF SendAppend
<1> HIDE DEF next, m
<1>4. b \in Nat /\ next = b + 1
  BY <1>2
<1> HIDE DEF b
<1>5. TermAt(l, b) # -1 /\ m.prev_index = b /\ m.prev_term = TermAt(l, b)
      /\ m.entries = EntriesFrom(l, b + 1, MaxBatch) /\ m.term = t /\ m.commit = n.commit_index
  BY <1>3, <1>4 DEF m
<1>6. Spans(LogFrag(l), b) /\ TermAt(l, b) = TermIn(LogFrag(l), b)
  BY <1>1, <1>4, <1>5, TermAtReads
<1>7. b \in 0..size /\ (b # 0 => TermAt(l, b) = l.entries[b].term)
  BY <1>1, <1>4, <1>6, LogFragReads
<1> DEFINE e == EntriesFrom(l, b + 1, MaxBatch)
<1>8. /\ Len(e) \in Nat
      /\ \A j \in 1..Len(e) : b + j \in 1..size /\ e[j] = l.entries[b + j]
      /\ Len(e) = MaxOf(0, MinOf(size, b + MaxBatch) - b)
  BY <1>1, <1>4, EntriesFromReads, SettingAssumption
<1> HIDE DEF e
<1>9. b + Len(e) <= size
  <2>1. CASE Len(e) = 0
    BY <1>1, <1>4, <1>7, <2>1
  <2>2. CASE Len(e) # 0
    <3>1. Len(e) \in 1..Len(e)
      BY <1>8, <2>2
    <3>2. b + Len(e) \in 1..size
      BY <1>8, <3>1
    <3> QED  BY <1>1, <3>2
  <2> QED  BY <2>1, <2>2
<1>10. m.entries = e /\ (b > 0 => b # 0)
  BY <1>4, <1>5 DEF e
<1>11. Segment(m, l.entries)
  BY <1>5, <1>7, <1>8, <1>9, <1>10 DEF Segment
<1>12. size <= MaxBatch => m.prev_index + Len(m.entries) = size
  <2>1. MaxBatch \in Nat /\ m.prev_index = b
    BY <1>5, SettingAssumption
  <2>2. size <= MaxBatch => MinOf(size, b + MaxBatch) = size
    BY <1>1, <1>4, <2>1 DEF MinOf
  <2>3. size <= MaxBatch => Len(e) = size - b
    BY <1>1, <1>4, <1>7, <1>8, <2>2 DEF MaxOf
  <2> QED  BY <1>1, <1>4, <1>10, <2>1, <2>3
<1> QED  BY <1>5, <1>11, <1>12 DEF m

LEMMA AppendsStep ==
  ASSUME TypeOK, TypeOK', MatchingInv', NEW h, NEW h2, NEW i \in Server,
         Moves(h, h2, i), AppendsOK(h), LogsOK(h2)', CommitOK(h2)'
  PROVE  AppendsOK(h2)'
<1> SUFFICES ASSUME NEW m \in msgs', m.type = "append"
             PROVE  /\ WonNext(m.term)
                    /\ m.prev_term # -1 =>
                         /\ Segment(m, h2[m.term])
                         /\ CommittedNext(h2, h2[m.term], m.commit, m.term)
  BY DEF AppendsOK, AppendOK, WonNext, Won, CommittedNext, Committed
<1>0. /\ m \in Message /\ m.term \in Nat /\ m.prev_index \in Nat /\ m.commit \in Nat
      /\ m.entries \in Seq(EntryOf(Payload))
  BY MessageFields, LogIsLogOf DEF TypeOK
<1>1. CASE m \in msgs
  <2>1. Won(m.term)
    BY <1>1 DEF AppendsOK, AppendOK
  <2>2. WonNext(m.term)
    BY <2>1 DEF Moves, Elects, Won, WonNext
  <2>3. ASSUME m.prev_term # -1
        PROVE  Segment(m, h2[m.term]) /\ CommittedNext(h2, h2[m.term], m.commit, m.term)
    <3> DEFINE G == h[m.term]
               H == h2[m.term]
    <3>1. Segment(m, G) /\ Committed(h, G, m.commit, m.term)
      BY <1>1, <2>3 DEF AppendsOK, AppendOK
    <3>2. Len(G) \in Nat /\ Len(H) \in Nat /\ SameTo(G, H, Len(G))
      BY <1>0, <2>1, HistLen DEF Moves, Extends
    <3>3. CommittedNext(h2, G, m.commit, m.term)
      BY <1>0, <3>1, CommittedKept
    <3>4. CommittedNext(h2, H, m.commit, m.term)
      <4>1. CASE m.commit = 0
        BY <4>1 DEF CommittedNext
      <4>2. CASE m.commit # 0
        <5>1. PICK k \in Nat, t \in Nat :
                /\ m.commit <= k /\ t <= m.term /\ Made(h2, k, t)' /\ Chosen(k, t)'
                /\ SameTo(G, h2[t], m.commit)
          BY <3>3, <4>2 DEF CommittedNext
        <5>2. m.commit <= Len(G)
          BY <5>1 DEF SameTo
        <5>3. SameTo(H, h2[t], m.commit)
          <6> HIDE DEF G, H
          <6>1. SameTo(H, G, m.commit)
            BY <1>0, <3>2, <5>2, SameToLess, SameToSymmetric
          <6> QED  BY <5>1, <6>1, SameToTransitive
        <5> QED  BY <5>1, <5>3 DEF CommittedNext
      <4> QED  BY <4>1, <4>2
    <3>5. Segment(m, H)
      BY <1>0, <3>1, <3>2, SegmentKept
    <3> QED  BY <3>4, <3>5
  <2> QED  BY <2>2, <2>3
<1>2. CASE m \notin msgs
  <2>1. Sent(i, m)
    BY <1>2 DEF Moves, Frame
  <2>2. role'[i] = Leader
    BY <2>1 DEF Sent
  <2>3. PICK p \in Server : m = SendAppend(i, node'[i], current_term'[i], p)
    BY <2>1 DEF Sent
  <2>4. node'[i] \in NodeState /\ NumberedLog(0, node'[i].log)
    BY DEF TypeOK, MatchingInv, ShapeInv
  <2>5. m.term = current_term'[i]
    BY <2>2, <2>3, <2>4 DEF SendAppend, InstallMsg
  <2>6. WonNext(m.term)
    BY <2>2, <2>5 DEF MatchingInv, LeaderHas, WonNext
  <2>7. ASSUME m.prev_term # -1
        PROVE  Segment(m, h2[m.term]) /\ CommittedNext(h2, h2[m.term], m.commit, m.term)
    <3>1. Segment(m, node'[i].log.entries) /\ m.commit = node'[i].commit_index
      BY <2>3, <2>4, <2>7, SendSegment
    <3>2. h2[m.term] = node'[i].log.entries
      BY <2>2, <2>5 DEF LogsOK, Entries
    <3>3. CommittedNext(h2, node'[i].log.entries, node'[i].commit_index, current_term'[i])
      BY DEF CommitOK, Committed, CommittedNext, Entries
    <3> QED  BY <2>5, <3>1, <3>2, <3>3
  <2> QED  BY <2>6, <2>7
<1> QED  BY <1>1, <1>2

\* Within its term, i keeps what it has of the history of the term.
KeepsTerm(h, i) ==
  current_term'[i] = current_term[i] /\ Won(current_term[i]) =>
    \A k \in Nat : SameTo(Entries(i), h[current_term[i]], k) =>
      SameTo(node'[i].log.entries, h[current_term[i]], k)

LEMMA AcksStep ==
  ASSUME TypeOK, TypeOK', NEW h, NEW h2, NEW i \in Server, Moves(h, h2, i), AcksOK(h),
         KeepsTerm(h, i),
         \A m \in msgs' : m \in msgs \/ AckOK(h2, m)'
  PROVE  AcksOK(h2)'
<1> SUFFICES ASSUME NEW m \in msgs, m.type = "append_resp", m.success
             PROVE  /\ WonNext(m.term) /\ m.match <= Len(h2[m.term])
                    /\ m.term <= current_term'[m.from]
                    /\ m.term = current_term'[m.from] =>
                         SameTo(node'[m.from].log.entries, h2[m.term], m.match)
  BY DEF AcksOK, AckOK, WonNext, Won, Entries
<1> DEFINE q == m.from
           t == m.term
<1>1. t \in Nat /\ q \in Server /\ m.match \in Nat
  BY MessageFields DEF TypeOK
<1>2. /\ Won(t) /\ m.match <= Len(h[t]) /\ t <= current_term[q]
      /\ t = current_term[q] => SameTo(Entries(q), h[t], m.match)
  BY DEF AcksOK, AckOK
<1>3. WonNext(t)
  BY <1>2 DEF Moves, Elects, Won, WonNext
<1>4. SameTo(h[t], h2[t], Len(h[t])) /\ Len(h[t]) \in Nat /\ Len(h2[t]) \in Nat
  BY <1>1, <1>2, HistLen DEF Moves, Extends
<1>5. /\ current_term[q] \in Nat /\ current_term'[q] \in Nat
      /\ current_term[q] <= current_term'[q]
  BY <1>1, TermsGrow DEF Moves
<1>6. m.match <= Len(h2[t])
  BY <1>1, <1>2, <1>4 DEF SameTo
<1>7. ASSUME t = current_term'[q]
      PROVE  SameTo(node'[q].log.entries, h2[t], m.match)
  <2>1. t = current_term[q]
    BY <1>1, <1>2, <1>5, <1>7
  <2>2. SameTo(node'[q].log.entries, h[t], m.match)
    <3>1. CASE q = i
      BY <1>1, <1>2, <1>7, <2>1, <3>1 DEF KeepsTerm
    <3>2. CASE q # i
      <4>1. node'[q] = node[q]
        BY <1>1, <3>2 DEF Moves, Frame
      <4> QED  BY <1>2, <2>1, <4>1 DEF Entries
    <3> QED  BY <3>1, <3>2
  <2> HIDE DEF q, t
  <2> QED  BY <1>1, <1>2, <1>4, <2>2, SameToLess, SameToTransitive
<1>8. t <= current_term'[q]
  BY <1>1, <1>2, <1>5
<1> QED  BY <1>3, <1>6, <1>7, <1>8

LEMMA MatchStep ==
  ASSUME NEW i \in Server, Frame(i), MatchOK,
         role'[i] = Leader => \A p \in Server :
           \/ node'[i].match_index[p] = 0
           \/ \E m \in msgs : AckOf(m, p, current_term'[i], node'[i].match_index[p])
  PROVE  MatchOK'
<1> SUFFICES ASSUME NEW j \in Server, NEW p \in Server, role'[j] = Leader
             PROVE  \/ node'[j].match_index[p] = 0
                    \/ \E m \in msgs' : AckOf(m, p, current_term'[j], node'[j].match_index[p])
  BY DEF MatchOK, AckOf
<1>1. msgs \subseteq msgs'
  BY DEF Frame
<1>2. CASE j = i
  BY <1>1, <1>2
<1>3. CASE j # i
  <2>1. node'[j] = node[j] /\ role'[j] = role[j] /\ current_term'[j] = current_term[j]
    BY <1>3 DEF Frame
  <2> QED  BY <1>1, <2>1 DEF MatchOK
<1> QED  BY <1>2, <1>3

LEMMA RequestsStep ==
  ASSUME TypeOK, TypeOK', NEW i \in Server, Frame(i), RequestsOK
  PROVE  RequestsOK'
<1> SUFFICES ASSUME NEW m \in msgs', m.type = "vote"
             PROVE  /\ m.term <= current_term'[m.candidate]
                    /\ role'[m.candidate] = Candidate /\ current_term'[m.candidate] = m.term =>
                         <<m.last_term, m.last_index>> = Progress(node'[m.candidate].log)
  BY DEF RequestsOK
<1> DEFINE c == m.candidate
<1>1. c \in Server /\ m.term \in Nat
  BY MessageFields DEF TypeOK
<1>2. current_term[c] \in Nat /\ current_term'[c] \in Nat /\ current_term[c] <= current_term'[c]
  BY <1>1, TermsGrow
<1>3. CASE m \in msgs
  <2>1. m.term <= current_term[c]
    BY <1>3 DEF RequestsOK
  <2>2. m.term <= current_term'[c]
    BY <1>1, <1>2, <2>1
  <2>3. ASSUME role'[c] = Candidate, current_term'[c] = m.term
        PROVE  <<m.last_term, m.last_index>> = Progress(node'[c].log)
    <3>1. current_term[c] = m.term /\ ~(current_term[c] < current_term'[c])
      BY <1>1, <1>2, <2>1, <2>3
    <3>2. role[c] = Candidate /\ node'[c].log = node[c].log
      BY <1>1, <2>3, <3>1 DEF Frame
    <3> QED  BY <1>3, <3>1, <3>2 DEF RequestsOK
  <2> QED  BY <2>2, <2>3
<1>4. CASE m \notin msgs
  <2>1. c = i /\ m.term = current_term'[i]
        /\ <<m.last_term, m.last_index>> = Progress(node'[i].log)
    BY <1>4 DEF Frame, Sent
  <2> QED  BY <1>1, <1>2, <2>1
<1> QED  BY <1>3, <1>4

LEMMA BallotsStep ==
  ASSUME TypeOK, TypeOK', NEW i \in Server, Frame(i), RequestsOK, BallotsOK
  PROVE  BallotsOK'
<1> SUFFICES ASSUME NEW q \in Server, NEW c \in Server, NEW u \in Nat, VoteMsg(q, u, c) \in msgs'
             PROVE  u <= current_term'[c]
  BY DEF BallotsOK
<1>1. current_term[c] \in Nat /\ current_term'[c] \in Nat /\ current_term[c] <= current_term'[c]
  BY TermsGrow
<1>2. u <= current_term[c]
  <2>1. CASE VoteMsg(q, u, c) \in msgs
    BY <2>1 DEF BallotsOK
  <2>2. CASE VoteMsg(q, u, c) \notin msgs
    <3>1. Sent(i, VoteMsg(q, u, c))
      BY <2>2 DEF Frame
    <3>2. \E r \in msgs : r.type = "vote" /\ r.candidate = c /\ r.term = u
      BY <3>1 DEF Sent, VoteMsg
    <3> QED  BY <3>2 DEF RequestsOK
  <2> QED  BY <2>1, <2>2
<1> QED  BY <1>1, <1>2

-----------------------------------------------------------------------------
(* Applying and committing on one server *)

LEMMA CommandsSame ==
  ASSUME NEW E, NEW G, NEW n \in Nat, SameTo(E, G, n)
  PROVE  Commands(E, n) = Commands(G, n)
<1>1. \A k \in 1..n : E[k] = G[k]
  BY DEF SameTo
<1> QED  BY <1>1 DEF Commands

LEMMA CommandsGrow ==
  ASSUME NEW E, NEW a \in Nat, NEW c \in Nat, a <= c
  PROVE  Commands(E, c) = Commands(E, a)
           \cup {<<k, E[k].payload.value>> : k \in {x \in (a + 1)..c : E[x].payload.kind = "cmd"}}
<1>1. \A x : x \in 1..c <=> x \in 1..a \/ x \in (a + 1)..c
  OBVIOUS
<1> QED  BY <1>1 DEF Commands

\* What a server has applied is what its log says.
AppliedTo(n) ==
  /\ n.applied_index <= n.commit_index
  /\ n.state_machine = Commands(n.log.entries, n.applied_index)

LEMMA ApplyFields ==
  ASSUME NoSnapshots, Reconfigurable = {}, NEW i \in Server, NEW n \in NodeState
  PROVE  /\ ApplyCommitted(i, n).applied_index = ApplyUpTo(n)
         /\ ApplyCommitted(i, n).state_machine =
              n.state_machine \cup {<<k, Get(n.log, k).payload.value>> : k \in ToApply(n, "cmd")}
<1>1. ApplyConfigs(i, n) = n
  BY ApplyConfigsType
<1>2. ApplyCommitted(i, n) = ApplyEntries(i, n)
  BY DEF NoSnapshots, ApplyCommitted
<1>3. ApplyEntries(i, n) =
        [n EXCEPT !.state_machine = @ \cup {<<k, Get(n.log, k).payload.value>> : k \in ToApply(n, "cmd")},
                  !.applied_index = ApplyUpTo(n)]
  BY <1>1 DEF ApplyEntries
<1> HIDE DEF NoSnapshots
<1> QED  BY <1>2, <1>3 DEF NodeState

LEMMA ApplyTo ==
  ASSUME NoSnapshots, Reconfigurable = {}, NEW i \in Server, NEW n \in NodeState,
         NumberedLog(0, n.log), AppliedTo(n), n.commit_index <= Len(n.log.entries)
  PROVE  AppliedTo(ApplyCommitted(i, n))
<1> DEFINE a == n.applied_index
           c == n.commit_index
           E == n.log.entries
           size == Len(E)
<1>1. /\ a \in Nat /\ c \in Nat /\ a <= c /\ c <= size /\ size \in Nat
      /\ n.log \in LogOf(Payload)
  BY NodeFields, ReadType DEF AppliedTo
<1>2. n.log.first_index = 1
  <2>1. n.log.first_index \in Nat /\ n.log.first_index - 1 = 0
    BY <1>1 DEF LogOf, NumberedLog
  <2> QED  BY <2>1
<1>3. LastPosition(n.log) = size
  BY <1>1, <1>2 DEF LastPosition
<1>4. \A k \in Nat : Get(n.log, k) = E[k]
  BY <1>2 DEF Get
<1>5. ApplyUpTo(n) = c
  <2>1. CASE a < c
    <3>1. Present(n.log, a + 1)
      BY <1>1, <1>2, <1>3, <2>1 DEF Present
    <3>2. MinOf(c, LastPosition(n.log)) = c
      BY <1>1, <1>3 DEF MinOf
    <3> QED  BY <2>1, <3>1, <3>2 DEF ApplyUpTo
  <2>2. CASE ~(a < c)
    <3>1. a = c
      BY <1>1, <2>2
    <3> QED  BY <2>2, <3>1 DEF ApplyUpTo
  <2> QED  BY <2>1, <2>2
<1> DEFINE new == {x \in (a + 1)..c : E[x].payload.kind = "cmd"}
<1>6. \A x \in (a + 1)..c : x \in Nat
  BY <1>1
<1>7. ToApply(n, "cmd") = new
  BY <1>4, <1>5, <1>6 DEF ToApply
<1>8. {<<k, Get(n.log, k).payload.value>> : k \in new} = {<<k, E[k].payload.value>> : k \in new}
  BY <1>4, <1>6
<1>9. Commands(E, c) = Commands(E, a) \cup {<<k, E[k].payload.value>> : k \in new}
  <2>1. a \in Nat /\ c \in Nat /\ a <= c
    BY <1>1
  <2> HIDE DEF E, a, c
  <2>2. Commands(E, c) = Commands(E, a) \cup
          {<<k, E[k].payload.value>> : k \in {x \in (a + 1)..c : E[x].payload.kind = "cmd"}}
    BY <2>1, CommandsGrow
  <2> QED  BY <2>2
<1>10. /\ ApplyCommitted(i, n).applied_index = c
       /\ ApplyCommitted(i, n).state_machine = Commands(E, c)
  <2>1. n.state_machine = Commands(E, a)
    BY DEF AppliedTo
  <2> HIDE DEF E, a, c, new
  <2> QED  BY <1>5, <1>7, <1>8, <1>9, <2>1, ApplyFields DEF E
<1>11. /\ ApplyCommitted(i, n).log = n.log
       /\ ApplyCommitted(i, n).commit_index = c
  BY ApplyKeepsLog
<1> HIDE DEF E
<1>12. c <= c
  BY <1>1
<1> QED  BY <1>10, <1>11, <1>12 DEF AppliedTo, E

LEMMA AdvanceReads ==
  ASSUME NEW i \in Server, NEW n \in NodeState, NEW t
  PROVE  \/ AdvanceCommit(i, n, t) = n
         \/ \E k \in Nat \ {0} :
              /\ n.commit_index < k /\ k <= LastIndex(n.log)
              /\ TermAt(n.log, k) = t /\ HasCommitQuorum(i, n, k)
              /\ AdvanceCommit(i, n, t) = ApplyCommitted(i, [n EXCEPT !.commit_index = k])
<1> DEFINE S == Committable(i, n, t)
           k == Greatest(S, 0)
<1>1. n.commit_index \in Nat /\ LastIndex(n.log) \in Nat
  BY NodeFields, ReadType
<1>2. k \in S \cup {0}
  BY GreatestType
<1>3. CASE k = 0
  BY <1>3 DEF AdvanceCommit
<1>4. CASE k # 0
  <2>1. k \in S
    BY <1>2, <1>4
  <2>2. /\ k \in (n.commit_index + 1)..LastIndex(n.log)
        /\ TermAt(n.log, k) = t /\ HasCommitQuorum(i, n, k)
    BY <2>1 DEF Committable
  <2>3. AdvanceCommit(i, n, t) = ApplyCommitted(i, [n EXCEPT !.commit_index = k])
    BY <1>4 DEF AdvanceCommit
  <2> HIDE DEF k
  <2>4. k \in Nat \ {0} /\ n.commit_index < k /\ k <= LastIndex(n.log)
    BY <1>1, <2>2
  <2> QED  BY <2>2, <2>3, <2>4
<1> QED  BY <1>3, <1>4

\* What a leader of term t believes of its peers.
MatchTrue(n, t) ==
  \A p \in Server : n.match_index[p] = 0 \/ \E m \in msgs : AckOf(m, p, t, n.match_index[p])

\* Replicas that the leader counts have acknowledged the entry.
LEMMA CountsChosen ==
  ASSUME TypeOK, NEW i \in Server, NEW n \in NodeState, n.config = Server, n.old_config = {},
         NEW t, NEW k \in Nat \ {0}, HasCommitQuorum(i, n, k), MatchTrue(n, t),
         <<t, i>> \in elected', msgs \subseteq msgs'
  PROVE  Chosen(k, t)'
<1> DEFINE Q == Replicas(i, n, k, Server)
<1>1. n.config \cup {i} = Server
  OBVIOUS
<1>2. Majority(Q)
  BY <1>1 DEF HasCommitQuorum, Majority, Replicas
<1>3. ASSUME NEW q \in Q
      PROVE  Acked(q, t, k)'
  <2>1. CASE q = i
    BY <2>1 DEF Acked
  <2>2. CASE q # i
    <3>1. q \in Server /\ n.match_index[q] >= k /\ n.match_index[q] \in Nat
      BY <2>2, NodeFields DEF Replicas
    <3>2. n.match_index[q] # 0
      BY <3>1
    <3>3. PICK m \in msgs : AckOf(m, q, t, n.match_index[q])
      BY <3>1, <3>2 DEF MatchTrue
    <3>4. m \in Message /\ m.type = "append_resp" /\ m.match >= n.match_index[q]
      BY <3>3 DEF AckOf, TypeOK
    <3>5. m.match \in Nat
      BY <3>4, MessageFields
    <3>6. AckOf(m, q, t, k)
      BY <3>1, <3>3, <3>4, <3>5 DEF AckOf
    <3> QED  BY <3>3, <3>6 DEF Acked
  <2> QED  BY <2>1, <2>2
<1> QED  BY <1>2, <1>3 DEF Chosen, Majority

\* What a leader has after counting.
LEMMA CountsCommit ==
  ASSUME NoSnapshots, Reconfigurable = {}, TypeOK, NEW h2, NEW i \in Server,
         NEW n \in NodeState, n.config = Server, n.old_config = {}, NumberedLog(0, n.log),
         NEW t \in Nat, MatchTrue(n, t), <<t, i>> \in elected', msgs \subseteq msgs',
         h2[t] = n.log.entries, AppliedTo(n),
         CommittedNext(h2, n.log.entries, n.commit_index, t)
  PROVE  LET r == AdvanceCommit(i, n, t)
         IN  /\ CommittedNext(h2, r.log.entries, r.commit_index, t) /\ AppliedTo(r)
             /\ r.match_index = n.match_index /\ n.commit_index <= r.commit_index
<1> DEFINE r == AdvanceCommit(i, n, t)
<1>1. n.commit_index \in Nat /\ n.applied_index \in Nat /\ n.log \in LogOf(Payload)
  BY NodeFields
<1>2. CASE r = n
  BY <1>1, <1>2
<1>3. CASE \E k \in Nat \ {0} :
              /\ n.commit_index < k /\ k <= LastIndex(n.log)
              /\ TermAt(n.log, k) = t /\ HasCommitQuorum(i, n, k)
              /\ r = ApplyCommitted(i, [n EXCEPT !.commit_index = k])
  <2>1. PICK k \in Nat \ {0} :
              /\ n.commit_index < k /\ k <= LastIndex(n.log)
              /\ TermAt(n.log, k) = t /\ HasCommitQuorum(i, n, k)
              /\ r = ApplyCommitted(i, [n EXCEPT !.commit_index = k])
    BY <1>3
  <2> DEFINE E == n.log.entries
             a == [n EXCEPT !.commit_index = k]
  <2>2. a \in NodeState
    BY SetCommit
  <2>3. /\ a.log = n.log /\ a.commit_index = k /\ a.applied_index = n.applied_index
        /\ a.state_machine = n.state_machine /\ a.match_index = n.match_index
    BY DEF NodeState
  <2>4. r = ApplyCommitted(i, a)
    BY <2>1
  <2> HIDE DEF a, r
  <2>5. LastIndex(n.log) = Len(E) /\ Len(E) \in Nat /\ E = n.log.entries
    BY <1>1, TermAtReads, ReadType
  <2>6. Spans(LogFrag(n.log), k) => TermAt(n.log, k) = TermIn(LogFrag(n.log), k)
    BY <1>1, TermAtReads
  <2>7. k \in 0..Len(E) /\ k \in 1..Len(E) /\ k <= Len(E)
    BY <2>1, <2>5
  <2>8. E[k].term = t
    <3>1. Spans(LogFrag(n.log), k) /\ TermIn(LogFrag(n.log), k) = E[k].term
      BY <1>1, <2>7, LogFragReads
    <3> QED  BY <2>1, <2>6, <3>1
  <2> HIDE DEF E
  <2>9. Made(h2, k, t)'
    BY <2>5, <2>7, <2>8 DEF Made, Won, HasAt
  <2>10. Chosen(k, t)'
    BY <2>1, CountsChosen
  <2>11. SameTo(E, h2[t], k)
    BY <2>5, <2>7, SameToItself
  <2>12. CommittedNext(h2, E, k, t)
    <3>1. k <= k /\ t <= t /\ k \in Nat
      OBVIOUS
    <3> QED  BY <2>9, <2>10, <2>11, <3>1 DEF CommittedNext
  <2>13. AppliedTo(a)
    BY <1>1, <2>1, <2>3 DEF AppliedTo
  <2>14. AppliedTo(r)
    <3>1. a.commit_index <= Len(a.log.entries) /\ NumberedLog(0, a.log)
      BY <2>3, <2>5, <2>7
    <3> QED  BY <2>2, <2>4, <2>13, <3>1, ApplyTo
  <2>15. r.log = n.log /\ r.commit_index = k /\ r.match_index = n.match_index
    BY <2>2, <2>3, <2>4, ApplyKeepsLog
  <2>16. n.commit_index <= r.commit_index
    BY <1>1, <2>1, <2>15
  <2> QED  BY <2>5, <2>12, <2>14, <2>15, <2>16 DEF r
<1> QED  BY <1>2, <1>3, AdvanceReads

-----------------------------------------------------------------------------
(* Merging an append *)

\* N has G up to p.  It is L, or ends at p because L contradicts G there.
MergedTo(L, N, G, p) ==
  /\ p \in Nat /\ SameTo(N, G, p)
  /\ N = L \/ (Len(N) = p /\ \E c \in 1..p : c \in 1..Len(L) => L[c].term # G[c].term)

LEMMA MergeOutcome ==
  ASSUME TypeOK, MatchingInv, NEW h, HistOK(h), LogsOK(h), AppendsOK(h), NEW i \in Server,
         NEW m \in msgs, m.type = "append",
         Merge(node[i].log, m.prev_index, m.prev_term, m.entries).ok
  PROVE  LET r == Merge(node[i].log, m.prev_index, m.prev_term, m.entries)
         IN  /\ m.prev_term # -1 /\ r.match = m.prev_index + Len(m.entries)
             /\ MergedTo(Entries(i), r.log.entries, h[m.term], r.match)
<1> DEFINE r == Merge(node[i].log, m.prev_index, m.prev_term, m.entries)
           l == node[i].log
           E == l.entries
           N == r.log.entries
           G == h[m.term]
           M == MsgFrag(m)
           b == m.prev_index
           p == b + Len(m.entries)
<1>1. /\ b \in Nat /\ m.entries \in Seq(EntryOf(Payload)) /\ Len(m.entries) \in Nat
      /\ m.term \in Nat
  BY MessageFields, LogIsLogOf, LenProperties DEF TypeOK
<1>2. /\ Merges(l, M, r) /\ r.log \in LogOf(Payload) /\ r.ok
  BY AppendMerges
<1>3. l \in LogOf(Payload) /\ NumberedLog(0, l)
  BY LogType
<1>4. /\ M.base = b /\ M.base_term = m.prev_term /\ M.entries = m.entries
      /\ Last(M) = p /\ p \in Nat /\ b <= p
  BY <1>1 DEF MsgFrag, Frag, Last
<1>5. /\ Len(E) \in Nat
      /\ \A k \in Nat : Holds(LogFrag(l), k) <=> k \in 1..Len(E)
      /\ \A k \in Nat : Spans(LogFrag(l), k) <=> k \in 0..Len(E)
      /\ \A k \in Nat : At(LogFrag(l), k) = E[k]
      /\ \A k \in Nat : TermIn(LogFrag(l), k) = IF k = 0 THEN 0 ELSE E[k].term
  BY <1>3, LogFragReads
<1>6. /\ Len(N) \in Nat
      /\ \A k \in Nat : Holds(LogFrag(r.log), k) <=> k \in 1..Len(N)
      /\ \A k \in Nat : At(LogFrag(r.log), k) = N[k]
  BY <1>2, LogFragReads
<1>7. \A k \in Nat : Holds(M, k) <=> b < k /\ k <= p
  BY <1>4 DEF Holds
<1>8. \A k \in Nat : At(M, k) = m.entries[k - b]
  BY <1>4 DEF At
<1>9. E \in Seq(EntryOf(Payload)) /\ E = Entries(i)
  BY <1>3 DEF LogOf, Entries
<1> DEFINE L == LogFrag(l)
           LN == LogFrag(r.log)
<1>10. /\ r.match = Last(M) /\ Passes(L, M)
       /\ \/ r.log = l /\ Contains(L, M)
          \/ /\ Spliced(L, M, LN) /\ Contains(LN, M)
             /\ \E c \in Nat : Holds(M, c) /\ (Holds(L, c) => At(L, c).term # At(M, c).term)
  BY <1>2 DEF Merges
<1>11. r.match = p /\ b \in 0..Len(E) /\ TermIn(L, b) = m.prev_term
  BY <1>1, <1>4, <1>5, <1>10 DEF Passes
<1>12. b # 0 => b \in 1..Len(E) /\ E[b].term = m.prev_term /\ E[b].term \in Nat
  <2> SUFFICES ASSUME b # 0
               PROVE  b \in 1..Len(E) /\ E[b].term = m.prev_term /\ E[b].term \in Nat
    OBVIOUS
  <2>1. b \in 1..Len(E)
    BY <1>1, <1>5, <1>11
  <2>2. E[b].term = m.prev_term
    BY <1>1, <1>5, <1>11
  <2> QED  BY <1>9, <2>1, <2>2, EntryFields
<1>13. m.prev_term # -1
  <2>1. b = 0 => m.prev_term = 0
    BY <1>1, <1>5, <1>11
  <2>2. b # 0 => m.prev_term \in Nat
    BY <1>12
  <2> QED  BY <2>1, <2>2
<1>14. /\ Segment(m, G) /\ Won(m.term) /\ FromHist(h, G)
       /\ G \in Seq(EntryOf(Payload)) /\ Len(G) \in Nat
  BY <1>1, <1>13, HistLen DEF AppendsOK, AppendOK, HistOK
<1>15. p <= Len(G)
  BY <1>14 DEF Segment
<1> HIDE DEF r, l, E, N, G, M, p, L, LN
<1>16. SameTo(E, G, b)
  <2>1. CASE b = 0
    BY <1>5, <1>14, <2>1 DEF SameTo
  <2>2. CASE b # 0
    <3> DEFINE s == m.prev_term
    <3>1. b \in 1..Len(E) /\ E[b].term = s /\ s \in Nat /\ b \in 1..Len(G) /\ b > 0
      BY <1>1, <1>4, <1>12, <1>14, <1>15, <2>2
    <3>2. G[b].term = s
      BY <1>14, <3>1 DEF Segment
    <3>3. SameTo(E, h[s], b)
      <4>1. FromHist(h, E)
        BY <1>9 DEF LogsOK
      <4> QED  BY <3>1, <4>1 DEF FromHist
    <3>4. SameTo(G, h[s], b)
      BY <1>14, <3>1, <3>2 DEF FromHist
    <3> QED  BY <3>3, <3>4, SameToSymmetric, SameToTransitive
  <2> QED  BY <2>1, <2>2
<1>17. ASSUME NEW k \in Nat, b < k, k <= p
       PROVE  At(M, k) = G[k]
  <2>1. k - b \in 1..Len(m.entries) /\ b + (k - b) = k
    BY <1>1, <1>17 DEF p
  <2>2. m.entries[k - b] = G[b + (k - b)]
    BY <1>14, <2>1 DEF Segment
  <2> QED  BY <1>8, <1>17, <2>1, <2>2
<1>18. CASE r.log = l /\ Contains(L, M)
  <2>1. N = E
    BY <1>18 DEF N, E
  <2>2. \A k \in Nat : b < k /\ k <= p => k \in 1..Len(E) /\ E[k] = G[k]
    BY <1>5, <1>7, <1>17, <1>18 DEF Contains, L
  <2>3. p <= Len(E)
    <3>1. CASE p = b
      BY <1>5, <1>11, <3>1
    <3>2. CASE p # b
      BY <1>1, <1>4, <1>5, <2>2, <3>2
    <3> QED  BY <3>1, <3>2
  <2>4. \A k \in 1..p : E[k] = G[k]
    <3> TAKE k \in 1..p
    <3>1. k \in Nat /\ k <= p /\ 1 <= k
      BY <1>4
    <3>2. CASE k <= b
      <4>1. k \in 1..b
        BY <1>1, <3>1, <3>2
      <4> QED  BY <1>16, <4>1 DEF SameTo
    <3>3. CASE ~(k <= b)
      BY <1>1, <2>2, <3>1, <3>3
    <3> QED  BY <3>2, <3>3
  <2>5. SameTo(E, G, p)
    BY <1>15, <2>3, <2>4 DEF SameTo
  <2>6. MergedTo(E, N, G, p)
    BY <1>4, <2>1, <2>5 DEF MergedTo
  <2> QED  BY <1>9, <1>11, <1>13, <2>6 DEF r, l, E, N, G, p
<1>19. CASE /\ Spliced(L, M, LN) /\ Contains(LN, M)
            /\ \E c \in Nat : Holds(M, c) /\ (Holds(L, c) => At(L, c).term # At(M, c).term)
  <2>1. PICK c \in Nat : Holds(M, c) /\ (Holds(L, c) => At(L, c).term # At(M, c).term)
    BY <1>19
  <2>2. b < c /\ c <= p
    BY <1>7, <2>1
  <2>3. b < p /\ c \in 1..p
    BY <1>1, <1>4, <2>2
  <2>4. c \in 1..Len(E) => E[c].term # G[c].term
    BY <1>5, <1>17, <2>1, <2>2 DEF L
  <2>5. \A k \in Nat : b < k /\ k <= p => k \in 1..Len(N) /\ N[k] = G[k]
    BY <1>6, <1>7, <1>17, <1>19 DEF Contains, LN
  <2>6. \A k \in Nat : k \in 1..Len(N) =>
          \/ k <= b /\ k \in 1..Len(E) /\ N[k] = E[k]
          \/ k > b /\ k <= p
    BY <1>4, <1>5, <1>6, <1>7, <1>19 DEF Spliced, L, LN
  <2>7. Len(N) = p
    <3>1. p \in 1..Len(N)
      BY <1>4, <2>3, <2>5
    <3>2. Len(N) \in 1..Len(N)
      BY <1>6, <3>1
    <3>3. Len(N) <= p
      BY <1>1, <1>4, <1>6, <2>3, <2>6, <3>2
    <3> QED  BY <1>4, <1>6, <3>1, <3>3
  <2>8. \A k \in 1..p : N[k] = G[k]
    <3> TAKE k \in 1..p
    <3>1. k \in Nat /\ k <= p /\ 1 <= k /\ k \in 1..Len(N)
      BY <1>4, <2>7
    <3>2. CASE k <= b
      <4>1. k \in 1..b /\ ~(k > b)
        BY <1>1, <3>1, <3>2
      <4>2. N[k] = E[k]
        BY <2>6, <3>1, <4>1
      <4> QED  BY <1>16, <4>1, <4>2 DEF SameTo
    <3>3. CASE ~(k <= b)
      BY <1>1, <2>5, <3>1, <3>3
    <3> QED  BY <3>2, <3>3
  <2>9. SameTo(N, G, p)
    <3>1. p <= Len(N)
      BY <1>4, <2>7
    <3> QED  BY <1>15, <2>8, <3>1 DEF SameTo
  <2>10. MergedTo(E, N, G, p)
    BY <1>4, <2>3, <2>4, <2>7, <2>9 DEF MergedTo
  <2> QED  BY <1>9, <1>11, <1>13, <2>10 DEF r, l, E, N, G, p
<1> QED  BY <1>10, <1>18, <1>19

\* What L has of G, N has.
LEMMA MergedKeeps ==
  ASSUME NEW L, NEW N, NEW G, NEW p, MergedTo(L, N, G, p), NEW k \in Nat, SameTo(L, G, k),
         Len(L) \in Nat, Len(G) \in Nat
  PROVE  SameTo(N, G, k)
<1>1. CASE N = L
  BY <1>1
<1>2. CASE N # L
  <2>1. PICK c \in 1..p : c \in 1..Len(L) => L[c].term # G[c].term
    BY <1>2 DEF MergedTo
  <2>2. p \in Nat /\ Len(N) = p /\ SameTo(N, G, p)
    BY <1>2 DEF MergedTo
  <2>3. ~(c \in 1..k)
    BY <2>1 DEF SameTo
  <2>4. k <= p
    BY <2>1, <2>2, <2>3
  <2> QED  BY <2>2, <2>4, SameToLess
<1> QED  BY <1>1, <1>2

\* What is committed by a term up to u, the leader of u has.
LEMMA CommittedIn ==
  ASSUME NEW h, HistOK(h), LaterLeaders(h), NEW u \in Nat, Won(u), NEW v \in Nat, v <= u,
         NEW E, Len(E) \in Nat, NEW c \in Nat, Committed(h, E, c, v)
  PROVE  SameTo(E, h[u], c)
<1>1. h \in [Nat -> Seq(EntryOf(Payload))] /\ Len(h[u]) \in Nat
  BY HistLen DEF HistOK
<1>2. CASE c = 0
  BY <1>1, <1>2 DEF SameTo
<1>3. CASE c # 0
  <2>1. PICK k \in Nat, t \in Nat :
          c <= k /\ t <= v /\ Made(h, k, t) /\ Chosen(k, t) /\ SameTo(E, h[t], c)
    BY <1>3 DEF Committed
  <2>2. CASE t = u
    BY <2>1, <2>2
  <2>3. CASE t # u
    <3>1. t < u
      BY <2>1, <2>3
    <3>2. HasAt(h[u], k, t)
      BY <2>1, <3>1, ChosenNotDoomed DEF LaterLeaders
    <3>3. SameTo(h[u], h[t], k)
      BY <3>2 DEF HistOK, FromHist, HasAt
    <3>4. Len(h[t]) \in Nat
      BY <1>1, HistLen
    <3>5. SameTo(h[t], h[u], c)
      BY <1>1, <2>1, <3>3, <3>4, SameToLess, SameToSymmetric
    <3> QED  BY <2>1, <3>5, SameToTransitive
  <2> QED  BY <2>2, <2>3
<1> QED  BY <1>2, <1>3

\* A merge keeps what its server has committed.
LEMMA MergedCommit ==
  ASSUME TypeOK, NEW h, HistOK(h), LaterLeaders(h), NEW i \in Server,
         NEW u \in Nat, Won(u), current_term[i] <= u, NEW N, NEW p,
         MergedTo(Entries(i), N, h[u], p), NEW c \in Nat,
         Committed(h, Entries(i), c, current_term[i])
  PROVE  SameTo(N, Entries(i), c) /\ SameTo(N, h[u], c)
<1>1. current_term[i] \in Nat /\ Len(Entries(i)) \in Nat /\ Len(h[u]) \in Nat
  BY EntriesType, HistLen DEF TypeOK, HistOK
<1>2. SameTo(Entries(i), h[u], c)
  BY <1>1, CommittedIn
<1>3. SameTo(N, h[u], c)
  BY <1>1, <1>2, MergedKeeps
<1> QED  BY <1>2, <1>3, SameToSymmetric, SameToTransitive

\* A merge keeps the entries that may be committed.
LEMMA MergedHas ==
  ASSUME TypeOK, NEW h, HistOK(h), LogsOK(h), LaterLeaders(h), NEW i \in Server,
         NEW u \in Nat, Won(u), current_term[i] <= u, NEW N, Len(N) \in Nat, NEW p,
         MergedTo(Entries(i), N, h[u], p), NEW k \in Nat, NEW t \in Nat,
         Made(h, k, t), HasAt(Entries(i), k, t)
  PROVE  HasAt(N, k, t) \/ Doomed(k, t)
<1> DEFINE L == Entries(i)
<1>1. /\ current_term[i] \in Nat /\ Len(L) \in Nat /\ Len(h[u]) \in Nat /\ Len(h[t]) \in Nat
  BY EntriesType, HistLen DEF TypeOK, HistOK
<1>2. k \in 1..Len(L) /\ L[k].term = t
  BY DEF HasAt
<1>3. SameTo(L, h[t], k) /\ t <= current_term[i]
  BY <1>2 DEF LogsOK, FromHist
<1>4. t <= u
  BY <1>1, <1>3
<1>5. CASE SameTo(L, h[u], k)
  <2>1. SameTo(N, h[u], k)
    BY <1>1, <1>5, MergedKeeps
  <2>2. SameTo(L, N, k)
    BY <1>5, <2>1, SameToSymmetric, SameToTransitive
  <2>3. k <= k
    OBVIOUS
  <2> QED  BY <1>1, <2>2, <2>3, SameToHas
<1>6. CASE t = u
  BY <1>3, <1>5, <1>6
<1>7. CASE t # u /\ HasAt(h[u], k, t)
  <2>1. SameTo(h[u], h[t], k)
    BY <1>7 DEF HistOK, FromHist, HasAt
  <2>2. SameTo(L, h[u], k)
    BY <1>3, <2>1, SameToSymmetric, SameToTransitive
  <2> QED  BY <1>5, <2>2
<1>8. CASE t # u /\ ~HasAt(h[u], k, t)
  <2>1. t < u
    BY <1>4, <1>8
  <2> QED  BY <1>8, <2>1 DEF LaterLeaders
<1> QED  BY <1>6, <1>7, <1>8

-----------------------------------------------------------------------------
(* What a step has to show *)

\* The state of i after the step fits the history.
Settled(h2, i) ==
  LET E == node'[i].log.entries
  IN  /\ \A k \in 1..Len(E) : /\ WonNext(E[k].term) /\ SameTo(E, h2[E[k].term], k)
                              /\ E[k].term <= current_term'[i]
      /\ role'[i] = Leader => h2[current_term'[i]] = E /\ MatchTrue(node'[i], current_term'[i])
      /\ CommittedNext(h2, E, node'[i].commit_index, current_term'[i])
      /\ AppliedTo(node'[i])

\* Entries that i had, and those that it now acknowledges, it has.
Holding(h, i) ==
  /\ \A k, t \in Nat : Made(h, k, t) /\ HasAt(Entries(i), k, t) =>
       HasAt(node'[i].log.entries, k, t) \/ Doomed(k, t)
  /\ \A k, t \in Nat : Made(h, k, t) /\ Acked(i, t, k)' =>
       Acked(i, t, k) \/ HasAt(node'[i].log.entries, k, t)

LEMMA OthersSettled ==
  ASSUME TypeOK, TypeOK', NEW h, NEW h2, NEW i \in Server, Moves(h, h2, i),
         LogsOK(h), CommitOK(h), AppliedOK, Settled(h2, i),
         \A j \in Server \ {i} : role[j] = Leader => h2[current_term[j]] = h[current_term[j]]
  PROVE  LogsOK(h2)' /\ CommitOK(h2)' /\ AppliedOK'
<1>1. ASSUME NEW j \in Server
      PROVE  LET E == node'[j].log.entries
             IN  /\ \A k \in 1..Len(E) : /\ WonNext(E[k].term) /\ SameTo(E, h2[E[k].term], k)
                                         /\ E[k].term <= current_term'[j]
                 /\ role'[j] = Leader => h2[current_term'[j]] = E
                 /\ node'[j].log.snapshot_last_index = 0
                 /\ CommittedNext(h2, E, node'[j].commit_index, current_term'[j])
                 /\ AppliedTo(node'[j])
  <2>1. CASE j = i
    <3>1. node'[i].log.snapshot_last_index = 0
      BY DEF Moves, Frame, LogsOK
    <3> QED  BY <2>1, <3>1 DEF Settled
  <2>2. CASE j # i
    <3>1. node'[j] = node[j] /\ role'[j] = role[j] /\ current_term'[j] = current_term[j]
      BY <2>2 DEF Moves, Frame
    <3>2. /\ FromHist(h, Entries(j)) /\ Entries(j) \in Seq(EntryOf(Payload))
          /\ current_term[j] \in Nat /\ node[j].commit_index \in Nat
      BY EntriesType, NodeFields DEF LogsOK, TypeOK
    <3>3. \A k \in 1..Len(Entries(j)) :
            WonNext(Entries(j)[k].term) /\ SameTo(Entries(j), h2[Entries(j)[k].term], k)
      BY <3>2, FromHistKept
    <3>4. CommittedNext(h2, Entries(j), node[j].commit_index, current_term[j])
      <4>1. Committed(h, Entries(j), node[j].commit_index, current_term[j])
        BY DEF CommitOK
      <4>2. current_term[j] <= current_term[j]
        BY <3>2
      <4> QED  BY <3>2, <4>1, <4>2, CommittedKept
    <3>5. AppliedTo(node[j])
      BY DEF AppliedOK, AppliedTo, Entries
    <3>6. role[j] = Leader => h2[current_term[j]] = Entries(j)
      BY <2>2 DEF LogsOK
    <3>7. \A k \in 1..Len(Entries(j)) : Entries(j)[k].term <= current_term[j]
      BY DEF LogsOK
    <3>8. node[j].log.snapshot_last_index = 0
      BY DEF LogsOK
    <3> QED  BY <3>1, <3>3, <3>4, <3>5, <3>6, <3>7, <3>8 DEF Entries
  <2> QED  BY <2>1, <2>2
<1>2. LogsOK(h2)'
  BY <1>1 DEF LogsOK, FromHist, Won, WonNext, Entries
<1>3. CommitOK(h2)'
  BY <1>1 DEF CommitOK, Committed, CommittedNext, Entries
<1>4. AppliedOK'
  BY <1>1 DEF AppliedOK, AppliedTo, Entries
<1> QED  BY <1>2, <1>3, <1>4

LEMMA RecordedStep ==
  ASSUME TypeOK, TypeOK', MatchingInv, MatchingInv', ElectionInv, ElectionInv',
         ElectionSafety', NEW h, NEW h2, NEW i \in Server, Recorded(h), Moves(h, h2, i),
         HistOK(h2)', Settled(h2, i), Holding(h, i), KeepsTerm(h, i),
         \A j \in Server \ {i} : role[j] = Leader => h2[current_term[j]] = h[current_term[j]],
         \A m \in msgs' : m \in msgs \/ AckOK(h2, m)',
         ~Won(current_term'[i]) /\ WonNext(current_term'[i]) => NewLeader(h2, i)
  PROVE  Recorded(h2)'
<1>1. /\ HistOK(h) /\ LogsOK(h) /\ AppendsOK(h) /\ AcksOK(h)
      /\ MatchOK /\ RequestsOK /\ BallotsOK
      /\ LaterLeaders(h) /\ Keepers(h) /\ Voters(h)
      /\ CommitOK(h) /\ AppliedOK /\ Frame(i)
  BY DEF Recorded, Moves
<1>2. LogsOK(h2)' /\ CommitOK(h2)' /\ AppliedOK'
  BY <1>1, OthersSettled
<1>3. AppendsOK(h2)'
  BY <1>1, <1>2, AppendsStep
<1>4. AcksOK(h2)'
  BY <1>1, AcksStep
<1>5. MatchOK'
  <2>1. role'[i] = Leader => \A p \in Server :
           \/ node'[i].match_index[p] = 0
           \/ \E m \in msgs : AckOf(m, p, current_term'[i], node'[i].match_index[p])
    BY DEF Settled, MatchTrue
  <2> QED  BY <1>1, <2>1, MatchStep
<1>6. RequestsOK' /\ BallotsOK'
  BY <1>1, RequestsStep, BallotsStep
<1>7. LaterLeaders(h2)'
  BY <1>1, LaterLeadersStep
<1>8. Keepers(h2)'
  BY <1>1, KeepersStep DEF Holding
<1>9. Voters(h2)'
  BY <1>1, VotersStep
<1> QED  BY <1>2, <1>3, <1>4, <1>5, <1>6, <1>7, <1>8, <1>9 DEF Recorded

-----------------------------------------------------------------------------
(* Steps that change no log *)

LEMMA CommitWithin ==
  ASSUME NEW h, NEW E, Len(E) \in Nat, NEW c \in Nat, NEW u, Committed(h, E, c, u)
  PROVE  c <= Len(E)
BY DEF Committed, SameTo

\* Server i stays what it is, or gives up leading; nobody acknowledges anything.
Still(i) ==
  /\ Frame(i) /\ elected' = elected /\ node'[i].log = node[i].log
  /\ \A m \in msgs' : m.type = "append_resp" /\ m.success => m \in msgs
  /\ role'[i] = Leader =>
       /\ role[i] = Leader /\ current_term'[i] = current_term[i]
       /\ MatchTrue(node'[i], current_term'[i])

LEMMA StillMoves ==
  ASSUME NEW h, HistOK(h), NEW i \in Server, Still(i)
  PROVE  Moves(h, h, i) /\ HistOK(h)'
<1>1. h \in [Nat -> Seq(EntryOf(Payload))]
  BY DEF HistOK
<1>2. \A t \in Nat : SameTo(h[t], h[t], Len(h[t]))
  <2> TAKE t \in Nat
  <2>1. Len(h[t]) \in Nat /\ Len(h[t]) <= Len(h[t])
    BY <1>1, HistLen
  <2> QED  BY <2>1, SameToItself
<1>3. \A t : Won(t)' <=> Won(t)
  BY DEF Still, Won
<1>4. Extends(h, h, i)
  BY <1>1, <1>2, <1>3 DEF Extends, Made
<1>5. Acks(i) /\ Elects(i) /\ Frame(i)
  BY DEF Still, Acks, Elects
<1>6. HistOK(h)'
  BY <1>3 DEF HistOK, FromHist
<1> QED  BY <1>4, <1>5, <1>6 DEF Moves

LEMMA StillRecorded ==
  ASSUME TypeOK, TypeOK', MatchingInv, MatchingInv', ElectionInv, ElectionInv',
         ElectionSafety', NEW h, NEW i \in Server, Recorded(h), Still(i),
         CommittedNext(h, Entries(i), node'[i].commit_index, current_term'[i]),
         AppliedTo(node'[i])
  PROVE  Recorded(h)'
<1>1. HistOK(h) /\ LogsOK(h)
  BY DEF Recorded
<1>2. Moves(h, h, i) /\ HistOK(h)'
  BY <1>1, StillMoves
<1>3. node'[i].log.entries = Entries(i) /\ elected' = elected
  BY DEF Still, Entries
<1>4. Settled(h, i)
  <2>1. \A k \in 1..Len(Entries(i)) :
          /\ WonNext(Entries(i)[k].term) /\ SameTo(Entries(i), h[Entries(i)[k].term], k)
          /\ Entries(i)[k].term <= current_term'[i]
    <3> TAKE k \in 1..Len(Entries(i))
    <3>1. /\ Won(Entries(i)[k].term) /\ SameTo(Entries(i), h[Entries(i)[k].term], k)
          /\ Entries(i)[k].term <= current_term[i]
      BY <1>1 DEF LogsOK, FromHist
    <3>2. /\ Entries(i)[k].term \in Nat /\ current_term[i] \in Nat /\ current_term'[i] \in Nat
          /\ current_term[i] <= current_term'[i]
      BY EntriesType, EntryFields, TermsGrow DEF Still
    <3>3. Entries(i)[k].term <= current_term'[i]
      BY <3>1, <3>2
    <3> QED  BY <1>3, <3>1, <3>3 DEF Won, WonNext
  <2>2. role'[i] = Leader => h[current_term'[i]] = Entries(i)
    BY <1>1 DEF LogsOK, Still
  <2>3. role'[i] = Leader => MatchTrue(node'[i], current_term'[i])
    BY DEF Still
  <2> QED  BY <1>3, <2>1, <2>2, <2>3 DEF Settled
<1>5. Holding(h, i)
  <2>1. \A k, t \in Nat : Acked(i, t, k)' => Acked(i, t, k)
    BY DEF Still, Acked, AckOf
  <2> QED  BY <1>3, <2>1 DEF Holding
<1>6. KeepsTerm(h, i)
  BY <1>3 DEF KeepsTerm
<1>7. \A m \in msgs' : m \in msgs \/ AckOK(h, m)'
  BY DEF Still, AckOK
<1>8. ~(~Won(current_term'[i]) /\ WonNext(current_term'[i]))
  BY <1>3 DEF Won, WonNext
<1> QED  BY <1>2, <1>4, <1>5, <1>6, <1>7, <1>8, RecordedStep

\* Nothing of what is committed is lost in the step, nor forgotten, but by a restart.
\* What is appended comes from _send_append.
CommitSafe ==
  /\ \A i \in Server :
       /\ SameTo(node'[i].log.entries, Entries(i), node[i].commit_index)
       /\ Restartable = {} => node[i].commit_index <= node'[i].commit_index
  /\ \A m \in msgs' : m.type = "append" =>
       m \in msgs \/ \E i, p \in Server : m = SendAppend(i, node'[i], current_term'[i], p)

LEMMA SafeWhereItIs ==
  ASSUME TypeOK, NEW h, CommitOK(h), NEW i \in Server, node'[i].log = node[i].log
  PROVE  SameTo(node'[i].log.entries, Entries(i), node[i].commit_index)
<1>1. Len(Entries(i)) \in Nat /\ node[i].commit_index \in Nat
  BY EntriesType, NodeFields DEF TypeOK
<1>2. node[i].commit_index <= Len(Entries(i))
  BY <1>1, CommitWithin DEF CommitOK
<1> QED  BY <1>1, <1>2, SameToItself DEF Entries

LEMMA SafeAtOthers ==
  ASSUME TypeOK, NEW h, CommitOK(h), NEW i \in Server, Frame(i),
         SameTo(node'[i].log.entries, Entries(i), node[i].commit_index),
         Restartable = {} => node[i].commit_index <= node'[i].commit_index
  PROVE  CommitSafe
<1>0. \A m \in msgs' : m.type = "append" =>
        m \in msgs \/ \E x, p \in Server : m = SendAppend(x, node'[x], current_term'[x], p)
  BY DEF Frame, Sent
<1> SUFFICES ASSUME NEW j \in Server, j # i
             PROVE  /\ SameTo(node'[j].log.entries, Entries(j), node[j].commit_index)
                    /\ node[j].commit_index <= node'[j].commit_index
  BY <1>0 DEF CommitSafe
<1>1. node'[j] = node[j] /\ node[j].commit_index \in Nat
  BY NodeFields DEF Frame, TypeOK
<1> QED  BY <1>1, SafeWhereItIs

\* What i has committed and applied stays as it is.
LEMMA PauseRecorded ==
  ASSUME TypeOK, TypeOK', MatchingInv, MatchingInv', ElectionInv, ElectionInv',
         ElectionSafety', NEW h, NEW i \in Server, Recorded(h), Still(i),
         node'[i].commit_index = node[i].commit_index,
         node'[i].applied_index = node[i].applied_index,
         node'[i].state_machine = node[i].state_machine
  PROVE  Recorded(h)' /\ CommitSafe
<1>1. HistOK(h) /\ CommitOK(h) /\ AppliedOK
  BY DEF Recorded
<1>2. /\ current_term[i] \in Nat /\ current_term'[i] \in Nat /\ current_term[i] <= current_term'[i]
      /\ node[i].commit_index \in Nat
  BY TermsGrow, NodeFields DEF Still, TypeOK
<1>3. Committed(h, Entries(i), node[i].commit_index, current_term[i])
  BY <1>1 DEF CommitOK
<1>4. CommittedNext(h, Entries(i), node[i].commit_index, current_term'[i])
  BY <1>1, <1>2, <1>3, StillMoves, CommittedKept
<1>5. AppliedTo(node'[i])
  BY <1>1 DEF AppliedOK, AppliedTo, Entries, Still
<1>6. Recorded(h)'
  BY <1>4, <1>5, StillRecorded
<1>7. /\ SameTo(node'[i].log.entries, Entries(i), node[i].commit_index)
      /\ node[i].commit_index <= node'[i].commit_index
  BY <1>1, <1>2, SafeWhereItIs DEF Still
<1> QED  BY <1>1, <1>6, <1>7, SafeAtOthers DEF Still

-----------------------------------------------------------------------------
(* A leader adds an entry *)

LEMMA LogRises ==
  ASSUME TypeOK, NEW h, HistOK(h), LogsOK(h), NEW i \in Server
  PROVE  Rising(Entries(i), current_term[i])
<1> DEFINE E == Entries(i)
           n == Len(E)
<1> SUFFICES ASSUME NEW b \in 1..n, NEW a \in 1..b
             PROVE  E[b].term <= current_term[i] /\ E[a].term <= E[b].term
  BY DEF Rising
<1>1. n \in Nat
  BY EntriesType
<1>2. n # 0 /\ b \in 1..n /\ a \in 1..n
  BY <1>1
<1> DEFINE t == E[n].term
<1>3. SameTo(E, h[t], n) /\ Rising(h[t], t) /\ Len(h[t]) \in Nat
  BY <1>2, LogIsPast
<1> HIDE DEF n, t
<1>4. b \in 1..Len(h[t]) /\ E[a] = h[t][a] /\ E[b] = h[t][b]
  BY <1>1, <1>2, <1>3 DEF SameTo
<1>5. E[a].term <= E[b].term
  BY <1>3, <1>4 DEF Rising
<1>6. E[b].term <= current_term[i]
  BY <1>2 DEF LogsOK, n
<1> QED  BY <1>5, <1>6

\* Server i leads term t after the step, and did before or was just elected;
\* nobody votes for or acknowledges anything.
Leading(i, t) ==
  /\ Frame(i) /\ role'[i] = Leader /\ current_term'[i] = t
  /\ elected' = elected \cup {<<t, i>>}
  /\ \A m \in msgs' :
       /\ m.type = "append_resp" /\ m.success => m \in msgs
       /\ m.type = "vote_resp" /\ m.granted => m \in msgs
  /\ \/ role[i] = Leader /\ current_term[i] = t /\ Len(Entries(i)) < MaxLog
     \/ /\ ~Won(t) /\ t # 0
        /\ \/ role[i] = Candidate /\ current_term[i] = t
           \/ current_term[i] < t

\* The history grows by the entry e, the last of the log N of i.
Lengthened(h, h2, i, t, N, e) ==
  /\ e \in EntryOf(Payload) /\ e.term = t
  /\ N = node'[i].log.entries /\ N = Append(Entries(i), e)
  /\ h2 = [h EXCEPT ![t] = N]

LEMMA LeadMoves ==
  ASSUME TypeOK, TypeOK', NEW h, Recorded(h), NEW i \in Server, NEW t \in Nat, Leading(i, t),
         NEW e, NEW N, NEW h2, Lengthened(h, h2, i, t, N, e)
  PROVE  /\ Moves(h, h2, i) /\ HistOK(h2)' /\ h2[t] = N
         /\ \A u \in Nat \ {t} : h2[u] = h[u]
         /\ SameTo(Entries(i), N, Len(Entries(i)))
<1> DEFINE E == Entries(i)
           n == Len(E)
           top == n + 1
<1> /\ e \in EntryOf(Payload) /\ e.term = t
    /\ N = node'[i].log.entries /\ N = Append(Entries(i), e)
    /\ h2 = [h EXCEPT ![t] = N]
  BY DEF Lengthened
<1>1. HistOK(h) /\ LogsOK(h) /\ AcksOK(h) /\ h \in [Nat -> Seq(EntryOf(Payload))]
  BY DEF Recorded, HistOK
<1>2. E \in Seq(EntryOf(Payload)) /\ n \in Nat
  BY EntriesType
<1>3. /\ N \in Seq(EntryOf(Payload)) /\ Len(N) = top /\ N[top] = e
      /\ \A k \in 1..n : N[k] = E[k]
  BY <1>2, AppendProperties
<1>4. /\ h2 \in [Nat -> Seq(EntryOf(Payload))] /\ h2[t] = N
      /\ \A u \in Nat \ {t} : h2[u] = h[u]
  BY <1>1, <1>3
<1>5. /\ top \in Nat /\ n < top /\ n <= top
      /\ \A k \in 1..top : k \in 1..n \/ k = top
      /\ \A k \in 1..n : k \in 1..top
  BY <1>2
<1> HIDE DEF top, n
<1>6. SameTo(E, N, n)
  BY <1>2, <1>3, <1>5 DEF SameTo, n
<1>7. Won(t) => h[t] = E
  BY <1>1 DEF Leading, LogsOK
<1>8. ASSUME NEW u \in Nat, Won(u)
      PROVE  SameTo(h[u], h2[u], Len(h[u]))
  <2>1. CASE u = t
    BY <1>4, <1>6, <1>7, <1>8, <2>1 DEF n
  <2>2. CASE u # t
    <3>1. h2[u] = h[u]
      BY <1>4, <2>2
    <3>2. Len(h[u]) \in Nat
      BY <1>1, HistLen
    <3>3. Len(h[u]) <= Len(h[u])
      BY <3>2
    <3> QED  BY <3>1, <3>2, <3>3, SameToItself
  <2> QED  BY <2>1, <2>2
<1>9. ASSUME NEW m \in msgs', m.type = "append_resp", m.success, m.term = t
      PROVE  m.match \in Nat /\ m.match <= n
  <2>1. m \in msgs /\ m \in Message
    BY <1>9 DEF Leading, TypeOK
  <2>2. m.match \in Nat
    BY <1>9, <2>1, MessageFields
  <2>3. Won(t) /\ m.match <= Len(h[t])
    BY <1>1, <1>9, <2>1 DEF AcksOK, AckOK
  <2> QED  BY <1>7, <2>2, <2>3 DEF n
<1>10. ASSUME NEW k \in Nat, NEW u \in Nat, Made(h2, k, u)'
       PROVE  Made(h, k, u) \/ Fresh(i, k, u)
  <2>1. CASE u # t
    <3>1. Won(u)
      BY <1>10, <2>1 DEF Made, Won, Leading
    <3> QED  BY <1>4, <1>10, <2>1, <3>1 DEF Made
  <2>2. CASE u = t
    <3>1. HasAt(N, k, t)
      BY <1>4, <1>10, <2>2 DEF Made
    <3>2. CASE k \in 1..n
      <4>1. E[k].term = t
        BY <1>3, <3>1, <3>2 DEF HasAt
      <4>2. Won(t)
        BY <1>1, <3>2, <4>1 DEF LogsOK, FromHist, n
      <4>3. HasAt(h[t], k, t)
        BY <1>7, <3>2, <4>1, <4>2 DEF HasAt, n
      <4> QED  BY <2>2, <4>2, <4>3 DEF Made
    <3>3. CASE k = top
      <4>1. \A m \in msgs' : ~(m.type = "append_resp" /\ m.success /\ m.term = t /\ m.match >= k)
        BY <1>2, <1>5, <1>9, <3>3
      <4> QED  BY <2>2, <3>1, <4>1 DEF Fresh, Leading
    <3> QED  BY <1>3, <1>5, <3>1, <3>2, <3>3 DEF HasAt
  <2> QED  BY <2>1, <2>2
<1>11. Moves(h, h2, i)
  <2>1. Extends(h, h2, i)
    BY <1>1, <1>4, <1>8, <1>10 DEF Extends
  <2>2. Acks(i) /\ Elects(i) /\ Frame(i)
    BY DEF Leading, Acks, Elects
  <2> QED  BY <2>1, <2>2 DEF Moves
<1>12. ASSUME NEW k \in 1..Len(N)
       PROVE  WonNext(N[k].term) /\ SameTo(N, h2[N[k].term], k)
  <2>1. CASE k \in 1..n
    <3>1. FromHist(h, E)
      BY <1>1 DEF LogsOK
    <3>2. WonNext(E[k].term) /\ SameTo(E, h2[E[k].term], k)
      BY <1>2, <1>11, <2>1, <3>1, FromHistKept DEF n
    <3>3. k \in Nat /\ k <= n /\ Len(E) \in Nat /\ Len(N) \in Nat
      BY <1>2, <1>3, <1>5, <2>1 DEF n
    <3>4. SameTo(N, E, k)
      BY <1>2, <1>6, <3>3, SameToLess, SameToSymmetric
    <3> QED  BY <1>3, <2>1, <3>2, <3>4, SameToTransitive
  <2>2. CASE k = top
    <3>1. N[k].term = t
      BY <1>3, <2>2
    <3>2. WonNext(t)
      BY DEF WonNext, Leading
    <3>3. SameTo(N, N, k)
      <4>1. k \in Nat /\ Len(N) \in Nat /\ k <= Len(N)
        BY <1>3, <1>5, <2>2
      <4> QED  BY <4>1, SameToItself
    <3> QED  BY <1>4, <3>1, <3>2, <3>3
  <2> QED  BY <1>3, <1>5, <2>1, <2>2
<1>13. Rising(N, t)
  <2>1. Rising(E, current_term[i])
    BY <1>1, LogRises
  <2>2. \A k \in 1..n : E[k].term \in Nat
    BY <1>2, EntryFields DEF n
  <2>3. current_term[i] \in Nat /\ current_term[i] <= t
    BY DEF TypeOK, Leading
  <2>4. \A k \in 1..n : N[k].term = E[k].term /\ E[k].term <= t
    <3> TAKE k \in 1..n
    <3>1. E[k].term <= current_term[i]
      BY <2>1 DEF Rising, n
    <3>2. E[k].term \in Nat
      BY <2>2
    <3>3. E[k].term <= t
      BY <2>3, <3>1, <3>2
    <3>4. N[k] = E[k]
      BY <1>3
    <3> QED  BY <3>3, <3>4
  <2>5. ASSUME NEW b \in 1..top
        PROVE  N[b].term <= t /\ \A a \in 1..b : N[a].term <= N[b].term
    <3>1. CASE b \in 1..n
      <4>1. \A a \in 1..b : a \in 1..n
        BY <1>2, <3>1
      <4>2. \A a \in 1..b : E[a].term <= E[b].term
        BY <2>1, <3>1 DEF Rising, n
      <4> QED  BY <2>4, <3>1, <4>1, <4>2
    <3>2. CASE b = top
      <4>1. N[b].term = t /\ t <= t
        BY <1>3, <3>2
      <4>2. \A a \in 1..b : N[a].term <= t
        BY <1>5, <2>4, <3>2, <4>1
      <4> QED  BY <4>1, <4>2
    <3> QED  BY <1>5, <3>1, <3>2
  <2> QED  BY <1>3, <2>5 DEF Rising
<1>14. Len(N) <= MaxLog + t
  <2>1. CASE n < MaxLog
    BY <1>2, <1>3, <2>1, BoundAssumption DEF top
  <2>2. CASE n = 0 /\ t # 0
    BY <1>3, <2>2, BoundAssumption DEF top
  <2>3. CASE n # 0 /\ ~Won(t)
    <3>1. PICK u : u = E[n].term
      OBVIOUS
    <3>2. n \in 1..Len(E)
      BY <1>2, <2>3 DEF n
    <3>3. u \in Nat /\ Won(u) /\ SameTo(E, h[u], n) /\ u <= current_term[i]
      BY <1>1, <1>2, <3>1, <3>2, EntryFields DEF LogsOK, FromHist
    <3>4. Len(h[u]) \in Nat /\ n <= Len(h[u]) /\ Len(h[u]) <= MaxLog + u
      BY <1>1, <3>3, HistLen DEF SameTo, HistOK
    <3>5. u # t /\ current_term[i] \in Nat /\ current_term[i] <= t
      BY <2>3, <3>3 DEF TypeOK, Leading
    <3> QED  BY <1>2, <1>3, <3>3, <3>4, <3>5, BoundAssumption DEF top
  <2> QED  BY <2>1, <2>2, <2>3 DEF Leading, n
<1>15. HistOK(h2)'
  <2> SUFFICES ASSUME NEW u \in Nat, WonNext(u)
               PROVE  /\ \A k \in 1..Len(h2[u]) :
                           WonNext(h2[u][k].term) /\ SameTo(h2[u], h2[h2[u][k].term], k)
                      /\ Rising(h2[u], u) /\ Len(h2[u]) <= MaxLog + u
    BY <1>4 DEF HistOK, FromHist, Won, WonNext
  <2>1. CASE u = t
    BY <1>4, <1>12, <1>13, <1>14, <2>1
  <2>2. CASE u # t
    <3>1. Won(u)
      BY <2>2 DEF WonNext, Won, Leading
    <3>2. /\ FromHist(h, h[u]) /\ Rising(h[u], u) /\ h[u] \in Seq(EntryOf(Payload))
          /\ Len(h[u]) <= MaxLog + u
      BY <1>1, <3>1 DEF HistOK
    <3>3. h2[u] = h[u]
      BY <1>4, <2>2
    <3> QED  BY <1>11, <3>2, <3>3, FromHistKept
  <2> QED  BY <2>1, <2>2
<1> QED  BY <1>4, <1>6, <1>11, <1>15 DEF n

LEMMA CommittedLonger ==
  ASSUME NEW h2, NEW E, NEW N, Len(E) \in Nat, Len(N) \in Nat, SameTo(E, N, Len(E)),
         NEW c \in Nat, NEW t, CommittedNext(h2, E, c, t)
  PROVE  CommittedNext(h2, N, c, t)
<1>1. CASE c = 0
  BY <1>1 DEF CommittedNext
<1>2. CASE c # 0
  <2>1. PICK k \in Nat, u \in Nat :
          c <= k /\ u <= t /\ Made(h2, k, u)' /\ Chosen(k, u)' /\ SameTo(E, h2[u], c)
    BY <1>2 DEF CommittedNext
  <2>2. c <= Len(E)
    BY <2>1 DEF SameTo
  <2>3. SameTo(N, h2[u], c)
    BY <2>1, <2>2, SameToLess, SameToSymmetric, SameToTransitive
  <2> QED  BY <2>1, <2>3 DEF CommittedNext
<1> QED  BY <1>1, <1>2

LEMMA LeadRecorded ==
  ASSUME NoSnapshots, Reconfigurable = {}, TypeOK, TypeOK', MatchingInv, MatchingInv',
         ElectionInv, ElectionInv', ElectionSafety', NEW h, NEW i \in Server, Recorded(h),
         NEW t \in Nat, Leading(i, t), NEW n \in NodeState, n.config = Server,
         n.old_config = {}, NumberedLog(0, n.log), NEW e \in EntryOf(Payload), e.term = t,
         n.log.entries = Append(Entries(i), e), n.commit_index = node[i].commit_index,
         n.applied_index = node[i].applied_index, n.state_machine = node[i].state_machine,
         MatchTrue(n, t), node'[i] = AdvanceCommit(i, n, t)
  PROVE  CommitInv' /\ CommitSafe
<1> DEFINE E == Entries(i)
           c == node[i].commit_index
           a == node[i].applied_index
<1>a. PICK N : N = n.log.entries
  OBVIOUS
<1>b. PICK h2 : h2 = [h EXCEPT ![t] = N]
  OBVIOUS
<1>1. N = node'[i].log.entries /\ N = n.log.entries /\ N = Append(E, e)
  BY <1>a, AdvanceKeepsLog
<1>2. /\ Moves(h, h2, i) /\ HistOK(h2)' /\ h2[t] = N
      /\ \A u \in Nat \ {t} : h2[u] = h[u]
      /\ SameTo(E, N, Len(E))
  <2>1. Lengthened(h, h2, i, t, N, e)
    BY <1>1, <1>b DEF Lengthened
  <2> QED  BY <2>1, LeadMoves
<1>3. /\ HistOK(h) /\ LogsOK(h) /\ CommitOK(h) /\ AppliedOK
      /\ h \in [Nat -> Seq(EntryOf(Payload))]
  BY DEF Recorded, HistOK
<1>4. /\ Len(E) \in Nat /\ Len(N) \in Nat /\ c \in Nat /\ a \in Nat
      /\ current_term[i] \in Nat /\ current_term[i] <= t
  <2>1. n.log \in LogOf(Payload)
    BY NodeFields
  <2>2. Len(N) \in Nat
    BY <1>1, <2>1, ReadType
  <2>3. Len(E) \in Nat
    BY EntriesType
  <2>4. node[i] \in NodeState /\ current_term[i] \in Nat
    BY DEF TypeOK
  <2>5. c \in Nat /\ a \in Nat
    BY <2>4, NodeFields
  <2>6. current_term[i] <= t
    BY DEF Leading, Frame
  <2> QED  BY <2>2, <2>3, <2>4, <2>5, <2>6
<1>5. role'[i] = Leader /\ current_term'[i] = t /\ <<t, i>> \in elected' /\ msgs \subseteq msgs'
  BY DEF Leading, Frame
<1> HIDE DEF E
<1>6. Committed(h, E, c, current_term[i])
  BY <1>3 DEF CommitOK, E
<1>7. c <= Len(E) /\ a <= c
  BY <1>3, <1>4, <1>6, CommitWithin DEF AppliedOK
<1>8. CommittedNext(h2, N, c, t)
  <2>1. CommittedNext(h2, E, c, t)
    BY <1>2, <1>4, <1>6, CommittedKept
  <2> QED  BY <1>2, <1>4, <2>1, CommittedLonger
<1>9. AppliedTo(n)
  <2>1. SameTo(E, N, a)
    <3>1. a <= Len(E)
      BY <1>4, <1>7
    <3> QED  BY <1>2, <1>4, <3>1, SameToLess
  <2>2. Commands(E, a) = Commands(N, a)
    BY <1>4, <2>1, CommandsSame
  <2>3. node[i].state_machine = Commands(E, a)
    BY <1>3 DEF AppliedOK, E
  <2> QED  BY <1>1, <1>7, <2>2, <2>3 DEF AppliedTo
<1>10. /\ CommittedNext(h2, N, node'[i].commit_index, t) /\ AppliedTo(node'[i])
       /\ node'[i].match_index = n.match_index /\ c <= node'[i].commit_index
  <2>1. h2[t] = n.log.entries /\ CommittedNext(h2, n.log.entries, n.commit_index, t)
    BY <1>1, <1>2, <1>8
  <2>2. LET r == AdvanceCommit(i, n, t)
        IN  /\ CommittedNext(h2, r.log.entries, r.commit_index, t) /\ AppliedTo(r)
            /\ r.match_index = n.match_index /\ n.commit_index <= r.commit_index
    BY <1>5, <1>9, <2>1, CountsCommit
  <2> QED  BY <1>1, <2>2
<1>11. Settled(h2, i)
  <2>1. FromHist(h2, N)' /\ Rising(N, t)
    <3>1. Won(t)'
      BY <1>5 DEF Won
    <3> QED  BY <1>2, <3>1 DEF HistOK
  <2>2. \A k \in 1..Len(N) : /\ WonNext(N[k].term) /\ SameTo(N, h2[N[k].term], k)
                             /\ N[k].term <= t
    BY <2>1 DEF FromHist, Rising, Won, WonNext
  <2>3. MatchTrue(node'[i], t)
    BY <1>10 DEF MatchTrue
  <2> QED  BY <1>1, <1>2, <1>5, <1>10, <2>2, <2>3 DEF Settled
<1>12. Won(t) => h[t] = E
  BY <1>3 DEF Leading, LogsOK, E
<1>13. Holding(h, i)
  <2>1. ASSUME NEW k \in Nat, NEW u \in Nat, HasAt(E, k, u)
        PROVE  HasAt(N, k, u)
    <3>1. k <= Len(E)
      BY <1>4, <2>1 DEF HasAt
    <3> QED  BY <1>2, <1>4, <2>1, <3>1, SameToHas
  <2>2. ASSUME NEW k \in Nat, NEW u \in Nat, Made(h, k, u), Acked(i, u, k)', ~Acked(i, u, k)
        PROVE  HasAt(N, k, u)
    <3>1. u = t
      BY <1>2, <1>5, <2>2, AckedBefore DEF Moves
    <3>2. HasAt(E, k, u)
      BY <1>12, <2>2, <3>1 DEF Made
    <3> QED  BY <2>1, <3>2
  <2> QED  BY <1>1, <2>1, <2>2 DEF Holding, E
<1>14. KeepsTerm(h, i)
  <2> SUFFICES ASSUME NEW k \in Nat, NEW G, SameTo(E, G, k)
               PROVE  SameTo(N, G, k)
    BY <1>1 DEF KeepsTerm, E
  <2>1. k <= Len(E)
    BY DEF SameTo
  <2>2. SameTo(N, E, k)
    BY <1>2, <1>4, <2>1, SameToLess, SameToSymmetric
  <2> QED  BY <2>2, SameToTransitive
<1>15. ASSUME NEW j \in Server \ {i}, role[j] = Leader
       PROVE  h2[current_term[j]] = h[current_term[j]]
  <2>1. <<current_term[j], j>> \in elected'
    BY <1>15 DEF MatchingInv, LeaderHas, Leading
  <2>2. current_term[j] \in Nat
    BY DEF TypeOK
  <2>3. current_term[j] # t
    <3>1. \A x, y \in elected' : x[1] = y[1] => x[2] = y[2]
      BY DEF ElectionSafety
    <3> QED  BY <1>5, <2>1, <3>1
  <2> QED  BY <1>2, <2>2, <2>3
<1>16. \A m \in msgs' : m \in msgs \/ AckOK(h2, m)'
  BY DEF Leading, AckOK
<1>17. ~Won(t) => NewLeader(h2, i)
  <2> SUFFICES ASSUME ~Won(t) PROVE NewLeader(h2, i)
    OBVIOUS
  <2>1. ~(role[i] = Leader /\ current_term[i] = t)
    BY DEF MatchingInv, LeaderHas, Won
  <2>2. \/ role[i] = Candidate /\ current_term[i] = t
        \/ current_term[i] < t
    BY <2>1 DEF Leading
  <2>3. \A m \in msgs' : m.type = "vote_resp" /\ m.granted => m \in msgs
    BY DEF Leading
  <2>4. SameTo(Entries(i), h2[t], Len(Entries(i)))
    BY <1>2 DEF E
  <2> QED  BY <1>5, <2>2, <2>3, <2>4 DEF NewLeader
<1>18. Recorded(h2)'
  BY <1>2, <1>5, <1>11, <1>13, <1>14, <1>15, <1>16, <1>17, RecordedStep
<1>19. CommitInv'
  BY <1>18 DEF CommitInv
<1>20. SameTo(N, E, c)
  BY <1>2, <1>4, <1>7, SameToLess, SameToSymmetric
<1>21. CommitSafe
  BY <1>1, <1>3, <1>10, <1>20, SafeAtOthers DEF Leading, E
<1> QED  BY <1>19, <1>21

-----------------------------------------------------------------------------
(* The steps that leave the logs as they are *)

\* Server i sends what a server sends, and acknowledges nothing.
Talks(i) ==
  /\ msgs \subseteq msgs'
  /\ \A m \in msgs' : m \in msgs \/ (Sent(i, m) /\ ~(m.type = "append_resp" /\ m.success))

\* It does not vote either.
Speaks(i) ==
  Talks(i) /\ \A m \in msgs' : m.type = "vote_resp" /\ m.granted => m \in msgs

LEMMA SpeaksOf ==
  ASSUME NEW i \in Server, NEW M, Send(M),
         \A m \in M : \/ m.type \in {"prevote", "prevote_resp", "timeout_now"}
                      \/ m.type = "append_resp" /\ ~m.success
                      \/ m.type = "vote_resp" /\ ~m.granted
  PROVE  Speaks(i)
<1>1. \A m \in M : /\ Sent(i, m) /\ ~(m.type = "append_resp" /\ m.success)
                   /\ ~(m.type = "vote_resp" /\ m.granted)
  BY DEF Sent
<1> QED  BY <1>1 DEF Send, Speaks, Talks

LEMMA AppendsSpeak ==
  ASSUME NEW i \in Server, role'[i] = Leader, NEW M, Send(M),
         \A m \in M : \E p \in Server : m = SendAppend(i, node'[i], current_term'[i], p)
  PROVE  Speaks(i)
<1>1. \A m \in M : m.type \in {"append", "install_snapshot"}
  BY DEF SendAppend, InstallMsg
<1>2. \A m \in M : Sent(i, m)
  BY <1>1 DEF Sent
<1> QED  BY <1>1, <1>2 DEF Send, Speaks, Talks

LEMMA AllAppendsSpeak ==
  ASSUME TypeOK', NEW i \in Server, role'[i] = Leader,
         Send(SendAllAppends(i, node'[i], current_term'[i]))
  PROVE  Speaks(i)
<1>1. Peers(i, node'[i]) \subseteq Server
  BY NodeFields DEF TypeOK, Peers
<1>2. \A m \in SendAllAppends(i, node'[i], current_term'[i]) :
        \E p \in Server : m = SendAppend(i, node'[i], current_term'[i], p)
  BY <1>1 DEF SendAllAppends
<1> QED  BY <1>2, AppendsSpeak

LEMMA NothingSaid ==
  ASSUME NEW i \in Server, UNCHANGED msgs
  PROVE  Speaks(i)
BY DEF Speaks, Talks

\* No server changes, but for what it says.
LEMMA IdleRecorded ==
  ASSUME LogInv, LogInv', ElectionSafety', NEW h, Recorded(h), NEW i \in Server,
         Talks(i), UNCHANGED <<node, role, current_term, elected>>
  PROVE  CommitInv' /\ CommitSafe
<1>1. TypeOK /\ TypeOK' /\ MatchingInv /\ MatchingInv' /\ ElectionInv /\ ElectionInv' /\ MatchOK
  BY DEF LogInv, Recorded
<1>2. current_term[i] <= current_term'[i]
  BY <1>1 DEF TypeOK
<1>3. Frame(i)
  BY <1>2 DEF Frame, Talks
<1>4. role'[i] = Leader => MatchTrue(node'[i], current_term'[i])
  BY <1>1 DEF MatchOK, MatchTrue
<1>5. Still(i) /\ node'[i] = node[i]
  BY <1>3, <1>4 DEF Still, Talks
<1> QED  BY <1>1, <1>5, PauseRecorded DEF CommitInv

\* Server i becomes or stays a follower.
LEMMA FollowRecorded ==
  ASSUME LogInv, LogInv', ElectionSafety', NEW h, Recorded(h), NEW i \in Server,
         Talks(i), Follows(i), current_term[i] <= current_term'[i], UNCHANGED node
  PROVE  CommitInv' /\ CommitSafe
<1>1. TypeOK /\ TypeOK' /\ MatchingInv /\ MatchingInv' /\ ElectionInv /\ ElectionInv'
  BY DEF LogInv
<1>2. role'[i] # Leader /\ role'[i] # Candidate
  BY DEF Follows, Follower, Leader, Candidate
<1>3. Frame(i)
  BY <1>2 DEF Frame, Talks, Follows
<1>4. Still(i) /\ node'[i] = node[i]
  BY <1>2, <1>3 DEF Still, Talks, Follows
<1> QED  BY <1>1, <1>4, PauseRecorded DEF CommitInv

LEMMA HeartbeatCommit ==
  ASSUME LogInv, LogInv', ElectionSafety', NEW h, Recorded(h), NEW i \in Server,
         Heartbeat(i) \/ AbortTransfer(i)
  PROVE  CommitInv' /\ CommitSafe
<1>1. /\ Send(SendAllAppends(i, node[i], current_term[i])) /\ role[i] = Leader
      /\ UNCHANGED <<node, role, current_term, elected>>
  BY DEF Heartbeat, AbortTransfer, electionVars
<1>2. Send(SendAllAppends(i, node'[i], current_term'[i])) /\ role'[i] = Leader
  BY <1>1
<1>3. Talks(i)
  BY <1>2, AllAppendsSpeak DEF LogInv, Speaks
<1> QED  BY <1>1, <1>3, IdleRecorded

LEMMA CheckQuorumCommit ==
  ASSUME LogInv, LogInv', ElectionSafety', NEW h, Recorded(h), NEW i \in Server, CheckQuorum(i)
  PROVE  CommitInv' /\ CommitSafe
<1>1. StepDown(i, current_term[i]) /\ UNCHANGED <<node, msgs, elected>>
  BY DEF CheckQuorum
<1>2. TypeOK /\ Talks(i)
  BY <1>1, NothingSaid DEF LogInv, Speaks
<1>3. current_term[i] <= current_term'[i]
  BY <1>1, <1>2 DEF TypeOK, StepDown, MaxOf
<1> QED  BY <1>1, <1>2, <1>3, StepDownFollows, FollowRecorded

LEMMA TransferCommit ==
  ASSUME LogInv, LogInv', ElectionSafety', NEW h, Recorded(h), NEW i \in Server,
         NEW target, TransferLeadership(i, target)
  PROVE  CommitInv' /\ CommitSafe
<1> DEFINE m == [type |-> "timeout_now", dest |-> target, term |-> current_term[i]]
<1>1. Send({m}) /\ UNCHANGED <<node, role, current_term, elected>>
  BY DEF TransferLeadership
<1>2. m.type = "timeout_now"
  OBVIOUS
<1> HIDE DEF m
<1>3. Talks(i)
  BY <1>1, <1>2, SpeaksOf DEF Speaks
<1> QED  BY <1>1, <1>3, IdleRecorded

LEMMA StartPreVoteCommit ==
  ASSUME LogInv, LogInv', ElectionSafety', NEW h, Recorded(h), NEW i \in Server, StartPreVote(i)
  PROVE  CommitInv' /\ CommitSafe
<1>1. /\ Send(VoteRequests(i, "prevote", current_term[i] + 1))
      /\ UNCHANGED <<node, role, current_term, elected>>
  BY DEF StartPreVote
<1>2. \A m \in VoteRequests(i, "prevote", current_term[i] + 1) : m.type = "prevote"
  BY DEF VoteRequests
<1>3. Talks(i)
  BY <1>1, <1>2, SpeaksOf DEF Speaks
<1> QED  BY <1>1, <1>3, IdleRecorded

LEMMA OnPrevoteCommit ==
  ASSUME LogInv, LogInv', ElectionSafety', NEW h, Recorded(h), NEW i \in Server,
         NEW m \in msgs, OnPrevote(i, m)
  PROVE  CommitInv' /\ CommitSafe
<1>1. /\ UNCHANGED <<node, role, current_term, elected>>
      /\ \E granted : Send({[type |-> "prevote_resp", dest |-> m.candidate,
                             term |-> m.term, from |-> i, granted |-> granted]})
  BY DEF OnPrevote, electionVars
<1>2. Talks(i)
  <2>1. PICK granted : Send({[type |-> "prevote_resp", dest |-> m.candidate,
                              term |-> m.term, from |-> i, granted |-> granted]})
    BY <1>1
  <2> QED  BY <2>1, SpeaksOf DEF Speaks
<1> QED  BY <1>1, <1>2, IdleRecorded

-----------------------------------------------------------------------------
(* Elections and proposals *)

LEMMA AppendAdds ==
  ASSUME NEW l \in LogOf(Payload), NEW t \in Nat, NEW payload \in Payload
  PROVE  /\ \E e \in EntryOf(Payload) :
              e.term = t /\ AppendEntry(l, t, payload).entries = Append(l.entries, e)
         /\ AppendEntry(l, t, payload).snapshot_last_index = l.snapshot_last_index
<1> DEFINE e == [index |-> LastIndex(l) + 1, term |-> t, payload |-> payload]
<1>1. LastIndex(l) \in Nat
  BY ReadType
<1>2. e \in EntryOf(Payload) /\ e.term = t
  BY <1>1 DEF EntryOf
<1>3. AppendEntry(l, t, payload) = [l EXCEPT !.entries = Append(l.entries, e)]
  BY DEF AppendEntry
<1> HIDE DEF e
<1> QED  BY <1>2, <1>3 DEF LogOf

\* Server i, leading term t, adds an entry to what it knows, b.
LEMMA ProposeRecorded ==
  ASSUME NoSnapshots, Reconfigurable = {}, LogInv, LogInv', ElectionSafety',
         NEW h, Recorded(h), NEW i \in Server, NEW t \in Nat, Leading(i, t),
         NEW b \in NodeState, b.log = node[i].log, b.config = Server, b.old_config = {},
         b.commit_index = node[i].commit_index, b.applied_index = node[i].applied_index,
         b.state_machine = node[i].state_machine, MatchTrue(b, t),
         NEW payload \in Payload, node'[i] = ProposeEntry(i, b, t, payload)
  PROVE  CommitInv' /\ CommitSafe
<1>1. /\ TypeOK /\ TypeOK' /\ MatchingInv /\ MatchingInv' /\ ElectionInv /\ ElectionInv'
      /\ b.log \in LogOf(Payload) /\ NumberedLog(0, b.log)
  BY LogType DEF LogInv
<1>2. PICK l : l = AppendEntry(b.log, t, payload)
  OBVIOUS
<1>3. PICK n : n = [b EXCEPT !.log = l]
  OBVIOUS
<1>4. l \in LogOf(Payload) /\ NumberedLog(0, l)
  BY <1>1, <1>2, AppendEntryType, AppendGrows
<1>5. PICK e \in EntryOf(Payload) : e.term = t /\ l.entries = Append(b.log.entries, e)
  BY <1>1, <1>2, AppendAdds
<1>6. n \in NodeState /\ n.log = l
  BY <1>3, <1>4, SetLog DEF NodeState
<1>7. /\ n.config = b.config /\ n.old_config = b.old_config
      /\ n.commit_index = b.commit_index /\ n.applied_index = b.applied_index
      /\ n.state_machine = b.state_machine /\ n.match_index = b.match_index
  BY <1>3 DEF NodeState
<1>8. node'[i] = AdvanceCommit(i, n, t)
  BY <1>2, <1>3 DEF ProposeEntry
<1>9. n.log.entries = Append(Entries(i), e) /\ NumberedLog(0, n.log)
  BY <1>4, <1>5, <1>6 DEF Entries
<1>10. MatchTrue(n, t)
  BY <1>7 DEF MatchTrue
<1>11. /\ n.config = Server /\ n.old_config = {}
       /\ n.commit_index = node[i].commit_index /\ n.applied_index = node[i].applied_index
       /\ n.state_machine = node[i].state_machine
  BY <1>7
<1> QED  BY <1>1, <1>5, <1>6, <1>8, <1>9, <1>10, <1>11, LeadRecorded

LEMMA ProposeCommit ==
  ASSUME NoSnapshots, Reconfigurable = {}, LogInv, LogInv', ElectionSafety',
         NEW h, Recorded(h), NEW i \in Server, NEW v \in Value, Propose(i, v)
  PROVE  CommitInv' /\ CommitSafe
<1>1. PICK t : t = current_term[i]
  OBVIOUS
<1>2. /\ role[i] = Leader
      /\ node' = [node EXCEPT ![i] = ProposeEntry(i, node[i], t, Command(v))]
      /\ Send(SendAllAppends(i, node'[i], t))
      /\ UNCHANGED <<role, current_term, elected>>
  BY <1>1 DEF Propose, electionVars
<1>3. /\ TypeOK /\ TypeOK' /\ MatchingInv /\ t \in Nat /\ Command(v) \in Payload /\ MatchOK
      /\ node[i] \in NodeState /\ node[i].log \in LogOf(Payload)
  BY <1>1, LogType DEF LogInv, TypeOK, Payload, Recorded
<1>4. /\ node'[i] = ProposeEntry(i, node[i], t, Command(v))
      /\ \A j \in Server \ {i} : node'[j] = node[j]
  BY <1>2, <1>3, NodeLogs
<1>5. node'[i].log = AppendEntry(node[i].log, t, Command(v))
  BY <1>3, <1>4, ProposeAppends
<1>6. Speaks(i)
  BY <1>1, <1>2, <1>3, AllAppendsSpeak
<1>7. node'[i].log.snapshot_last_index = node[i].log.snapshot_last_index
  BY <1>3, <1>5, AppendAdds
<1>8. Frame(i)
  <2>1. role'[i] # Candidate /\ current_term[i] <= current_term'[i]
    BY <1>2, <1>3 DEF Leader, Candidate, TypeOK
  <2> QED  BY <1>2, <1>4, <1>6, <1>7, <2>1 DEF Frame, Speaks, Talks
<1>9. <<t, i>> \in elected
  BY <1>1, <1>2, <1>3 DEF MatchingInv, LeaderHas
<1>10. Leading(i, t)
  <2>1. \A x \in Nat : LastIndex(node[i].log) = Len(node[i].log.entries)
    BY <1>3, LogType, TermAtReads
  <2>2. LastIndex(node[i].log) = Len(Entries(i)) /\ LastIndex(node[i].log) < MaxLog
    BY <1>3, <2>1 DEF Propose, Entries
  <2> QED  BY <1>1, <1>2, <1>6, <1>8, <1>9, <2>2 DEF Leading, Speaks, Talks
<1>11. MatchTrue(node[i], t)
  BY <1>1, <1>2, <1>3 DEF MatchOK, MatchTrue
<1>12. node[i].config = Server /\ node[i].old_config = {}
  BY DEF LogInv, ConfigFixed
<1> QED  BY <1>3, <1>4, <1>10, <1>11, <1>12, ProposeRecorded

LEMMA BecomeLeaderCommit ==
  ASSUME NoSnapshots, Reconfigurable = {}, LogInv, LogInv', ElectionSafety',
         NEW h, Recorded(h), NEW i \in Server, NEW t \in Nat \ {0}, BecomeLeader(i, t),
         <<t, i>> \notin elected, current_term'[i] = t, current_term[i] <= t,
         \/ role[i] = Candidate /\ current_term[i] = t
         \/ current_term[i] < t,
         \A j \in Server \ {i} : current_term'[j] = current_term[j]
  PROVE  CommitInv' /\ CommitSafe
<1>1. /\ role' = [role EXCEPT ![i] = Leader]
      /\ node' = [node EXCEPT ![i] = LeaderState(i, node[i], t)]
      /\ Send(SendAllAppends(i, node'[i], t))
      /\ elected' = elected \cup {<<t, i>>}
  BY DEF BecomeLeader
<1>2. /\ TypeOK /\ TypeOK' /\ MatchingInv
      /\ node[i] \in NodeState /\ node[i].log \in LogOf(Payload)
  BY LogType DEF LogInv
<1>3. /\ node'[i] = LeaderState(i, node[i], t)
      /\ \A j \in Server \ {i} : node'[j] = node[j]
  BY <1>1, <1>2, NodeLogs
<1>4. node'[i].log = AppendEntry(node[i].log, t, Noop) /\ Noop \in Payload
  BY <1>2, <1>3, LeaderStateAppends DEF Payload
<1>5. role'[i] = Leader /\ \A j \in Server \ {i} : role'[j] = role[j]
  BY <1>1, <1>2 DEF TypeOK
<1>6. Speaks(i)
  BY <1>1, <1>2, <1>5, AllAppendsSpeak
<1>7. node'[i].log.snapshot_last_index = node[i].log.snapshot_last_index
  BY <1>2, <1>4, AppendAdds
<1>8. Frame(i)
  <2>1. role'[i] # Candidate
    BY <1>5 DEF Leader, Candidate
  <2> QED  BY <1>3, <1>5, <1>6, <1>7, <2>1 DEF Frame, Speaks, Talks
<1>9. ~Won(t)
  <2> SUFFICES ASSUME NEW x \in Server, <<t, x>> \in elected
               PROVE  FALSE
    BY DEF Won
  <2>1. \A a, b \in elected' : a[1] = b[1] => a[2] = b[2]
    BY DEF ElectionSafety
  <2>2. x = i
    BY <1>1, <2>1
  <2> QED  BY <2>2
<1>10. Leading(i, t)
  BY <1>1, <1>5, <1>6, <1>8, <1>9 DEF Leading, Speaks, Talks
<1>11. PICK next : next = [p \in Server |->
                             IF p \in Peers(i, node[i]) THEN LastIndex(node[i].log) + 1 ELSE 0]
  OBVIOUS
<1>12. PICK match : match = [p \in Server |-> 0]
  OBVIOUS
<1>13. next \in [Server -> Nat] /\ match \in [Server -> Nat]
  <2>1. LastIndex(node[i].log) \in Nat
    BY <1>2, ReadType
  <2> QED  BY <1>11, <1>12, <2>1
<1>14. PICK a : a = [node[i] EXCEPT !.next_index = next]
  OBVIOUS
<1>15. PICK b : b = [a EXCEPT !.match_index = match]
  OBVIOUS
<1>16. node'[i] = ProposeEntry(i, b, t, Noop)
  BY <1>3, <1>11, <1>12, <1>14, <1>15 DEF LeaderState
<1>17. /\ a \in NodeState /\ a.log = node[i].log /\ a.config = node[i].config
       /\ a.old_config = node[i].old_config /\ a.commit_index = node[i].commit_index
       /\ a.applied_index = node[i].applied_index /\ a.state_machine = node[i].state_machine
  BY <1>2, <1>13, <1>14, SetNextIndex DEF NodeState
<1>18. /\ b \in NodeState /\ b.log = a.log /\ b.config = a.config
       /\ b.old_config = a.old_config /\ b.commit_index = a.commit_index
       /\ b.applied_index = a.applied_index /\ b.state_machine = a.state_machine
       /\ b.match_index = match
  BY <1>13, <1>15, <1>17, SetMatchIndex DEF NodeState
<1>19. MatchTrue(b, t)
  BY <1>12, <1>18 DEF MatchTrue
<1>20. node[i].config = Server /\ node[i].old_config = {}
  BY DEF LogInv, ConfigFixed
<1> QED  BY <1>4, <1>10, <1>16, <1>17, <1>18, <1>19, <1>20, ProposeRecorded

LEMMA StartElectionCommit ==
  ASSUME NoSnapshots, Reconfigurable = {}, LogInv, LogInv', ElectionSafety',
         NEW h, Recorded(h), NEW i \in Server, NEW pre, StartElection(i, pre)
  PROVE  CommitInv' /\ CommitSafe
<1>1. PICK t : t = current_term[i] + 1
  OBVIOUS
<1>2. /\ current_term' = [current_term EXCEPT ![i] = t]
      /\ \/ BecomeLeader(i, t)
         \/ /\ role' = [role EXCEPT ![i] = Candidate]
            /\ Send(VoteRequests(i, "vote", t))
            /\ UNCHANGED <<node, elected>>
  BY <1>1 DEF StartElection
<1>3. /\ TypeOK /\ TypeOK' /\ MatchingInv /\ MatchingInv' /\ ElectionInv /\ ElectionInv'
      /\ LeaderPast
  BY DEF LogInv, ElectionInv
<1>4. t \in Nat \ {0} /\ current_term[i] < t /\ current_term[i] <= t /\ current_term[i] \in Nat
  BY <1>1, <1>3 DEF TypeOK
<1>5. <<t, i>> \notin elected
  <2>1. <<t, i>> \in elected => t <= current_term[i]
    <3>1. \A e \in elected : e[1] <= current_term[e[2]]
      BY <1>3 DEF LeaderPast
    <3> QED  BY <3>1
  <2> QED  BY <1>4, <2>1
<1>6. current_term'[i] = t /\ \A j \in Server \ {i} : current_term'[j] = current_term[j]
  BY <1>2, <1>3 DEF TypeOK
<1>7. CASE BecomeLeader(i, t)
  BY <1>4, <1>5, <1>6, <1>7, BecomeLeaderCommit
<1>8. CASE /\ role' = [role EXCEPT ![i] = Candidate]
           /\ Send(VoteRequests(i, "vote", t))
           /\ UNCHANGED <<node, elected>>
  <2>1. /\ role'[i] = Candidate /\ role'[i] # Leader
        /\ \A j \in Server \ {i} : role'[j] = role[j]
    BY <1>3, <1>8 DEF TypeOK, Leader, Candidate
  <2>2. \A m \in VoteRequests(i, "vote", t) :
          /\ m.type = "vote" /\ m.candidate = i /\ m.term = t
          /\ m.last_term = Progress(node[i].log)[1] /\ m.last_index = Progress(node[i].log)[2]
    BY DEF VoteRequests
  <2>3. Progress(node[i].log) = <<Progress(node[i].log)[1], Progress(node[i].log)[2]>>
    BY DEF Progress
  <2>4. \A m \in VoteRequests(i, "vote", t) : Sent(i, m) /\ m.type # "append_resp"
    BY <1>4, <1>6, <1>8, <2>2, <2>3 DEF Sent
  <2>5. Talks(i)
    BY <1>8, <2>4 DEF Talks, Send
  <2>6. Frame(i)
    BY <1>4, <1>6, <1>8, <2>1, <2>5 DEF Frame, Talks
  <2>7. Still(i) /\ node'[i] = node[i]
    BY <1>8, <2>1, <2>5, <2>6 DEF Still, Talks
  <2> QED  BY <1>3, <2>7, PauseRecorded DEF CommitInv
<1> QED  BY <1>2, <1>7, <1>8

LEMMA OnPrevoteRespCommit ==
  ASSUME NoSnapshots, Reconfigurable = {}, LogInv, LogInv', ElectionSafety',
         NEW h, Recorded(h), NEW i \in Server, NEW m \in msgs, OnPrevoteResp(i, m)
  PROVE  CommitInv' /\ CommitSafe
<1>1. StartElection(i, FALSE) \/ UNCHANGED <<node, role, current_term, msgs, elected>>
  BY DEF OnPrevoteResp
<1>2. CASE UNCHANGED <<node, role, current_term, msgs, elected>>
  BY <1>2, NothingSaid, IdleRecorded DEF Speaks
<1> QED  BY <1>1, <1>2, StartElectionCommit

LEMMA OnVoteRespCommit ==
  ASSUME NoSnapshots, Reconfigurable = {}, LogInv, LogInv', ElectionSafety',
         NEW h, Recorded(h), NEW i \in Server, NEW m \in msgs, OnVoteResp(i, m)
  PROVE  CommitInv' /\ CommitSafe
<1>1. /\ role[i] = Candidate /\ UNCHANGED current_term
      /\ BecomeLeader(i, current_term[i]) \/ UNCHANGED <<node, role, msgs, elected>>
  BY DEF OnVoteResp
<1>2. CASE UNCHANGED <<node, role, msgs, elected>>
  BY <1>1, <1>2, NothingSaid, IdleRecorded DEF Speaks
<1>3. CASE BecomeLeader(i, current_term[i])
  <2>1. /\ <<current_term[i], i>> \notin elected /\ current_term[i] \in Nat \ {0}
        /\ current_term[i] <= current_term[i]
    <3>1. <<current_term[i], i>> \notin elected /\ current_term[i] \in 1..MaxTerm
      BY <1>1 DEF LogInv, MatchingInv, CandidateNew
    <3> QED  BY <3>1, BoundAssumption
  <2> QED  BY <1>1, <1>3, <2>1, BecomeLeaderCommit
<1> QED  BY <1>1, <1>2, <1>3

\* A vote is granted to a request that shows an up-to-date log.
LEMMA ReplyTalks ==
  ASSUME NEW i \in Server, NEW m \in msgs, m.type = "vote", NEW t, NEW granted \in BOOLEAN,
         granted => t = m.term /\ t = current_term'[i] /\ UpToDate(m, node[i].log),
         Send({VoteReply(i, m, t, granted)})
  PROVE  Talks(i)
<1>1. PICK r : r = VoteReply(i, m, t, granted)
  OBVIOUS
<1>2. /\ r.type = "vote_resp" /\ r.from = i /\ r.term = t /\ r.dest = m.candidate
      /\ r.granted = granted
  BY <1>1 DEF VoteReply
<1>3. Sent(i, r)
  BY <1>2 DEF Sent
<1> QED  BY <1>1, <1>2, <1>3 DEF Talks, Send

LEMMA OnVoteCommit ==
  ASSUME LogInv, LogInv', ElectionSafety', NEW h, Recorded(h), NEW i \in Server,
         NEW m \in msgs, OnVote(i, m)
  PROVE  CommitInv' /\ CommitSafe
<1>1. m.type = "vote" /\ UNCHANGED <<node, elected>> /\ TypeOK /\ m.term \in Nat
  BY MessageFields DEF OnVote, LogInv, TypeOK
<1>2. CASE /\ Send({VoteReply(i, m, current_term[i], FALSE)})
           /\ UNCHANGED <<role, current_term>>
  BY <1>1, <1>2, ReplyTalks, IdleRecorded
<1>3. CASE /\ m.term = current_term[i]
           /\ Send({VoteReply(i, m, m.term, GrantsVote(i, m, voted_for[i]))})
           /\ UNCHANGED <<role, current_term>>
  <2>1. PICK granted \in BOOLEAN : granted = GrantsVote(i, m, voted_for[i])
    BY DEF GrantsVote
  <2>2. granted => UpToDate(m, node[i].log)
    BY <2>1 DEF GrantsVote
  <2>3. Talks(i)
    BY <1>1, <1>3, <2>1, <2>2, ReplyTalks
  <2> QED  BY <1>1, <1>3, <2>3, IdleRecorded
<1>4. CASE /\ m.term > current_term[i]
           /\ current_term' = [current_term EXCEPT ![i] = m.term]
           /\ role' = [role EXCEPT ![i] = Follower]
           /\ Send({VoteReply(i, m, m.term, GrantsVote(i, m, None))})
  <2>1. PICK granted \in BOOLEAN : granted = GrantsVote(i, m, None)
    BY DEF GrantsVote
  <2>2. granted => UpToDate(m, node[i].log)
    BY <2>1 DEF GrantsVote
  <2>3. Follows(i) /\ current_term'[i] = m.term /\ current_term[i] \in Nat
    BY <1>1, <1>4 DEF Follows, TypeOK
  <2>4. Talks(i)
    BY <1>1, <1>4, <2>1, <2>2, <2>3, ReplyTalks
  <2>5. current_term[i] <= current_term'[i]
    BY <1>1, <1>4, <2>3
  <2> QED  BY <1>1, <2>3, <2>4, <2>5, FollowRecorded
<1> QED  BY <1>2, <1>3, <1>4 DEF OnVote, electionVars

-----------------------------------------------------------------------------
(* Answers to appends, and restarts *)

LEMMA AdvanceKeepsMatch ==
  ASSUME NoSnapshots, Reconfigurable = {}, NEW i \in Server, NEW n \in NodeState, NEW t
  PROVE  AdvanceCommit(i, n, t).match_index = n.match_index
<1>1. CASE AdvanceCommit(i, n, t) = n
  BY <1>1
<1>2. CASE \E k \in Nat : AdvanceCommit(i, n, t) = ApplyCommitted(i, [n EXCEPT !.commit_index = k])
  <2>1. PICK k \in Nat : AdvanceCommit(i, n, t) = ApplyCommitted(i, [n EXCEPT !.commit_index = k])
    BY <1>2
  <2>2. PICK a : a = [n EXCEPT !.commit_index = k]
    OBVIOUS
  <2>3. a \in NodeState /\ a.match_index = n.match_index
    BY <2>2, SetCommit DEF NodeState
  <2> QED  BY <2>1, <2>2, <2>3, ApplyKeepsLog
<1> QED  BY <1>1, <1>2, AdvanceReads

LEMMA AcknowledgedFields ==
  ASSUME NEW n \in NodeState, NEW p \in Server, NEW m, m.match \in Nat
  PROVE  LET a == Acknowledged(n, p, m)
         IN  /\ a.log = n.log /\ a.commit_index = n.commit_index
             /\ a.applied_index = n.applied_index /\ a.state_machine = n.state_machine
             /\ \A q \in Server : \/ a.match_index[q] = n.match_index[q]
                                  \/ q = p /\ a.match_index[q] = m.match
<1>1. n.match_index \in [Server -> Nat]
  BY NodeFields
<1>2. PICK x : x = MaxOf(n.match_index[p], m.match)
  OBVIOUS
<1>3. x = n.match_index[p] \/ x = m.match
  BY <1>2 DEF MaxOf
<1>4. PICK f : f = [n.match_index EXCEPT ![p] = x]
  OBVIOUS
<1>5. \A q \in Server : f[q] = n.match_index[q] \/ (q = p /\ f[q] = m.match)
  BY <1>1, <1>3, <1>4
<1>6. PICK g : g = [n.next_index EXCEPT ![p] = x + 1]
  OBVIOUS
<1>7. PICK b : b = [n EXCEPT !.match_index = f]
  OBVIOUS
<1>8. /\ b.log = n.log /\ b.commit_index = n.commit_index
      /\ b.applied_index = n.applied_index /\ b.state_machine = n.state_machine
      /\ b.match_index = f /\ b.next_index = n.next_index /\ DOMAIN b = DOMAIN n
  BY <1>7 DEF NodeState
<1>9. Acknowledged(n, p, m) = [b EXCEPT !.next_index = g]
  BY <1>2, <1>4, <1>6, <1>7, <1>8 DEF Acknowledged
<1> QED  BY <1>5, <1>8, <1>9 DEF NodeState

LEMMA BackedOffFields ==
  ASSUME NEW n \in NodeState, NEW p, NEW m
  PROVE  LET b == BackedOff(n, p, m)
         IN  /\ b.log = n.log /\ b.commit_index = n.commit_index
             /\ b.applied_index = n.applied_index /\ b.state_machine = n.state_machine
             /\ b.match_index = n.match_index
BY DEF BackedOff, NodeState

\* A leader counts an acknowledgement.
LEMMA AcknowledgedCommit ==
  ASSUME NoSnapshots, Reconfigurable = {}, LogInv, LogInv', ElectionSafety',
         NEW h, Recorded(h), NEW i \in Server, NEW m \in msgs, m.type = "append_resp",
         m.success, m.term = current_term[i], role[i] = Leader, m.from \in Tracked(node[i]),
         node' = [node EXCEPT ![i] = AdvanceCommit(i, Acknowledged(node[i], m.from, m), m.term)],
         UNCHANGED <<role, current_term, msgs, elected>>
  PROVE  CommitInv' /\ CommitSafe
<1>1. /\ TypeOK /\ TypeOK' /\ MatchingInv /\ MatchingInv' /\ ElectionInv /\ ElectionInv'
      /\ node[i] \in NodeState /\ NumberedLog(0, node[i].log)
      /\ node[i].config = Server /\ node[i].old_config = {}
  BY LogType DEF LogInv, ConfigFixed
<1>2. /\ HistOK(h) /\ LogsOK(h) /\ CommitOK(h) /\ AppliedOK /\ MatchOK
  BY DEF Recorded
<1>3. m \in Message /\ m.match \in Nat /\ m.from \in Server /\ m.match >= m.match
  BY <1>1, MessageFields DEF TypeOK
<1>4. PICK t : t = current_term[i]
  OBVIOUS
<1>5. PICK n : n = Acknowledged(node[i], m.from, m)
  OBVIOUS
<1>6. /\ n.log = node[i].log /\ n.commit_index = node[i].commit_index
      /\ n.applied_index = node[i].applied_index /\ n.state_machine = node[i].state_machine
      /\ \A q \in Server : \/ n.match_index[q] = node[i].match_index[q]
                           \/ q = m.from /\ n.match_index[q] = m.match
  BY <1>1, <1>3, <1>5, AcknowledgedFields
<1>7. n \in NodeState /\ n.config = Server /\ n.old_config = {}
  BY <1>1, <1>3, <1>5, ProgressUpdateType DEF SameConfig
<1>8. /\ node'[i] = AdvanceCommit(i, n, t)
      /\ \A j \in Server \ {i} : node'[j] = node[j]
  BY <1>1, <1>4, <1>5, NodeLogs
<1>9. node'[i].log = node[i].log /\ node'[i].match_index = n.match_index
  BY <1>6, <1>7, <1>8, AdvanceKeepsLog, AdvanceKeepsMatch
<1>10. MatchTrue(n, t)
  <2> SUFFICES ASSUME NEW p \in Server
               PROVE  n.match_index[p] = 0 \/ \E r \in msgs : AckOf(r, p, t, n.match_index[p])
    BY DEF MatchTrue
  <2>1. CASE n.match_index[p] = node[i].match_index[p]
    BY <1>2, <1>4, <2>1 DEF MatchOK
  <2>2. CASE p = m.from /\ n.match_index[p] = m.match
    <3>1. AckOf(m, p, t, n.match_index[p])
      BY <1>3, <1>4, <2>2 DEF AckOf
    <3> QED  BY <3>1
  <2> QED  BY <1>6, <2>1, <2>2
<1>11. MatchTrue(node'[i], t)
  BY <1>9, <1>10 DEF MatchTrue
<1>12. t \in Nat /\ t <= t /\ current_term'[i] = t
  BY <1>1, <1>4 DEF TypeOK
<1>13. Frame(i)
  BY <1>4, <1>8, <1>9, <1>12 DEF Frame
<1>14. Still(i)
  BY <1>4, <1>9, <1>11, <1>12, <1>13 DEF Still
<1>15. Moves(h, h, i)
  BY <1>2, <1>14, StillMoves
<1>16. /\ node[i].commit_index \in Nat /\ Entries(i) = n.log.entries
       /\ Committed(h, Entries(i), node[i].commit_index, t)
  BY <1>1, <1>2, <1>4, <1>6, NodeFields DEF CommitOK, Entries
<1>17. CommittedNext(h, Entries(i), node[i].commit_index, t)
  BY <1>12, <1>15, <1>16, CommittedKept
<1>18. AppliedTo(n)
  BY <1>2, <1>6 DEF AppliedOK, AppliedTo, Entries
<1>19. <<t, i>> \in elected' /\ h[t] = n.log.entries
  BY <1>1, <1>2, <1>4, <1>16 DEF MatchingInv, LeaderHas, LogsOK
<1>20. NumberedLog(0, n.log) /\ msgs \subseteq msgs'
  BY <1>1, <1>6
<1>21. CommittedNext(h, n.log.entries, n.commit_index, t)
  BY <1>6, <1>16, <1>17
<1>22. LET r == AdvanceCommit(i, n, t)
       IN  /\ CommittedNext(h, r.log.entries, r.commit_index, t) /\ AppliedTo(r)
           /\ r.match_index = n.match_index /\ n.commit_index <= r.commit_index
  BY <1>1, <1>7, <1>10, <1>12, <1>18, <1>19, <1>20, <1>21, CountsCommit
<1>23. /\ CommittedNext(h, Entries(i), node'[i].commit_index, t) /\ AppliedTo(node'[i])
       /\ node[i].commit_index <= node'[i].commit_index
  BY <1>6, <1>8, <1>9, <1>22 DEF Entries
<1>24. Recorded(h)'
  BY <1>1, <1>12, <1>14, <1>23, StillRecorded
<1>25. CommitSafe
  BY <1>1, <1>2, <1>9, <1>13, <1>23, SafeWhereItIs, SafeAtOthers
<1> QED  BY <1>24, <1>25 DEF CommitInv

LEMMA OnAppendRespCommit ==
  ASSUME NoSnapshots, Reconfigurable = {}, LogInv, LogInv', ElectionSafety',
         NEW h, Recorded(h), NEW i \in Server, NEW m \in msgs, OnAppendResp(i, m)
  PROVE  CommitInv' /\ CommitSafe
<1>1. /\ m \in Message /\ m.type = "append_resp" /\ UNCHANGED elected /\ m.term \in Nat
      /\ TypeOK /\ TypeOK' /\ MatchingInv /\ MatchingInv' /\ ElectionInv /\ ElectionInv' /\ MatchOK
  BY MessageFields DEF OnAppendResp, TypeOK, LogInv, Recorded
<1>2. CASE StepDown(i, m.term) /\ UNCHANGED <<node, msgs>>
  <2>1. Talks(i)
    BY <1>2, NothingSaid DEF Speaks
  <2>2. current_term[i] <= current_term'[i]
    BY <1>1, <1>2 DEF TypeOK, StepDown, MaxOf
  <2> QED  BY <1>1, <1>2, <2>1, <2>2, StepDownFollows, FollowRecorded
<1>3. CASE /\ m.term = current_term[i] /\ role[i] = Leader /\ m.from \in Tracked(node[i])
           /\ m.success
           /\ node' = [node EXCEPT ![i] = AdvanceCommit(i, Acknowledged(node[i], m.from, m), m.term)]
           /\ UNCHANGED <<role, current_term, msgs>>
  BY <1>1, <1>3, AcknowledgedCommit
<1>4. CASE /\ m.term = current_term[i] /\ role[i] = Leader /\ m.from \in Tracked(node[i])
           /\ node' = [node EXCEPT ![i] = BackedOff(node[i], m.from, m)]
           /\ Send({SendAppend(i, node'[i], m.term, m.from)})
           /\ UNCHANGED <<role, current_term>>
  <2>1. PICK b : b = BackedOff(node[i], m.from, m)
    OBVIOUS
  <2>2. node[i] \in NodeState /\ m.from \in Server
    BY <1>1, <1>4 DEF TypeOK, Tracked
  <2>3. /\ b.log = node[i].log /\ b.commit_index = node[i].commit_index
        /\ b.applied_index = node[i].applied_index /\ b.state_machine = node[i].state_machine
        /\ b.match_index = node[i].match_index
    BY <2>1, <2>2, BackedOffFields
  <2>4. node'[i] = b /\ \A j \in Server \ {i} : node'[j] = node[j]
    BY <1>1, <1>4, <2>1, NodeLogs
  <2>5. Speaks(i)
    BY <1>4, <2>2, AppendsSpeak
  <2>6. current_term[i] <= current_term'[i]
    BY <1>1, <1>4 DEF TypeOK
  <2>7. Frame(i)
    BY <1>4, <2>3, <2>4, <2>5, <2>6 DEF Frame, Speaks, Talks
  <2>8. MatchTrue(node'[i], current_term'[i])
    BY <1>1, <1>4, <2>3, <2>4 DEF MatchOK, MatchTrue
  <2>9. Still(i)
    BY <1>1, <1>4, <2>3, <2>4, <2>5, <2>7, <2>8 DEF Still, Speaks, Talks
  <2> QED  BY <1>1, <2>3, <2>4, <2>9, PauseRecorded DEF CommitInv
<1> QED  BY <1>2, <1>3, <1>4 DEF OnAppendResp, electionVars

LEMMA RestartCommit ==
  ASSUME NoSnapshots, Reconfigurable = {}, HonestRestart, LogInv, LogInv', ElectionSafety',
         NEW h, Recorded(h), NEW i \in Server, i \in Restartable, Restart(i)
  PROVE  CommitInv' /\ CommitSafe
<1>1. /\ TypeOK /\ TypeOK' /\ MatchingInv /\ MatchingInv' /\ ElectionInv /\ ElectionInv'
      /\ CommitOK(h) /\ node[i].log \in LogOf(Payload) /\ ~SimRestart /\ Restartable # {}
  BY LogType DEF LogInv, Recorded, HonestRestart
<1>2. /\ role' = [role EXCEPT ![i] = Follower]
      /\ node' = [node EXCEPT ![i] = RestartedNode(i, node[i])]
      /\ UNCHANGED <<current_term, msgs, elected>>
  BY DEF Restart
<1>3. Follows(i) /\ role'[i] # Leader /\ role'[i] # Candidate
  BY <1>1, <1>2 DEF Follows, TypeOK, Follower, Leader, Candidate
<1>4. /\ node'[i] = [FreshNode EXCEPT !.log = node[i].log]
      /\ \A j \in Server \ {i} : node'[j] = node[j]
  BY <1>1, <1>2, NodeLogs DEF RestartedNode
<1>5. /\ node'[i].log = node[i].log /\ node'[i].commit_index = 0
      /\ node'[i].applied_index = 0 /\ node'[i].state_machine = {}
  BY <1>4 DEF FreshNode
<1>6. Frame(i)
  <2>1. current_term[i] <= current_term'[i]
    BY <1>1, <1>2 DEF TypeOK
  <2> QED  BY <1>2, <1>3, <1>4, <1>5, <2>1 DEF Frame, Follows
<1>7. Still(i)
  BY <1>2, <1>3, <1>5, <1>6 DEF Still
<1>8. CommittedNext(h, Entries(i), node'[i].commit_index, current_term'[i])
  BY <1>5 DEF CommittedNext
<1>9. AppliedTo(node'[i])
  <2>1. \A E : Commands(E, 0) = {}
    BY DEF Commands
  <2> QED  BY <1>5, <2>1 DEF AppliedTo
<1>10. Recorded(h)'
  BY <1>1, <1>7, <1>8, <1>9, StillRecorded
<1>11. CommitSafe
  BY <1>1, <1>5, <1>6, SafeWhereItIs, SafeAtOthers
<1> QED  BY <1>10, <1>11 DEF CommitInv

-----------------------------------------------------------------------------
(* A follower merges an append *)

LEMMA CommittedSame ==
  ASSUME NEW h, NEW E, NEW N, NEW c, NEW t, SameTo(N, E, c), CommittedNext(h, E, c, t)
  PROVE  CommittedNext(h, N, c, t)
<1>1. CASE c = 0
  BY <1>1 DEF CommittedNext
<1>2. CASE c # 0
  <2>1. PICK k \in Nat, u \in Nat :
          c <= k /\ u <= t /\ Made(h, k, u)' /\ Chosen(k, u)' /\ SameTo(E, h[u], c)
    BY <1>2 DEF CommittedNext
  <2>2. SameTo(N, h[u], c)
    BY <2>1, SameToTransitive
  <2> QED  BY <2>1, <2>2 DEF CommittedNext
<1> QED  BY <1>1, <1>2

\* The merged log fits the history.
LEMMA MergedFits ==
  ASSUME TypeOK, NEW h, HistOK(h), LogsOK(h), NEW i \in Server, NEW u \in Nat, Won(u),
         current_term[i] <= u, NEW N, Len(N) \in Nat, NEW p, MergedTo(Entries(i), N, h[u], p)
  PROVE  FromHist(h, N) /\ \A k \in 1..Len(N) : N[k].term <= u
<1>1. CASE N = Entries(i)
  <2>1. FromHist(h, N) /\ \A k \in 1..Len(N) : N[k].term <= current_term[i]
    BY <1>1 DEF LogsOK
  <2>2. \A k \in 1..Len(N) : N[k].term \in Nat
    BY <1>1, EntriesType, EntryFields
  <2>3. current_term[i] \in Nat
    BY DEF TypeOK
  <2> QED  BY <2>1, <2>2, <2>3
<1>2. CASE N # Entries(i)
  <2>1. p \in Nat /\ Len(N) = p /\ SameTo(N, h[u], p)
    BY <1>2 DEF MergedTo
  <2>2. /\ FromHist(h, h[u]) /\ Rising(h[u], u) /\ Len(h[u]) \in Nat
        /\ h \in [Nat -> Seq(EntryOf(Payload))]
    BY HistLen DEF HistOK
  <2> SUFFICES ASSUME NEW k \in 1..p
               PROVE  Won(N[k].term) /\ SameTo(N, h[N[k].term], k) /\ N[k].term <= u
    BY <2>1 DEF FromHist
  <2>3. k \in Nat /\ k <= p /\ k \in 1..Len(h[u]) /\ N[k] = h[u][k]
    <3>1. N[k] = h[u][k] /\ p <= Len(h[u])
      BY <2>1 DEF SameTo
    <3>2. p \in Nat /\ Len(h[u]) \in Nat
      BY <2>1, <2>2
    <3> HIDE <2>1, <2>2
    <3> QED  BY <3>1, <3>2
  <2>4. PICK t : t = h[u][k].term
    OBVIOUS
  <2>5. Won(t) /\ SameTo(h[u], h[t], k) /\ t <= u
    BY <2>2, <2>3, <2>4 DEF FromHist, Rising
  <2>6. SameTo(N, h[u], k)
    BY <2>1, <2>2, <2>3, SameToLess
  <2>7. SameTo(N, h[t], k)
    BY <2>5, <2>6, SameToTransitive
  <2> QED  BY <2>3, <2>4, <2>5, <2>7
<1> QED  BY <1>1, <1>2

\* What a follower has committed and applied after a merge that tells of x.
LEMMA FollowerCommits ==
  ASSUME NoSnapshots, Reconfigurable = {}, NEW i \in Server, NEW n \in NodeState, AppliedTo(n),
         NEW m, m.commit \in Nat,
         NEW r \in [ok : BOOLEAN, match : Nat, conflict : Nat, log : LogOf(Payload)], r.ok,
         NumberedLog(0, r.log), SameTo(r.log.entries, n.log.entries, n.commit_index),
         m.commit <= Len(r.log.entries), Len(n.log.entries) \in Nat
  PROVE  LET f == FollowerState(i, n, m, r)
         IN  /\ AppliedTo(f) /\ n.commit_index <= f.commit_index
             /\ f.commit_index = n.commit_index \/ f.commit_index = m.commit
<1>1. PICK N : N = r.log.entries
  OBVIOUS
<1>2. /\ r.log \in LogOf(Payload) /\ Len(N) \in Nat /\ LastIndex(r.log) = Len(N)
      /\ n.commit_index \in Nat /\ n.applied_index \in Nat
  BY <1>1, ReadType, TermAtReads, NodeFields
<1>3. PICK a : a = [n EXCEPT !.log = r.log]
  OBVIOUS
<1>4. /\ a \in NodeState /\ a.log = r.log /\ a.commit_index = n.commit_index
      /\ a.applied_index = n.applied_index /\ a.state_machine = n.state_machine
  BY <1>2, <1>3, SetLog DEF NodeState
<1>5. AppliedTo(a)
  <2>1. n.applied_index <= n.commit_index /\ n.state_machine = Commands(n.log.entries, n.applied_index)
    BY DEF AppliedTo
  <2>2. SameTo(N, n.log.entries, n.applied_index)
    BY <1>1, <1>2, <2>1, SameToLess
  <2>3. Commands(N, n.applied_index) = Commands(n.log.entries, n.applied_index)
    BY <1>2, <2>2, CommandsSame
  <2> QED  BY <1>1, <1>4, <2>1, <2>3 DEF AppliedTo
<1>6. CASE ~(m.commit > n.commit_index)
  <2>1. FollowerState(i, n, m, r) = a
    BY <1>3, <1>6 DEF FollowerState
  <2>2. n.commit_index <= n.commit_index
    BY <1>2
  <2> QED  BY <1>4, <1>5, <2>1, <2>2
<1>7. CASE m.commit > n.commit_index
  <2>1. MinOf(m.commit, LastIndex(r.log)) = m.commit
    BY <1>1, <1>2 DEF MinOf
  <2>2. PICK b : b = [a EXCEPT !.commit_index = m.commit]
    OBVIOUS
  <2>3. FollowerState(i, n, m, r) = ApplyCommitted(i, b)
    BY <1>3, <1>7, <2>1, <2>2 DEF FollowerState
  <2>4. /\ b \in NodeState /\ b.log = r.log /\ b.commit_index = m.commit
        /\ b.applied_index = n.applied_index /\ b.state_machine = n.state_machine
    BY <1>4, <2>2, SetCommit DEF NodeState
  <2>5. n.applied_index <= m.commit /\ n.commit_index <= m.commit
    BY <1>2, <1>7 DEF AppliedTo
  <2>6. AppliedTo(b)
    BY <1>4, <1>5, <2>4, <2>5 DEF AppliedTo
  <2>7. AppliedTo(ApplyCommitted(i, b))
    BY <2>4, <2>6, ApplyTo
  <2>8. ApplyCommitted(i, b).commit_index = m.commit
    BY <2>4, ApplyKeepsLog
  <2> QED  BY <2>3, <2>5, <2>7, <2>8
<1> QED  BY <1>6, <1>7

\* Server i merges the append m and acknowledges it up to x.
Merged(i, m, N, x) ==
  /\ elected' = elected /\ Follows(i) /\ current_term'[i] = m.term
  /\ \A j \in Server \ {i} : node'[j] = node[j]
  /\ node'[i].log.entries = N
  /\ node'[i].log.snapshot_last_index = node[i].log.snapshot_last_index
  /\ msgs \subseteq msgs'
  /\ \A r \in msgs' : r \in msgs \/
       (r.type = "append_resp" /\ r.from = i /\ r.term = m.term /\ r.match = x)

LEMMA MergedMoves ==
  ASSUME TypeOK, TypeOK', NEW h, HistOK(h), NEW i \in Server, NEW m, NEW N, NEW x,
         Merged(i, m, N, x), current_term[i] <= m.term
  PROVE  Moves(h, h, i) /\ HistOK(h)'
<1>1. h \in [Nat -> Seq(EntryOf(Payload))]
  BY DEF HistOK
<1>2. \A t \in Nat : SameTo(h[t], h[t], Len(h[t]))
  <2> TAKE t \in Nat
  <2>1. Len(h[t]) \in Nat /\ Len(h[t]) <= Len(h[t])
    BY <1>1, HistLen
  <2> QED  BY <2>1, SameToItself
<1>3. \A t : Won(t)' <=> Won(t)
  BY DEF Merged, Won
<1>4. Extends(h, h, i)
  BY <1>1, <1>2, <1>3 DEF Extends, Made
<1>5. Acks(i) /\ Elects(i)
  BY DEF Merged, Acks, Elects
<1>6. HistOK(h)'
  BY <1>3 DEF HistOK, FromHist
<1>7. Frame(i)
  <2>1. \A r \in msgs' : r \in msgs \/ Sent(i, r)
    BY DEF Merged, Sent
  <2>2. role'[i] # Candidate
    BY DEF Merged, Follows, Follower, Candidate
  <2> QED  BY <2>1, <2>2 DEF Merged, Follows, Frame
<1> QED  BY <1>4, <1>5, <1>6, <1>7 DEF Moves

LEMMA MergeRecorded ==
  ASSUME LogInv, LogInv', ElectionSafety', NEW h, Recorded(h), NEW i \in Server,
         NEW m \in msgs, m.type = "append", current_term[i] <= m.term, m.prev_term # -1,
         NEW N, Len(N) \in Nat, NEW x \in Nat, MergedTo(Entries(i), N, h[m.term], x),
         Merged(i, m, N, x), m.commit <= x, AppliedTo(node'[i]),
         node[i].commit_index <= node'[i].commit_index,
         \/ node'[i].commit_index = node[i].commit_index
         \/ node'[i].commit_index = m.commit
  PROVE  CommitInv' /\ CommitSafe
<1>1. /\ TypeOK /\ TypeOK' /\ MatchingInv /\ MatchingInv' /\ ElectionInv /\ ElectionInv'
      /\ HistOK(h) /\ LogsOK(h) /\ LaterLeaders(h) /\ CommitOK(h) /\ AppendsOK(h)
  BY DEF LogInv, Recorded
<1>2. PICK u : u = m.term
  OBVIOUS
<1>3. PICK c : c = node[i].commit_index
  OBVIOUS
<1>4. /\ u \in Nat /\ m.commit \in Nat /\ c \in Nat /\ current_term[i] \in Nat
      /\ current_term[i] <= u /\ u <= u
  BY <1>1, <1>2, <1>3, MessageFields, NodeFields DEF TypeOK
<1>5. Won(u) /\ Committed(h, h[u], m.commit, u)
  BY <1>1, <1>2 DEF AppendsOK, AppendOK
<1>6. /\ Len(Entries(i)) \in Nat /\ Len(h[u]) \in Nat
  BY <1>1, <1>4, EntriesType, HistLen DEF HistOK
<1>7. MergedTo(Entries(i), N, h[u], x) /\ SameTo(N, h[u], x)
  BY <1>2 DEF MergedTo
<1>8. Committed(h, Entries(i), c, current_term[i])
  BY <1>1, <1>3 DEF CommitOK
<1>9. SameTo(N, Entries(i), c)
  BY <1>1, <1>4, <1>5, <1>7, <1>8, MergedCommit
<1>10. Moves(h, h, i) /\ HistOK(h)'
  BY <1>1, MergedMoves
<1>11. CommittedNext(h, N, node'[i].commit_index, u)
  <2>1. CommittedNext(h, N, c, u)
    <3>1. CommittedNext(h, Entries(i), c, u)
      BY <1>4, <1>8, <1>10, CommittedKept
    <3> QED  BY <1>9, <3>1, CommittedSame
  <2>2. CommittedNext(h, N, m.commit, u)
    <3>1. CommittedNext(h, h[u], m.commit, u)
      BY <1>4, <1>5, <1>10, CommittedKept
    <3>2. SameTo(N, h[u], m.commit)
      BY <1>4, <1>6, <1>7, SameToLess
    <3> QED  BY <3>1, <3>2, CommittedSame
  <2> QED  BY <1>3, <2>1, <2>2
<1>12. /\ node'[i].log.entries = N /\ current_term'[i] = u /\ elected' = elected
       /\ role'[i] # Leader
  BY <1>2 DEF Merged, Follows, Follower, Leader
<1>13. Settled(h, i)
  <2>1. FromHist(h, N) /\ \A k \in 1..Len(N) : N[k].term <= u
    BY <1>1, <1>4, <1>5, <1>7, MergedFits
  <2>2. \A k \in 1..Len(N) : WonNext(N[k].term) /\ SameTo(N, h[N[k].term], k) /\ N[k].term <= u
    BY <1>12, <2>1 DEF FromHist, Won, WonNext
  <2> QED  BY <1>11, <1>12, <2>2 DEF Settled
<1>14. Holding(h, i)
  <2>1. ASSUME NEW k \in Nat, NEW t \in Nat, Made(h, k, t), HasAt(Entries(i), k, t)
        PROVE  HasAt(N, k, t) \/ Doomed(k, t)
    BY <1>1, <1>4, <1>5, <1>7, <2>1, MergedHas
  <2>2. ASSUME NEW k \in Nat, NEW t \in Nat, Made(h, k, t), Acked(i, t, k)', ~Acked(i, t, k)
        PROVE  HasAt(N, k, t)
    <3>1. PICK r \in msgs' : AckOf(r, i, t, k) /\ r \notin msgs
      BY <1>12, <2>2 DEF Acked, AckOf
    <3>2. r.term = u /\ r.match = x
      BY <1>2, <3>1 DEF Merged
    <3>3. t = u /\ k <= x
      BY <3>1, <3>2 DEF AckOf
    <3>4. HasAt(h[u], k, t)
      BY <2>2, <3>3 DEF Made
    <3>5. SameTo(h[u], N, x)
      BY <1>7, SameToSymmetric
    <3> QED  BY <1>6, <3>3, <3>4, <3>5, SameToHas
  <2> QED  BY <1>12, <2>1, <2>2 DEF Holding
<1>15. KeepsTerm(h, i)
  <2> SUFFICES ASSUME NEW k \in Nat, SameTo(Entries(i), h[u], k)
               PROVE  SameTo(N, h[u], k)
    BY <1>12 DEF KeepsTerm
  <2> QED  BY <1>6, <1>7, MergedKeeps
<1>16. \A r \in msgs' : r \in msgs \/ AckOK(h, r)'
  <2> SUFFICES ASSUME NEW r \in msgs', r.from = i, r.term = u, r.match = x
               PROVE  AckOK(h, r)'
    BY <1>2 DEF Merged
  <2>1. WonNext(u)
    BY <1>5, <1>12 DEF Won, WonNext
  <2>2. x <= Len(h[u]) /\ u <= current_term'[i] /\ SameTo(node'[i].log.entries, h[u], x)
    BY <1>4, <1>7, <1>12 DEF SameTo
  <2> QED  BY <2>1, <2>2 DEF AckOK, Won, WonNext, Entries
<1>17. ~(~Won(current_term'[i]) /\ WonNext(current_term'[i]))
  BY <1>12 DEF Won, WonNext
<1>18. Recorded(h)'
  BY <1>1, <1>10, <1>13, <1>14, <1>15, <1>16, <1>17, RecordedStep
<1>19. CommitSafe
  BY <1>1, <1>3, <1>9, <1>10, <1>12, SafeAtOthers DEF Moves
<1> QED  BY <1>18, <1>19 DEF CommitInv

LEMMA MergeKeepsBase ==
  ASSUME NEW l \in LogOf(Payload), NEW b, NEW t, NEW entries
  PROVE  Merge(l, b, t, entries).log.snapshot_last_index = l.snapshot_last_index
<1>1. \A E : [l EXCEPT !.entries = E].snapshot_last_index = l.snapshot_last_index
  BY DEF LogOf
<1>2. \/ Merge(l, b, t, entries).log = l
      \/ \E E : Merge(l, b, t, entries).log = [l EXCEPT !.entries = E]
  BY DEF Merge, Rejected
<1> QED  BY <1>1, <1>2

LEMMA OnAppendCommit ==
  ASSUME NoSnapshots, Reconfigurable = {}, LogInv, LogInv', ElectionSafety', CommitCarried,
         NEW h, Recorded(h), NEW i \in Server, NEW m \in msgs, OnAppend(i, m)
  PROVE  CommitInv' /\ CommitSafe
<1>1. /\ TypeOK /\ TypeOK' /\ MatchingInv /\ MatchingInv' /\ ElectionInv /\ ElectionInv'
      /\ HistOK(h) /\ LogsOK(h) /\ AppendsOK(h) /\ LaterLeaders(h) /\ CommitOK(h) /\ AppliedOK
      /\ m.type = "append" /\ UNCHANGED elected
  BY DEF LogInv, Recorded, OnAppend
<1>2. PICK r : r = Merge(node[i].log, m.prev_index, m.prev_term, m.entries)
  OBVIOUS
<1>3. CASE RejectStaleLeader(i, m)
  <2>1. /\ UNCHANGED <<node, role, current_term>>
        /\ Send({AppendReply(i, m, current_term[i], FALSE, 0, 0)})
    BY <1>3 DEF RejectStaleLeader, electionVars
  <2>2. PICK a : a = AppendReply(i, m, current_term[i], FALSE, 0, 0)
    OBVIOUS
  <2>3. a.type = "append_resp" /\ ~a.success
    BY <2>2 DEF AppendReply
  <2>4. Talks(i)
    BY <2>1, <2>2, <2>3, SpeaksOf DEF Speaks
  <2> QED  BY <1>1, <2>1, <2>4, IdleRecorded
<1>4. CASE /\ m.term >= current_term[i] /\ FollowLeader(i, m)
           /\ node' = [node EXCEPT ![i] = FollowerState(i, node[i], m, r)]
           /\ Send({AppendReply(i, m, m.term, r.ok, r.match, r.conflict)})
  <2>1. /\ Merges(node[i].log, MsgFrag(m), r)
        /\ r \in [ok : BOOLEAN, match : Nat, conflict : Nat, log : LogOf(Payload)]
        /\ m.commit \in Nat /\ m.term \in Nat
    BY <1>1, <1>2, AppendMerges
  <2>2. /\ node[i] \in NodeState /\ node[i].log \in LogOf(Payload) /\ NumberedLog(0, node[i].log)
        /\ current_term[i] \in Nat /\ current_term[i] <= m.term
    BY <1>1, <1>4, <2>1, LogType DEF TypeOK
  <2>3. Follows(i)
    BY <1>1, <1>4, FollowLeaderFollows
  <2>4. current_term'[i] = m.term
    <3>1. CASE StepDown(i, m.term)
      BY <1>1, <2>1, <2>2, <3>1 DEF StepDown, TypeOK, MaxOf
    <3>2. CASE ~(m.term > current_term[i]) /\ UNCHANGED current_term
      BY <2>1, <2>2, <3>2
    <3> QED  BY <1>4, <3>1, <3>2 DEF FollowLeader
  <2>5. PICK f : f = FollowerState(i, node[i], m, r)
    OBVIOUS
  <2>6. node'[i] = f /\ \A j \in Server \ {i} : node'[j] = node[j]
    BY <1>1, <1>4, <2>5, NodeLogs
  <2>7. PICK a : a = AppendReply(i, m, m.term, r.ok, r.match, r.conflict)
    OBVIOUS
  <2>8. /\ a.type = "append_resp" /\ a.from = i /\ a.term = m.term /\ a.match = r.match
        /\ a.success = r.ok
    BY <2>7 DEF AppendReply
  <2>9. CASE ~r.ok
    <3>1. r.log = node[i].log
      BY <2>1, <2>9 DEF Merges
    <3>2. f = [node[i] EXCEPT !.log = node[i].log]
      BY <2>5, <2>9, <3>1 DEF FollowerState
    <3>3. f = node[i]
      BY <2>2, <3>2 DEF NodeState
    <3>4. UNCHANGED node
      BY <1>1, <2>6, <3>3 DEF TypeOK
    <3>5. Talks(i)
      BY <1>4, <2>7, <2>8, <2>9, SpeaksOf DEF Speaks
    <3> QED  BY <2>2, <2>3, <2>4, <3>4, <3>5, FollowRecorded
  <2>10. CASE r.ok
    <3>1. PICK N : N = r.log.entries
      OBVIOUS
    <3>2. /\ m.prev_term # -1 /\ r.match = m.prev_index + Len(m.entries)
          /\ MergedTo(Entries(i), N, h[m.term], r.match)
      BY <1>1, <1>2, <2>10, <3>1, MergeOutcome
    <3>3. m.commit <= r.match
      BY <1>1, <3>2 DEF CommitCarried
    <3>4. r.log \in LogOf(Payload) /\ r.match \in Nat /\ Len(N) \in Nat /\ NumberedLog(0, r.log)
      BY <2>1, <2>2, <2>10, <3>1, ReadType DEF Merges
    <3>5. f.log = r.log
      BY <2>1, <2>2, <2>5, <3>4, FollowerKeepsMerge
    <3>6. Won(m.term)
      BY <1>1 DEF AppendsOK, AppendOK
    <3>7. /\ node[i].commit_index \in Nat
          /\ Committed(h, Entries(i), node[i].commit_index, current_term[i])
      BY <1>1, <2>2, NodeFields DEF CommitOK
    <3>8. SameTo(N, Entries(i), node[i].commit_index)
      BY <1>1, <2>1, <2>2, <3>2, <3>6, <3>7, MergedCommit
    <3>9. r.match <= Len(N)
      BY <3>2 DEF MergedTo, SameTo
    <3>10. AppliedTo(node[i]) /\ Len(Entries(i)) \in Nat
      BY <1>1, EntriesType DEF AppliedOK, AppliedTo, Entries
    <3>11. m.commit <= Len(N)
      BY <2>1, <3>3, <3>4, <3>9
    <3>12. /\ AppliedTo(f) /\ node[i].commit_index <= f.commit_index
           /\ f.commit_index = node[i].commit_index \/ f.commit_index = m.commit
      BY <2>1, <2>2, <2>5, <2>10, <3>1, <3>4, <3>8, <3>10, <3>11, FollowerCommits DEF Entries
    <3>13. r.log.snapshot_last_index = node[i].log.snapshot_last_index
      BY <1>2, <2>2, MergeKeepsBase
    <3>14. Merged(i, m, N, r.match)
      <4>1. /\ msgs \subseteq msgs'
            /\ \A b \in msgs' : b \in msgs \/ b = a
        BY <1>4, <2>7 DEF Send
      <4> QED  BY <1>1, <2>3, <2>4, <2>6, <2>8, <3>1, <3>5, <3>13, <4>1 DEF Merged
    <3> QED  BY <1>1, <2>2, <2>6, <3>2, <3>3, <3>4, <3>12, <3>14, MergeRecorded
  <2> QED  BY <2>1, <2>9, <2>10
<1> QED  BY <1>2, <1>3, <1>4 DEF OnAppend

-----------------------------------------------------------------------------
(* The invariant *)

LEMMA CommitStep ==
  ASSUME NoSnapshots, Reconfigurable = {}, VotesNotMixed, HonestRestart,
         LogInv, LogInv', CommitCarried, CommitInv, [Next]_vars
  PROVE  CommitInv' /\ CommitSafe
<1>1. ElectionSafety'
  <2>1. TypeOK' /\ ElectionInv' => ElectionSafety'
    BY ElectionInvSafe, PTL
  <2> QED  BY <2>1 DEF LogInv
<1> PICK h : Recorded(h)
  BY DEF CommitInv
<1>2. CASE UNCHANGED vars
  <2>1. UNCHANGED <<node, role, current_term, msgs, elected>>
    BY <1>2 DEF vars, electionVars
  <2>2. PICK i \in Server : TRUE
    BY ServerAssumption
  <2> QED  BY <1>1, <2>1, <2>2, NothingSaid, IdleRecorded DEF Speaks
<1>3. CASE Next
  <2> PICK i \in Server : \/ Tick(i)
                          \/ \E m \in msgs : Handle(i, m)
                          \/ Request(i)
                          \/ i \in Restartable /\ Restart(i)
    BY <1>3 DEF Next
  <2>1. CASE Tick(i)
    <3>1. CASE ElectionTimeout(i)
      <4>1. CASE StartElection(i, FALSE)
        BY <1>1, <4>1, StartElectionCommit
      <4> QED  BY <1>1, <3>1, <4>1, StartPreVoteCommit DEF ElectionTimeout
    <3> QED  BY <1>1, <2>1, <3>1, HeartbeatCommit, CheckQuorumCommit DEF Tick
  <2>2. CASE \E m \in msgs : Handle(i, m)
    <3> PICK m \in msgs : Handle(i, m)
      BY <2>2
    <3>1. CASE OnPrevote(i, m)
      BY <1>1, <3>1, OnPrevoteCommit
    <3>2. CASE OnPrevoteResp(i, m)
      BY <1>1, <3>2, OnPrevoteRespCommit
    <3>3. CASE OnVote(i, m)
      BY <1>1, <3>3, OnVoteCommit
    <3>4. CASE OnVoteResp(i, m)
      BY <1>1, <3>4, OnVoteRespCommit
    <3>5. CASE OnAppend(i, m)
      BY <1>1, <3>5, OnAppendCommit
    <3>6. CASE OnAppendResp(i, m)
      BY <1>1, <3>6, OnAppendRespCommit
    <3>7. CASE OnTimeoutNow(i, m)
      <4>1. StartElection(i, pre_candidate[i])
        BY <3>7 DEF OnTimeoutNow
      <4> QED  BY <1>1, <4>1, StartElectionCommit
    <3>8. ~OnInstallSnapshot(i, m)
      BY DEF OnInstallSnapshot, LogInv, MatchingInv, ShapeInv, GoodAppend
    <3> QED  BY <3>1, <3>2, <3>3, <3>4, <3>5, <3>6, <3>7, <3>8 DEF Handle
  <2>3. CASE Request(i)
    <3>1. \/ \E v \in Value : Propose(i, v)
          \/ \E target \in Targets : TransferLeadership(i, target)
      BY <2>3 DEF Request, NoSnapshots
    <3> QED  BY <1>1, <3>1, ProposeCommit, TransferCommit
  <2>4. CASE i \in Restartable /\ Restart(i)
    BY <1>1, <2>4, RestartCommit
  <2> QED  BY <2>1, <2>2, <2>3, <2>4
<1> QED  BY <1>2, <1>3

LEMMA CommitInit ==
  ASSUME Init
  PROVE  CommitInv
<1>1. PICK h : h = [t \in Nat |-> << >>]
  OBVIOUS
<1>2. /\ node = [i \in Server |-> FreshNode] /\ msgs = {} /\ elected = {}
      /\ role = [i \in Server |-> Follower] /\ current_term = [i \in Server |-> 0]
  BY DEF Init
<1>3. /\ FreshNode.log.entries = << >> /\ FreshNode.log.snapshot_last_index = 0
      /\ FreshNode.commit_index = 0 /\ FreshNode.applied_index = 0
      /\ FreshNode.state_machine = {}
  BY DEF FreshNode, EmptyLog
<1>4. \A t : ~Won(t)
  BY <1>2 DEF Won
<1>5. h \in [Nat -> Seq(EntryOf(Payload))]
  BY <1>1
<1>6. \A i \in Server : /\ Entries(i) = << >> /\ node[i].log.snapshot_last_index = 0
                        /\ node[i].commit_index = 0 /\ node[i].applied_index = 0
                        /\ node[i].state_machine = {} /\ role[i] # Leader /\ role[i] # Candidate
  BY <1>2, <1>3 DEF Entries, Follower, Leader, Candidate
<1>7. HistOK(h)
  BY <1>4, <1>5 DEF HistOK
<1>8. LogsOK(h)
  BY <1>6 DEF LogsOK, FromHist
<1>9. AppendsOK(h) /\ AcksOK(h) /\ RequestsOK /\ BallotsOK
  BY <1>2 DEF AppendsOK, AcksOK, RequestsOK, BallotsOK
<1>10. MatchOK /\ Voters(h)
  BY <1>6 DEF MatchOK, Voters
<1>11. LaterLeaders(h) /\ Keepers(h)
  BY <1>4 DEF LaterLeaders, Keepers, Made
<1>12. CommitOK(h)
  BY <1>6 DEF CommitOK, Committed
<1>13. AppliedOK
  <2>1. Commands(<< >>, 0) = {}
    BY DEF Commands
  <2>2. 0 <= 0
    OBVIOUS
  <2> QED  BY <1>6, <2>1, <2>2 DEF AppliedOK
<1> QED  BY <1>7, <1>8, <1>9, <1>10, <1>11, <1>12, <1>13 DEF CommitInv, Recorded

-----------------------------------------------------------------------------
(* What follows from the invariant *)

LEMMA LogEntryReads ==
  ASSUME NEW l \in LogOf(Payload), NumberedLog(0, l), NEW k \in Nat
  PROVE  /\ Present(l, k) <=> k \in 1..Len(l.entries)
         /\ Get(l, k) = l.entries[k]
<1>1. l.first_index \in Nat /\ l.first_index - 1 = 0 /\ Len(l.entries) \in Nat
  BY ReadType DEF LogOf, NumberedLog
<1>2. l.first_index = 1
  BY <1>1
<1>3. LastPosition(l) = Len(l.entries)
  BY <1>1, <1>2 DEF LastPosition
<1>4. Present(l, k) <=> k \in 1..Len(l.entries)
  BY <1>1, <1>2, <1>3 DEF Present
<1>5. Get(l, k) = l.entries[k - 1 + 1]
  BY <1>2 DEF Get
<1>6. k - 1 + 1 = k
  OBVIOUS
<1>7. Get(l, k) = l.entries[k]
  BY ONLY <1>5, <1>6
<1> QED  BY <1>4, <1>7

LEMMA CoversSame ==
  ASSUME NEW a \in LogOf(Payload), NumberedLog(0, a), NEW b \in LogOf(Payload),
         NumberedLog(0, b), NEW c \in Nat, SameTo(a.entries, b.entries, c), NEW k \in 1..c
  PROVE  Covers(a, b, k)
<1>1. k \in Nat /\ Len(a.entries) \in Nat
  BY ReadType
<1>2. k \in 1..Len(a.entries) /\ a.entries[k] = b.entries[k]
  BY <1>1 DEF SameTo
<1>3. Len(b.entries) \in Nat /\ c <= Len(b.entries)
  BY ReadType DEF SameTo
<1>4. Present(a, k) /\ Get(a, k) = a.entries[k]
  BY <1>1, <1>2, LogEntryReads
<1>5. Get(b, k) = b.entries[k]
  BY <1>1, LogEntryReads
<1> QED  BY <1>2, <1>4, <1>5 DEF Covers

\* Two logs agree on what both have committed.
LEMMA CommittedAgree ==
  ASSUME NEW h, HistOK(h), LaterLeaders(h), NEW E, NEW F, Len(E) \in Nat, Len(F) \in Nat,
         NEW c \in Nat, NEW d \in Nat, NEW v, NEW w,
         Committed(h, E, c, v), Committed(h, F, d, w), NEW k \in Nat, k <= c, k <= d
  PROVE  SameTo(E, F, k)
<1>1. CASE k = 0
  BY <1>1 DEF SameTo
<1>2. CASE k # 0
  <2>0. c # 0 /\ d # 0
    BY <1>2
  <2>1. PICK x \in Nat, t \in Nat :
          c <= x /\ Made(h, x, t) /\ Chosen(x, t) /\ SameTo(E, h[t], c)
    BY <2>0 DEF Committed
  <2>2. PICK y \in Nat, s \in Nat :
          d <= y /\ Made(h, y, s) /\ Chosen(y, s) /\ SameTo(F, h[s], d)
    BY <2>0 DEF Committed
  <2>3. /\ Won(t) /\ Won(s) /\ Len(h[t]) \in Nat /\ Len(h[s]) \in Nat /\ t <= t /\ s <= s
    <3>1. Won(t) /\ Won(s)
      BY <2>1, <2>2 DEF Made
    <3>2. Len(h[t]) \in Nat /\ Len(h[s]) \in Nat
      BY HistLen DEF HistOK
    <3>3. t <= t /\ s <= s
      OBVIOUS
    <3> QED  BY <3>1, <3>2, <3>3
  <2>4. Committed(h, E, c, t) /\ Committed(h, F, d, s)
    BY <2>1, <2>2, <2>3 DEF Committed
  <2>5. CASE t <= s
    <3>1. SameTo(E, h[s], c)
      BY <2>3, <2>4, <2>5, CommittedIn
    <3>2. SameTo(E, h[s], k) /\ SameTo(F, h[s], k)
      BY <2>2, <2>3, <3>1, SameToLess
    <3> QED  BY <3>2, SameToSymmetric, SameToTransitive
  <2>6. CASE s <= t
    <3>1. SameTo(F, h[t], d)
      BY <2>3, <2>4, <2>6, CommittedIn
    <3>2. SameTo(E, h[t], k) /\ SameTo(F, h[t], k)
      BY <2>1, <2>3, <3>1, SameToLess
    <3> QED  BY <3>2, SameToSymmetric, SameToTransitive
  <2>7. t <= s \/ s <= t
    OBVIOUS
  <2> QED  BY <2>5, <2>6, <2>7
<1> QED  BY <1>1, <1>2

LEMMA RecordedComplete ==
  ASSUME LogInv, CommitInv
  PROVE  LeaderCompleteness
<1> PICK h : Recorded(h)
  BY DEF CommitInv
<1>1. TypeOK /\ MatchingInv /\ HistOK(h) /\ LogsOK(h) /\ LaterLeaders(h) /\ CommitOK(h)
  BY DEF LogInv, Recorded
<1> SUFFICES ASSUME NEW i \in Server, NEW j \in Server, role[i] = Leader,
                    current_term[j] <= current_term[i], NEW k \in 1..node[j].commit_index
             PROVE  Covers(node[i].log, node[j].log, k)
  BY DEF LeaderCompleteness
<1>2. PICK u : u = current_term[i]
  OBVIOUS
<1>3. /\ u \in Nat /\ current_term[j] \in Nat /\ current_term[j] <= u
      /\ node[j].commit_index \in Nat /\ Len(Entries(j)) \in Nat
  BY <1>1, <1>2, NodeFields, EntriesType DEF TypeOK
<1>4. Won(u) /\ h[u] = Entries(i)
  BY <1>1, <1>2 DEF MatchingInv, LeaderHas, Won, LogsOK
<1>5. Committed(h, Entries(j), node[j].commit_index, current_term[j])
  BY <1>1 DEF CommitOK
<1>6. SameTo(Entries(j), Entries(i), node[j].commit_index)
  BY <1>1, <1>3, <1>4, <1>5, CommittedIn
<1>7. SameTo(node[i].log.entries, node[j].log.entries, node[j].commit_index)
  BY <1>6, SameToSymmetric DEF Entries
<1> QED  BY <1>1, <1>3, <1>7, LogType, CoversSame

LEMMA RecordedMajority ==
  ASSUME LogInv, CommitInv
  PROVE  CommittedOnMajority
<1> PICK h : Recorded(h)
  BY DEF CommitInv
<1>1. /\ TypeOK /\ MatchingInv /\ HistOK(h) /\ LogsOK(h) /\ Keepers(h) /\ CommitOK(h)
      /\ h \in [Nat -> Seq(EntryOf(Payload))]
  BY DEF LogInv, Recorded, HistOK
<1> SUFFICES ASSUME NEW j \in Server, NEW k \in 1..node[j].commit_index
             PROVE  MoreThanHalf(Cardinality({i \in Server : Covers(node[i].log, node[j].log, k)}), Server)
  BY DEF CommittedOnMajority
<1>2. PICK c : c = node[j].commit_index
  OBVIOUS
<1>3. c \in Nat /\ k \in 1..c
  BY <1>1, <1>2, NodeFields DEF TypeOK
<1>4. c # 0
  BY <1>3
<1>5. PICK x \in Nat, t \in Nat :
        c <= x /\ Made(h, x, t) /\ Chosen(x, t) /\ SameTo(Entries(j), h[t], c)
  BY <1>1, <1>2, <1>4 DEF CommitOK, Committed
<1>6. PICK Q : Majority(Q) /\ \A q \in Q : Acked(q, t, x)
  BY <1>5 DEF Chosen
<1>7. ~Doomed(x, t)
  BY <1>5, ChosenNotDoomed
<1>8. Q \subseteq Server
  BY <1>6 DEF Majority
<1>9. ASSUME NEW q \in Q
      PROVE  Covers(node[q].log, node[j].log, k)
  <2>1. HasAt(Entries(q), x, t)
    BY <1>1, <1>5, <1>6, <1>7, <1>8 DEF Keepers
  <2>2. SameTo(Entries(q), h[t], x)
    BY <1>1, <1>8, <2>1 DEF LogsOK, FromHist, HasAt
  <2>3. Len(Entries(q)) \in Nat /\ Len(h[t]) \in Nat
    BY <1>1, <1>8, EntriesType, HistLen
  <2>4. SameTo(Entries(q), h[t], c)
    BY <1>3, <1>5, <2>2, <2>3, SameToLess
  <2>5. SameTo(node[q].log.entries, node[j].log.entries, c)
    BY <1>5, <2>4, SameToSymmetric, SameToTransitive DEF Entries
  <2> QED  BY <1>1, <1>3, <1>8, <2>5, LogType, CoversSame
<1>10. Q \subseteq {i \in Server : Covers(node[i].log, node[j].log, k)}
  BY <1>8, <1>9
<1>11. Majority({i \in Server : Covers(node[i].log, node[j].log, k)})
  BY <1>6, <1>10, LargerMajority
<1> QED  BY <1>11 DEF Majority

LEMMA RecordedMatch ==
  ASSUME LogInv, CommitInv
  PROVE  MatchIndexSound
<1> PICK h : Recorded(h)
  BY DEF CommitInv
<1>1. /\ TypeOK /\ MatchingInv /\ HistOK(h) /\ LogsOK(h) /\ AcksOK(h) /\ MatchOK
      /\ h \in [Nat -> Seq(EntryOf(Payload))]
  BY DEF LogInv, Recorded, HistOK
<1> SUFFICES ASSUME NEW i \in Server, NEW p \in Server, role[i] = Leader,
                    current_term[p] = current_term[i], NEW k \in 1..node[i].match_index[p]
             PROVE  Covers(node[p].log, node[i].log, k)
  BY DEF MatchIndexSound
<1>2. PICK x : x = node[i].match_index[p]
  OBVIOUS
<1>3. x \in Nat /\ k \in 1..x
  BY <1>1, <1>2, NodeFields DEF TypeOK
<1>4. x # 0
  BY <1>3
<1>5. PICK m \in msgs : AckOf(m, p, current_term[i], x)
  BY <1>1, <1>2, <1>4 DEF MatchOK
<1>6. /\ m.type = "append_resp" /\ m.success /\ m.from = p /\ m.term = current_term[i]
      /\ m.match >= x /\ m.match \in Nat
  BY <1>1, <1>5, MessageFields DEF AckOf, TypeOK
<1>7. SameTo(Entries(p), h[current_term[i]], m.match) /\ h[current_term[i]] = Entries(i)
  BY <1>1, <1>6 DEF AcksOK, AckOK, LogsOK
<1>8. Len(Entries(p)) \in Nat /\ Len(Entries(i)) \in Nat /\ x <= m.match
  BY <1>1, <1>3, <1>6, EntriesType
<1>9. SameTo(node[p].log.entries, node[i].log.entries, x)
  BY <1>3, <1>6, <1>7, <1>8, SameToLess DEF Entries
<1> QED  BY <1>1, <1>3, <1>9, LogType, CoversSame

LEMMA RecordedMachines ==
  ASSUME LogInv, CommitInv
  PROVE  StateMachineSafety
<1> PICK h : Recorded(h)
  BY DEF CommitInv
<1>1. /\ TypeOK /\ HistOK(h) /\ LaterLeaders(h) /\ CommitOK(h) /\ AppliedOK
  BY DEF LogInv, Recorded
<1> SUFFICES ASSUME NEW i \in Server, NEW j \in Server, NEW c \in node[j].state_machine,
                    c[1] <= node[i].applied_index
             PROVE  c \in node[i].state_machine
  BY DEF StateMachineSafety
<1>2. PICK a : a = node[i].applied_index
  OBVIOUS
<1>3. PICK b : b = node[j].applied_index
  OBVIOUS
<1>4. /\ a \in Nat /\ b \in Nat /\ node[i].commit_index \in Nat /\ node[j].commit_index \in Nat
      /\ Len(Entries(i)) \in Nat /\ Len(Entries(j)) \in Nat
  BY <1>1, <1>2, <1>3, NodeFields, EntriesType DEF TypeOK
<1>5. /\ a <= node[i].commit_index /\ b <= node[j].commit_index
      /\ node[i].state_machine = Commands(Entries(i), a)
      /\ node[j].state_machine = Commands(Entries(j), b)
  BY <1>1, <1>2, <1>3 DEF AppliedOK
<1>6. PICK k \in 1..b : Entries(j)[k].payload.kind = "cmd" /\ c = <<k, Entries(j)[k].payload.value>>
  BY <1>5 DEF Commands
<1>7. k \in Nat /\ k <= a /\ k \in 1..a /\ k <= b /\ k \in 1..k
  BY <1>2, <1>4, <1>6
<1>8. k <= node[i].commit_index /\ k <= node[j].commit_index
  BY <1>4, <1>5, <1>7
<1>9. SameTo(Entries(i), Entries(j), k)
  BY <1>1, <1>4, <1>7, <1>8, CommittedAgree DEF CommitOK
<1>10. Entries(i)[k] = Entries(j)[k]
  BY <1>7, <1>9 DEF SameTo
<1> QED  BY <1>5, <1>6, <1>7, <1>10 DEF Commands

-----------------------------------------------------------------------------
(* Appends carry what they tell to be committed *)

LEMMA LogBounded ==
  ASSUME LogInv, CommitInv, NEW i \in Server
  PROVE  Len(Entries(i)) <= MaxLog + MaxTerm
<1> PICK h : Recorded(h)
  BY DEF CommitInv
<1>1. /\ TypeOK /\ MatchingInv /\ HistOK(h) /\ LogsOK(h)
      /\ h \in [Nat -> Seq(EntryOf(Payload))]
  BY DEF LogInv, Recorded, HistOK
<1>2. Entries(i) \in Seq(EntryOf(Payload)) /\ Len(Entries(i)) \in Nat
  BY <1>1, EntriesType
<1>3. CASE Len(Entries(i)) = 0
  BY <1>3, BoundAssumption
<1>4. CASE Len(Entries(i)) # 0
  <2>1. PICK t : t = Entries(i)[Len(Entries(i))].term
    OBVIOUS
  <2>2. Len(Entries(i)) \in 1..Len(Entries(i))
    BY <1>2, <1>4
  <2>3. t \in Nat /\ Won(t) /\ SameTo(Entries(i), h[t], Len(Entries(i)))
    BY <1>1, <1>2, <2>1, <2>2, EntryFields DEF LogsOK, FromHist
  <2>4. Len(h[t]) \in Nat /\ Len(Entries(i)) <= Len(h[t]) /\ Len(h[t]) <= MaxLog + t
    BY <1>1, <2>3, HistLen DEF SameTo, HistOK
  <2>5. t <= MaxTerm
    <3>1. \A e \in elected : e[1] <= MaxTerm
      BY <1>1 DEF MatchingInv, CandidateNew
    <3> QED  BY <2>3, <3>1 DEF Won
  <2> QED  BY <1>2, <2>3, <2>4, <2>5, BoundAssumption
<1> QED  BY <1>3, <1>4

LEMMA CommitInLog ==
  ASSUME LogInv, CommitInv, NEW i \in Server
  PROVE  node[i].commit_index <= Len(Entries(i))
<1> PICK h : Recorded(h)
  BY DEF CommitInv
<1>1. TypeOK /\ CommitOK(h)
  BY DEF LogInv, Recorded
<1>2. Len(Entries(i)) \in Nat /\ node[i].commit_index \in Nat
  BY <1>1, EntriesType, NodeFields DEF TypeOK
<1> QED  BY <1>1, <1>2, CommitWithin DEF CommitOK

LogsBounded ==
  \A i \in Server : /\ Len(Entries(i)) <= MaxLog + MaxTerm
                    /\ node[i].commit_index <= Len(Entries(i))

LEMMA RecordedBounded ==
  ASSUME LogInv, CommitInv
  PROVE  LogsBounded
BY LogBounded, CommitInLog DEF LogsBounded

LEMMA CarriedStep ==
  ASSUME WholeLogs, LogInv', CommitInv', CommitCarried, CommitSafe
  PROVE  CommitCarried'
<1> SUFFICES ASSUME NEW m \in msgs', m.type = "append", m.prev_term # -1, m \notin msgs
             PROVE  m.commit <= m.prev_index + Len(m.entries)
  BY DEF CommitCarried
<1>1. PICK i \in Server, p \in Server : m = SendAppend(i, node'[i], current_term'[i], p)
  BY DEF CommitSafe
<1>2. node'[i] \in NodeState /\ NumberedLog(0, node'[i].log)
  BY DEF LogInv, TypeOK, MatchingInv, ShapeInv
<1>3. /\ Len(node'[i].log.entries) <= MaxLog + MaxTerm
      /\ node'[i].commit_index <= Len(node'[i].log.entries)
  <2>1. LogInv' /\ CommitInv' => LogsBounded'
    BY RecordedBounded, PTL
  <2> QED  BY <2>1 DEF LogsBounded, Entries
<1>4. Len(node'[i].log.entries) \in Nat /\ MaxBatch \in Nat /\ MaxLog + MaxTerm \in Nat
  BY <1>2, NodeFields, ReadType, SettingAssumption, BoundAssumption
<1>5. Len(node'[i].log.entries) <= MaxBatch
  BY <1>3, <1>4 DEF WholeLogs
<1>6. /\ m.commit = node'[i].commit_index
      /\ m.prev_index + Len(m.entries) = Len(node'[i].log.entries)
  BY <1>1, <1>2, <1>5, SendSegment
<1> QED  BY <1>3, <1>6

-----------------------------------------------------------------------------
(* The theorems *)

LEMMA CommitInvariant ==
  ASSUME Reconfigurable = {}, VotesNotMixed, NoSnapshots, HonestRestart, WholeLogs
  PROVE  Spec => [](LogInv /\ CommitInv /\ CommitCarried)
<1>1. Init => CommitInv /\ CommitCarried
  BY CommitInit DEF Init, CommitCarried
<1>2. LogInv /\ LogInv' /\ CommitCarried /\ CommitInv /\ [Next]_vars => CommitInv' /\ CommitCarried'
  <2> SUFFICES ASSUME LogInv, LogInv', CommitCarried, CommitInv, [Next]_vars
               PROVE  CommitInv' /\ CommitCarried'
    OBVIOUS
  <2>1. CommitInv' /\ CommitSafe
    BY CommitStep
  <2> QED  BY <2>1, CarriedStep
<1>3. Spec => []LogInv
  BY LogInvariant
<1> QED  BY <1>1, <1>2, <1>3, PTL DEF Spec

\* A leader whose term nobody has passed has every entry that any server knows
\* to be committed: no election (_on_vote, _on_vote_resp) loses a committed entry,
\* for every cluster and every schedule.
THEOREM LeaderCompletenessHolds ==
  ASSUME Reconfigurable = {}, VotesNotMixed, NoSnapshots, HonestRestart, WholeLogs
  PROVE  Spec => []LeaderCompleteness
<1>1. LogInv /\ CommitInv => LeaderCompleteness
  BY RecordedComplete
<1> QED  BY <1>1, CommitInvariant, PTL

\* State machines that have come as far have applied the same commands
\* (_apply_committed), for every cluster and every schedule.
THEOREM StateMachineSafetyHolds ==
  ASSUME Reconfigurable = {}, VotesNotMixed, NoSnapshots, HonestRestart, WholeLogs
  PROVE  Spec => []StateMachineSafety
<1>1. LogInv /\ CommitInv => StateMachineSafety
  BY RecordedMachines
<1> QED  BY <1>1, CommitInvariant, PTL

\* What a server knows to be committed is in the logs of a majority
\* (_advance_commit, _on_append), whatever elections and truncations follow.
THEOREM CommittedOnMajorityHolds ==
  ASSUME Reconfigurable = {}, VotesNotMixed, NoSnapshots, HonestRestart, WholeLogs
  PROVE  Spec => []CommittedOnMajority
<1>1. LogInv /\ CommitInv => CommittedOnMajority
  BY RecordedMajority
<1> QED  BY <1>1, CommitInvariant, PTL

\* A peer in the leader's term has what the leader's match_index says of it
\* (_on_append_resp), however late or often its answers arrive.
THEOREM MatchIndexSoundHolds ==
  ASSUME Reconfigurable = {}, VotesNotMixed, NoSnapshots, HonestRestart, WholeLogs
  PROVE  Spec => []MatchIndexSound
<1>1. LogInv /\ CommitInv => MatchIndexSound
  BY RecordedMatch
<1> QED  BY <1>1, CommitInvariant, PTL

LEMMA SafeCovers ==
  ASSUME LogInv, LogInv', CommitSafe
  PROVE  \A i \in Server : \A k \in 1..node[i].commit_index :
           Present(node[i].log, k) => Covers(node'[i].log, node[i].log, k)
<1> SUFFICES ASSUME NEW i \in Server, NEW k \in 1..node[i].commit_index
             PROVE  Covers(node'[i].log, node[i].log, k)
  OBVIOUS
<1>1. /\ node[i].log \in LogOf(Payload) /\ NumberedLog(0, node[i].log)
      /\ node[i].commit_index \in Nat
  BY LogType, NodeFields DEF LogInv
<1>2. node'[i] \in NodeState /\ NumberedLog(0, node'[i].log)
  BY DEF LogInv, TypeOK, MatchingInv, ShapeInv
<1>3. node'[i].log \in LogOf(Payload)
  BY <1>2, NodeFields
<1>4. SameTo(node'[i].log.entries, node[i].log.entries, node[i].commit_index)
  BY DEF CommitSafe, Entries
<1> QED  BY <1>1, <1>2, <1>3, <1>4, CoversSame

\* No step removes or changes an entry that its server knows to be committed:
\* the truncation of merge never reaches down to the commit index.
THEOREM CommittedNeverLostHolds ==
  ASSUME Reconfigurable = {}, VotesNotMixed, NoSnapshots, HonestRestart, WholeLogs
  PROVE  Spec => CommittedNeverLost
<1>1. LogInv /\ LogInv' /\ CommitCarried /\ CommitInv /\ [Next]_vars =>
        [\A i \in Server : \A k \in 1..node[i].commit_index :
           Present(node[i].log, k) => Covers(node'[i].log, node[i].log, k)]_vars
  BY CommitStep, SafeCovers
<1>2. Spec => [](LogInv /\ CommitInv /\ CommitCarried)
  BY CommitInvariant
<1> QED  BY <1>1, <1>2, PTL DEF Spec, CommittedNeverLost

\* Where no server restarts, the commit index never moves back (_on_append takes
\* it from every append, _advance_commit from every acknowledgement).
THEOREM CommitMonotonicHolds ==
  ASSUME Reconfigurable = {}, VotesNotMixed, NoSnapshots, Restartable = {}, WholeLogs
  PROVE  Spec => CommitMonotonic
<1>0. HonestRestart
  BY DEF HonestRestart
<1>1. LogInv /\ LogInv' /\ CommitCarried /\ CommitInv /\ [Next]_vars =>
        [\A i \in Server : node'[i].commit_index >= node[i].commit_index]_vars
  <2> SUFFICES ASSUME LogInv, LogInv', CommitCarried, CommitInv, [Next]_vars
               PROVE  \A i \in Server : node'[i].commit_index >= node[i].commit_index
    OBVIOUS
  <2>1. CommitSafe
    BY <1>0, CommitStep
  <2>2. \A i \in Server : node[i].commit_index <= node'[i].commit_index
    BY <2>1 DEF CommitSafe
  <2> QED  BY <2>2
<1>2. Spec => [](LogInv /\ CommitInv /\ CommitCarried)
  BY <1>0, CommitInvariant
<1> QED  BY <1>1, <1>2, PTL DEF Spec, CommitMonotonic
=============================================================================
