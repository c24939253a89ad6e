------------------------- MODULE RaftMatchingProofs -------------------------
(***************************************************************************)
(* Log matching of Raft, for every cluster and every schedule, where       *)
(* nobody changes the configuration and no log is compacted (a log that is *)
(* empty above a snapshot starts again at index 1, see LastIndex).         *)
(*                                                                         *)
(* The argument is about fragments: the log of a server, and the part of a *)
(* leader's log that an append carries with the term before it.            *)
(***************************************************************************)
EXTENDS RaftProofs

\* take_snapshot is never called.
NoSnapshots == Snapshotters = {} /\ AutoSnapshotEvery = 0

-----------------------------------------------------------------------------
(* Fragments *)

Frag(base, base_term, entries) ==
  [base |-> base, base_term |-> base_term, entries |-> entries]

LogFrag(l) == Frag(0, 0, l.entries)
MsgFrag(m) == Frag(m.prev_index, m.prev_term, m.entries)
Frags ==
  {LogFrag(node[i].log) : i \in Server} \cup {MsgFrag(m) : m \in {x \in msgs : x.type = "append"}}

\* The indexes that a fragment has an entry for, and those it has a term for.
Last(F) == F.base + Len(F.entries)
Holds(F, k) == F.base < k /\ k <= Last(F)
Spans(F, k) == F.base <= k /\ k <= Last(F)
At(F, k) == F.entries[k - F.base]
TermIn(F, k) == IF k = F.base THEN F.base_term ELSE At(F, k).term

\* Two fragments that have an entry of the same term at k agree on everything
\* below k that both have.
Match(F, G) ==
  \A k \in Nat : Holds(F, k) /\ Holds(G, k) /\ At(F, k).term = At(G, k).term =>
    /\ \A l \in Nat : l <= k /\ Holds(F, l) /\ Holds(G, l) => At(F, l) = At(G, l)
    /\ \A l \in Nat : l <= k /\ Spans(F, l) /\ Spans(G, l) => TermIn(F, l) = TermIn(G, l)

\* F is a part of G (an empty one, if it has no entries).
Part(F, G) ==
  \A k \in Nat : Holds(F, k) =>
    /\ Holds(G, k) /\ At(F, k) = At(G, k)
    /\ \A l \in Nat : l <= k /\ Spans(F, l) => Spans(G, l) /\ TermIn(F, l) = TermIn(G, l)

-----------------------------------------------------------------------------
(* The inductive invariant *)

\* Logs are numbered from 1 and were never compacted; appends are numbered on
\* from their previous entry.
GoodAppend(m) ==
  /\ m.type # "install_snapshot"
  /\ m.type = "append" => /\ NumberedFrom(m.prev_index, m.entries)
                          /\ m.prev_index = 0 => m.prev_term = 0

ShapeInv ==
  /\ \A i \in Server : NumberedLog(0, node[i].log)
  /\ \A m \in msgs : GoodAppend(m)

Matching == \A F, G \in Frags : Match(F, G)

\* Entries are created by servers that were elected.
FromElected == \A F \in Frags : \A k \in Nat :
  Holds(F, k) => \E x \in Server : <<At(F, k).term, x>> \in elected

\* Where F has an entry of term t, L has one.
TermHeld(L, t, F) ==
  \A k \in Nat : Holds(F, k) /\ At(F, k).term = t => Holds(L, k) /\ At(L, k).term = t

\* A leader has every entry of its term.
LeaderHas ==
  \A i \in Server : role[i] = Leader =>
    /\ <<current_term[i], i>> \in elected
    /\ \A F \in Frags : TermHeld(LogFrag(node[i].log), current_term[i], F)

\* A candidate has not been elected in its term before; elections stay within
\* the bound on their terms.
CandidateNew ==
  /\ \A i \in Server : role[i] = Candidate =>
       <<current_term[i], i>> \notin elected /\ current_term[i] \in 1..MaxTerm
  /\ \A e \in elected : e[1] <= MaxTerm

MatchingInv == ShapeInv /\ Matching /\ FromElected /\ LeaderHas /\ CandidateNew

-----------------------------------------------------------------------------
(* Fragments that match *)

LEMMA MatchSymmetric ==
  ASSUME NEW F, NEW G, Match(F, G)
  PROVE  Match(G, F)
<1> SUFFICES ASSUME NEW k \in Nat, Holds(G, k), Holds(F, k), At(G, k).term = At(F, k).term
             PROVE  /\ \A l \in Nat : l <= k /\ Holds(G, l) /\ Holds(F, l) => At(G, l) = At(F, l)
                    /\ \A l \in Nat : l <= k /\ Spans(G, l) /\ Spans(F, l)
                                        => TermIn(G, l) = TermIn(F, l)
  BY DEF Match
<1>1. At(F, k).term = At(G, k).term
  OBVIOUS
<1>2. \A l \in Nat : l <= k /\ Holds(F, l) /\ Holds(G, l) => At(F, l) = At(G, l)
  BY <1>1 DEF Match
<1>3. \A l \in Nat : l <= k /\ Spans(F, l) /\ Spans(G, l) => TermIn(F, l) = TermIn(G, l)
  BY <1>1 DEF Match
<1> QED  BY <1>2, <1>3

LEMMA MatchReflexive ==
  ASSUME NEW F
  PROVE  Match(F, F) /\ Part(F, F)
BY DEF Match, Part

\* A part matches what the whole matches.
LEMMA PartMatches ==
  ASSUME NEW F, NEW G, NEW H, Part(F, G), Match(G, H)
  PROVE  Match(F, H)
<1> SUFFICES ASSUME NEW k \in Nat, Holds(F, k), Holds(H, k), At(F, k).term = At(H, k).term
             PROVE  /\ \A l \in Nat : l <= k /\ Holds(F, l) /\ Holds(H, l) => At(F, l) = At(H, l)
                    /\ \A l \in Nat : l <= k /\ Spans(F, l) /\ Spans(H, l)
                                        => TermIn(F, l) = TermIn(H, l)
  BY DEF Match
<1>1. /\ Holds(G, k) /\ At(G, k).term = At(H, k).term
      /\ \A l \in Nat : l <= k /\ Spans(F, l) => Spans(G, l) /\ TermIn(F, l) = TermIn(G, l)
  BY DEF Part
<1>2. \A l \in Nat : l <= k /\ Holds(G, l) /\ Holds(H, l) => At(G, l) = At(H, l)
  BY <1>1 DEF Match
<1>3. \A l \in Nat : l <= k /\ Spans(G, l) /\ Spans(H, l) => TermIn(G, l) = TermIn(H, l)
  BY <1>1 DEF Match
<1>4. \A l \in Nat : Holds(F, l) => Holds(G, l) /\ At(F, l) = At(G, l)
  BY DEF Part
<1> QED  BY <1>1, <1>2, <1>3, <1>4

LEMMA PartsMatch ==
  ASSUME NEW F, NEW G, NEW X, NEW Y, Part(F, X), Part(G, Y), Match(X, Y)
  PROVE  Match(F, G)
<1>1. Match(F, Y)
  BY PartMatches
<1>2. Match(Y, F)
  BY <1>1, MatchSymmetric
<1>3. Match(G, F)
  BY <1>2, PartMatches
<1> QED  BY <1>3, MatchSymmetric

\* Every fragment of the next state is one of this state, or a part of N.
Grows(N) == \A F \in Frags' : F \in Frags \/ Part(F, N)

LEMMA MatchingGrows ==
  ASSUME Matching, NEW N, \A F \in Frags : Match(N, F), Grows(N)
  PROVE  Matching'
<1>1. \A F \in Frags' : \E X \in Frags \cup {N} : Part(F, X)
  BY MatchReflexive DEF Grows
<1>2. \A X, Y \in Frags \cup {N} : Match(X, Y)
  BY MatchReflexive, MatchSymmetric DEF Matching
<1>3. ASSUME NEW F \in Frags', NEW G \in Frags'
      PROVE  Match(F, G)
  <2>1. PICK X \in Frags \cup {N} : Part(F, X)
    BY <1>1
  <2>2. PICK Y \in Frags \cup {N} : Part(G, Y)
    BY <1>1
  <2> QED  BY <1>2, <2>1, <2>2, PartsMatch
<1> QED  BY <1>3 DEF Matching

\* The entries of the new fragment are old, or of a term that was elected.
LEMMA FromElectedGrows ==
  ASSUME FromElected, NEW N, Grows(N), elected \subseteq elected',
         \A k \in Nat : Holds(N, k) => \E x \in Server : <<At(N, k).term, x>> \in elected'
  PROVE  FromElected'
<1>1. ASSUME NEW F \in Frags', NEW k \in Nat, Holds(F, k)
      PROVE  \E x \in Server : <<At(F, k).term, x>> \in elected'
  <2>1. CASE F \in Frags
    BY <1>1, <2>1 DEF FromElected
  <2>2. CASE Part(F, N)
    BY <1>1, <2>2 DEF Part
  <2> QED  BY <2>1, <2>2 DEF Grows
<1> QED  BY <1>1 DEF FromElected

LEMMA LeaderHasGrows ==
  ASSUME NEW N, Grows(N),
         \A j \in Server : role'[j] = Leader =>
           /\ <<current_term'[j], j>> \in elected'
           /\ \A F \in Frags \cup {N} : TermHeld(LogFrag(node'[j].log), current_term'[j], F)
  PROVE  LeaderHas'
<1>1. ASSUME NEW j \in Server, role'[j] = Leader, NEW F \in Frags'
      PROVE  TermHeld(LogFrag(node'[j].log), current_term'[j], F)
  <2>1. CASE F \in Frags
    BY <1>1, <2>1
  <2>2. CASE Part(F, N)
    <3>1. TermHeld(LogFrag(node'[j].log), current_term'[j], N)
      BY <1>1
    <3> QED  BY <2>2, <3>1 DEF TermHeld, Part
  <2> QED  BY <2>1, <2>2 DEF Grows
<1>2. ASSUME NEW j \in Server, role'[j] = Leader
      PROVE  <<current_term'[j], j>> \in elected'
  BY <1>2
<1> QED  BY <1>1, <1>2 DEF LeaderHas, TermHeld, Holds, At, LogFrag, Frag, Last

\* The messages that a step adds: appends that carry a part of N, and others.
Carries(m, N) == GoodAppend(m) /\ (m.type = "append" => Part(MsgFrag(m), N))
NewMessages(N) == \A m \in msgs' : m \in msgs \/ Carries(m, N)

LEMMA FragsGrow ==
  ASSUME ShapeInv, NEW N, NewMessages(N),
         \A j \in Server : node'[j].log = node[j].log \/ LogFrag(node'[j].log) = N
  PROVE  Grows(N) /\ \A m \in msgs' : GoodAppend(m)
<1>1. \A m \in msgs' : GoodAppend(m)
  BY DEF ShapeInv, NewMessages, Carries
<1>2. ASSUME NEW F \in Frags'
      PROVE  F \in Frags \/ Part(F, N)
  <2>1. CASE \E j \in Server : F = LogFrag(node'[j].log)
    BY <2>1, MatchReflexive DEF Frags
  <2>2. CASE \E m \in msgs' : m.type = "append" /\ F = MsgFrag(m)
    BY <2>2 DEF Frags, NewMessages, Carries
  <2> QED  BY <1>2, <2>1, <2>2 DEF Frags, LogFrag, MsgFrag, Frag
<1> QED  BY <1>1, <1>2 DEF Grows

-----------------------------------------------------------------------------
(* What a step does to the fragments *)

\* Servers that lead go on in their term, or do not lead any more.
LeadersStay ==
  \A j \in Server : role'[j] = Leader => role[j] = Leader /\ current_term'[j] = current_term[j]

\* No log changes; the messages that are sent carry parts of one of them.
LEMMA LogsStay ==
  ASSUME MatchingInv, NEW i \in Server, NewMessages(LogFrag(node[i].log)),
         \A j \in Server : node'[j].log = node[j].log,
         UNCHANGED elected, LeadersStay, CandidateNew'
  PROVE  MatchingInv'
<1> DEFINE N == LogFrag(node[i].log)
<1>1. N \in Frags
  BY DEF Frags
<1>2. Grows(N) /\ \A m \in msgs' : GoodAppend(m)
  BY FragsGrow DEF MatchingInv
<1> HIDE DEF N
<1>3. ShapeInv'
  BY <1>2 DEF MatchingInv, ShapeInv, NumberedLog, NumberedFrom, GoodAppend
<1>4. Matching'
  BY <1>1, <1>2, MatchingGrows DEF MatchingInv, Matching
<1>5. FromElected'
  BY <1>1, <1>2, FromElectedGrows DEF MatchingInv, FromElected
<1>6. LeaderHas'
  <2>1. ASSUME NEW j \in Server, role'[j] = Leader
        PROVE  /\ <<current_term'[j], j>> \in elected'
               /\ \A F \in Frags \cup {N} : TermHeld(LogFrag(node'[j].log), current_term'[j], F)
    <3>1. role[j] = Leader /\ current_term'[j] = current_term[j] /\ node'[j].log = node[j].log
      BY <2>1 DEF LeadersStay
    <3> QED  BY <1>1, <3>1 DEF MatchingInv, LeaderHas
  <2> QED  BY <1>2, <2>1, LeaderHasGrows
<1> QED  BY <1>3, <1>4, <1>5, <1>6 DEF MatchingInv

\* N is L with an entry of term t added.
Grown(L, N, t) ==
  /\ \A k \in Nat : Holds(L, k) => Holds(N, k) /\ At(N, k) = At(L, k)
  /\ \A k \in Nat : Holds(N, k) => Holds(L, k) \/ At(N, k).term = t
  /\ \A k, l \in Nat : l <= k /\ Holds(L, k) =>
       /\ Holds(N, l) => Holds(L, l)
       /\ Spans(N, l) => Spans(L, l) /\ TermIn(N, l) = TermIn(L, l)

LEMMA GrownMatches ==
  ASSUME NEW L, NEW N, NEW t, NEW F, Grown(L, N, t), Match(L, F), TermHeld(L, t, F)
  PROVE  Match(N, F)
<1> SUFFICES ASSUME NEW k \in Nat, Holds(N, k), Holds(F, k), At(N, k).term = At(F, k).term
             PROVE  /\ \A l \in Nat : l <= k /\ Holds(N, l) /\ Holds(F, l) => At(N, l) = At(F, l)
                    /\ \A l \in Nat : l <= k /\ Spans(N, l) /\ Spans(F, l)
                                        => TermIn(N, l) = TermIn(F, l)
  BY DEF Match
<1>1. Holds(L, k)
  BY DEF Grown, TermHeld
<1>2. At(L, k).term = At(F, k).term
  BY <1>1 DEF Grown
<1>3. \A l \in Nat : l <= k /\ Holds(L, l) /\ Holds(F, l) => At(L, l) = At(F, l)
  BY <1>1, <1>2 DEF Match
<1>4. \A l \in Nat : l <= k /\ Spans(L, l) /\ Spans(F, l) => TermIn(L, l) = TermIn(F, l)
  BY <1>1, <1>2 DEF Match
<1> QED  BY <1>1, <1>3, <1>4 DEF Grown

\* N is L up to the previous entry of M, and M from there on.
Spliced(L, M, N) ==
  /\ M.base \in Nat /\ L.base = 0 /\ Spans(L, M.base) /\ TermIn(L, M.base) = TermIn(M, M.base)
  /\ \A l \in Nat : Holds(N, l) =>
       \/ l <= M.base /\ Holds(L, l) /\ At(N, l) = At(L, l)
       \/ l > M.base /\ Holds(M, l) /\ At(N, l) = At(M, l)
  /\ \A l \in Nat : Spans(N, l) =>
       \/ l <= M.base /\ Spans(L, l) /\ TermIn(N, l) = TermIn(L, l)
       \/ l > M.base /\ Spans(M, l) /\ TermIn(N, l) = TermIn(M, l)

LEMMA SplicedMatches ==
  ASSUME NEW L, NEW M, NEW N, NEW F, Spliced(L, M, N), Match(L, F), Match(M, F),
         F.base \in Nat, Last(F) \in Nat, Last(M) \in Nat
  PROVE  Match(N, F)
<1> DEFINE b == M.base
<1> SUFFICES ASSUME NEW k \in Nat, Holds(N, k), Holds(F, k), At(N, k).term = At(F, k).term
             PROVE  /\ \A l \in Nat : l <= k /\ Holds(N, l) /\ Holds(F, l) => At(N, l) = At(F, l)
                    /\ \A l \in Nat : l <= k /\ Spans(N, l) /\ Spans(F, l)
                                        => TermIn(N, l) = TermIn(F, l)
  BY DEF Match
<1>1. b \in Nat /\ Spans(L, b) /\ TermIn(L, b) = TermIn(M, b)
  BY DEF Spliced
<1>2. CASE k <= b
  <2>1. Holds(L, k) /\ At(L, k).term = At(F, k).term
    BY <1>1, <1>2 DEF Spliced
  <2>2. \A l \in Nat : l <= k /\ Holds(L, l) /\ Holds(F, l) => At(L, l) = At(F, l)
    BY <2>1 DEF Match
  <2>3. \A l \in Nat : l <= k /\ Spans(L, l) /\ Spans(F, l) => TermIn(L, l) = TermIn(F, l)
    BY <2>1 DEF Match
  <2>4. \A l \in Nat : l <= k => l <= b /\ ~(l > b)
    BY <1>1, <1>2
  <2> QED  BY <2>2, <2>3, <2>4 DEF Spliced
<1>3. CASE k > b
  <2>1. Holds(M, k) /\ At(M, k).term = At(F, k).term
    BY <1>1, <1>3 DEF Spliced
  <2>2. \A l \in Nat : l <= k /\ Holds(M, l) /\ Holds(F, l) => At(M, l) = At(F, l)
    BY <2>1 DEF Match
  <2>3. \A l \in Nat : l <= k /\ Spans(M, l) /\ Spans(F, l) => TermIn(M, l) = TermIn(F, l)
    BY <2>1 DEF Match
  <2>4. Spans(M, b) /\ (F.base <= b => Spans(F, b) /\ TermIn(F, b) = TermIn(L, b))
    <3>1. Spans(M, b)
      BY <1>1, <1>3, <2>1 DEF Holds, Spans
    <3>2. F.base <= b => Spans(F, b)
      BY <1>1, <1>3 DEF Holds, Spans
    <3> QED  BY <1>1, <1>3, <2>3, <3>1, <3>2
  <2>5. F.base < b => Holds(F, b) /\ Holds(L, b) /\ At(L, b).term = At(F, b).term
    <3> SUFFICES ASSUME F.base < b
                 PROVE  Holds(F, b) /\ Holds(L, b) /\ At(L, b).term = At(F, b).term
      OBVIOUS
    <3>1. Holds(F, b)
      BY <1>1, <1>3 DEF Holds
    <3>2. L.base = 0 /\ b # 0
      BY <1>1 DEF Spliced
    <3>3. Holds(L, b)
      BY <1>1, <3>2 DEF Holds, Spans
    <3>4. b # F.base /\ b # L.base /\ TermIn(F, b) = TermIn(L, b)
      BY <1>1, <2>4, <3>2
    <3> QED  BY <3>1, <3>3, <3>4 DEF TermIn
  <2>6. ASSUME NEW l \in Nat, l <= k, Holds(N, l), Holds(F, l)
        PROVE  At(N, l) = At(F, l)
    <3>1. CASE l > b
      BY <1>1, <2>2, <2>6, <3>1 DEF Spliced
    <3>2. CASE l <= b
      <4>1. F.base < b
        BY <1>1, <2>6, <3>2 DEF Holds
      <4>2. Holds(L, l) /\ At(N, l) = At(L, l)
        BY <1>1, <2>6, <3>2 DEF Spliced
      <4> QED  BY <1>1, <2>5, <2>6, <3>2, <4>1, <4>2 DEF Match
    <3> QED  BY <1>1, <3>1, <3>2
  <2>7. ASSUME NEW l \in Nat, l <= k, Spans(N, l), Spans(F, l)
        PROVE  TermIn(N, l) = TermIn(F, l)
    <3>1. CASE l > b
      BY <1>1, <2>3, <2>7, <3>1 DEF Spliced
    <3>2. CASE l = b
      <4>1. F.base <= b
        BY <2>7, <3>2 DEF Spans
      <4>2. TermIn(N, l) = TermIn(L, l)
        BY <1>1, <2>7, <3>2 DEF Spliced
      <4> QED  BY <2>4, <3>2, <4>1, <4>2
    <3>3. CASE l < b
      <4>1. F.base < b
        BY <1>1, <2>7, <3>3 DEF Spans
      <4>2. Spans(L, l) /\ TermIn(N, l) = TermIn(L, l)
        BY <1>1, <2>7, <3>3 DEF Spliced
      <4> QED  BY <1>1, <2>5, <2>7, <3>3, <4>1, <4>2 DEF Match
    <3> QED  BY <1>1, <3>1, <3>2, <3>3
  <2> QED  BY <2>6, <2>7
<1> QED  BY <1>1, <1>2, <1>3

\* The step concerns the log and the role of server i alone.
Only(i) ==
  \A j \in Server \ {i} :
    /\ node'[j].log = node[j].log
    /\ role'[j] = Leader => role[j] = Leader /\ current_term'[j] = current_term[j]

\* A leader adds an entry of its term.
LEMMA LeaderGrows ==
  ASSUME MatchingInv, NEW i \in Server, NEW t, Only(i),
         Grown(LogFrag(node[i].log), LogFrag(node'[i].log), t),
         NumberedLog(0, node'[i].log),
         role'[i] = Leader, current_term'[i] = t,
         elected \subseteq elected', <<t, i>> \in elected', ElectionSafety',
         \A F \in Frags : TermHeld(LogFrag(node[i].log), t, F),
         NewMessages(LogFrag(node'[i].log)), CandidateNew'
  PROVE  MatchingInv'
<1> DEFINE L == LogFrag(node[i].log)
           N == LogFrag(node'[i].log)
<1>1. L \in Frags
  BY DEF Frags
<1>2. Grows(N) /\ \A m \in msgs' : GoodAppend(m)
  <2>1. \A j \in Server : node'[j].log = node[j].log \/ LogFrag(node'[j].log) = N
    BY DEF Only
  <2> QED  BY <2>1, FragsGrow DEF MatchingInv
<1>3. ShapeInv'
  <2>1. \A j \in Server : NumberedLog(0, node'[j].log)
    BY DEF MatchingInv, ShapeInv, Only
  <2> QED  BY <1>2, <2>1 DEF ShapeInv, NumberedLog, NumberedFrom, GoodAppend
<1> HIDE DEF L, N
<1>4. \A F \in Frags : Match(N, F)
  BY <1>1, GrownMatches DEF MatchingInv, Matching, L, N
<1>5. Matching'
  BY <1>2, <1>4, MatchingGrows DEF MatchingInv
<1>6. \A k \in Nat : Holds(N, k) =>
        (Holds(L, k) /\ At(N, k) = At(L, k)) \/ At(N, k).term = t
  BY DEF Grown, L, N
<1>7. \A k \in Nat : Holds(N, k) => \E x \in Server : <<At(N, k).term, x>> \in elected'
  BY <1>1, <1>6 DEF MatchingInv, FromElected
<1>8. FromElected'
  BY <1>2, <1>7, FromElectedGrows DEF MatchingInv
<1>9. \A k \in Nat : Holds(L, k) => Holds(N, k) /\ At(N, k) = At(L, k)
  BY DEF Grown, L, N
<1>10. ASSUME NEW j \in Server, role'[j] = Leader
       PROVE  /\ <<current_term'[j], j>> \in elected'
              /\ \A F \in Frags \cup {N} : TermHeld(LogFrag(node'[j].log), current_term'[j], F)
  <2>1. CASE j = i
    <3>1. \A F \in Frags : TermHeld(N, t, F)
      BY <1>9 DEF TermHeld, L
    <3>2. TermHeld(N, t, N)
      BY DEF TermHeld
    <3> QED  BY <2>1, <3>1, <3>2 DEF N
  <2>2. CASE j # i
    <3> DEFINE u == current_term[j]
    <3>1. role[j] = Leader /\ current_term'[j] = u /\ node'[j].log = node[j].log
      BY <1>10, <2>2 DEF Only
    <3>2. <<u, j>> \in elected /\ \A F \in Frags : TermHeld(LogFrag(node[j].log), u, F)
      BY <3>1 DEF MatchingInv, LeaderHas
    <3>3. u # t
      <4>1. \A a, b \in elected' : a[1] = b[1] => a[2] = b[2]
        BY DEF ElectionSafety
      <4> HIDE DEF u
      <4>2. <<u, j>> \in elected' /\ <<t, i>> \in elected'
        BY <3>2
      <4> QED  BY <2>2, <4>1, <4>2
    <3>4. TermHeld(LogFrag(node[j].log), u, N)
      <4>1. TermHeld(LogFrag(node[j].log), u, L)
        BY <1>1, <3>2
      <4> QED  BY <1>6, <3>3, <4>1 DEF TermHeld
    <3> QED  BY <3>1, <3>2, <3>4
  <2> QED  BY <2>1, <2>2
<1>11. LeaderHas'
  BY <1>2, <1>10, LeaderHasGrows
<1> QED  BY <1>3, <1>5, <1>8, <1>11 DEF MatchingInv

LEMMA FragTypes ==
  ASSUME TypeOK, NEW F \in Frags
  PROVE  /\ F.base \in Nat /\ F.entries \in Seq(EntryOf(Payload))
         /\ Len(F.entries) \in Nat /\ Last(F) \in Nat
<1>1. F.base \in Nat /\ F.entries \in Seq(EntryOf(Payload))
  <2>1. CASE \E i \in Server : F = LogFrag(node[i].log)
    <3>1. PICK i \in Server : F = LogFrag(node[i].log)
      BY <2>1
    <3>2. node[i].log.entries \in Seq(EntryOf(Payload))
      BY NodeFields DEF TypeOK, LogOf
    <3> QED  BY <3>1, <3>2 DEF LogFrag, Frag
  <2>2. CASE \E m \in msgs : m.type = "append" /\ F = MsgFrag(m)
    <3>1. PICK m \in msgs : m.type = "append" /\ F = MsgFrag(m)
      BY <2>2
    <3>2. m.prev_index \in Nat /\ m.entries \in Seq(EntryOf(Payload))
      BY <3>1, MessageFields, LogIsLogOf DEF TypeOK
    <3> QED  BY <3>1, <3>2 DEF MsgFrag, Frag
  <2> QED  BY <2>1, <2>2 DEF Frags
<1>2. Len(F.entries) \in Nat
  BY <1>1, LenProperties
<1> QED  BY <1>1, <1>2 DEF Last

\* A follower splices an append into its log.
LEMMA FollowerSplices ==
  ASSUME MatchingInv, TypeOK, NEW i \in Server, NEW m \in msgs, m.type = "append", Only(i),
         Spliced(LogFrag(node[i].log), MsgFrag(m), LogFrag(node'[i].log)),
         NumberedLog(0, node'[i].log),
         role'[i] # Leader, UNCHANGED elected,
         NewMessages(LogFrag(node'[i].log)), CandidateNew'
  PROVE  MatchingInv'
<1> DEFINE L == LogFrag(node[i].log)
           M == MsgFrag(m)
           N == LogFrag(node'[i].log)
<1>1. L \in Frags /\ M \in Frags
  BY DEF Frags
<1>2. Grows(N) /\ \A x \in msgs' : GoodAppend(x)
  <2>1. \A j \in Server : node'[j].log = node[j].log \/ LogFrag(node'[j].log) = N
    BY DEF Only
  <2> QED  BY <2>1, FragsGrow DEF MatchingInv
<1>3. ShapeInv'
  <2>1. \A j \in Server : NumberedLog(0, node'[j].log)
    BY DEF MatchingInv, ShapeInv, Only
  <2> QED  BY <1>2, <2>1 DEF ShapeInv, NumberedLog, NumberedFrom, GoodAppend
<1>4. Spliced(L, M, N)
  OBVIOUS
<1> HIDE DEF L, M, N
<1>5. ASSUME NEW F \in Frags
      PROVE  Match(N, F)
  <2>1. Match(L, F) /\ Match(M, F)
    BY <1>1 DEF MatchingInv, Matching
  <2>2. F.base \in Nat /\ Last(F) \in Nat /\ Last(M) \in Nat
    BY <1>1, FragTypes
  <2> QED  BY <1>4, <2>1, <2>2, SplicedMatches
<1>6. Matching'
  BY <1>2, <1>5, MatchingGrows DEF MatchingInv
<1>7. \A k \in Nat : Holds(N, k) =>
        (Holds(L, k) /\ At(N, k) = At(L, k)) \/ (Holds(M, k) /\ At(N, k) = At(M, k))
  BY <1>4 DEF Spliced
<1>8. FromElected'
  <2>1. \A k \in Nat : Holds(N, k) => \E x \in Server : <<At(N, k).term, x>> \in elected'
    BY <1>1, <1>7 DEF MatchingInv, FromElected
  <2> QED  BY <1>2, <2>1, FromElectedGrows DEF MatchingInv
<1>9. ASSUME NEW j \in Server, role'[j] = Leader
      PROVE  /\ <<current_term'[j], j>> \in elected'
             /\ \A F \in Frags \cup {N} : TermHeld(LogFrag(node'[j].log), current_term'[j], F)
  <2>1. /\ role[j] = Leader /\ current_term'[j] = current_term[j]
        /\ node'[j].log = node[j].log
    BY <1>9 DEF Only
  <2>2. /\ <<current_term[j], j>> \in elected
        /\ \A F \in Frags : TermHeld(LogFrag(node[j].log), current_term[j], F)
    BY <2>1 DEF MatchingInv, LeaderHas
  <2>3. TermHeld(LogFrag(node[j].log), current_term[j], N)
    BY <1>1, <1>7, <2>2 DEF TermHeld
  <2> QED  BY <2>1, <2>2, <2>3
<1>10. LeaderHas'
  BY <1>2, <1>9, LeaderHasGrows
<1> QED  BY <1>3, <1>6, <1>8, <1>10 DEF MatchingInv

-----------------------------------------------------------------------------
(* What the helpers do to the log *)

LEMMA ApplyKeepsLog ==
  ASSUME NoSnapshots, Reconfigurable = {}, NEW i \in Server, NEW n \in NodeState
  PROVE  /\ ApplyCommitted(i, n).log = n.log
         /\ ApplyCommitted(i, n).commit_index = n.commit_index
         /\ ApplyCommitted(i, n).match_index = n.match_index
         /\ ApplyCommitted(i, n).next_index = n.next_index
<1>1. ApplyConfigs(i, n) = n
  BY ApplyConfigsType
<1>2. ApplyCommitted(i, n) = ApplyEntries(i, n)
  BY DEF ApplyCommitted, NoSnapshots
<1> DEFINE a == [n EXCEPT !.state_machine =
                   n.state_machine \cup {<<k, Get(n.log, k).payload.value>> : k \in ToApply(n, "cmd")}]
<1>3. a.log = n.log /\ a.commit_index = n.commit_index
      /\ a.match_index = n.match_index /\ a.next_index = n.next_index
  BY DEF NodeState
<1>4. ApplyEntries(i, n) = [a EXCEPT !.applied_index = ApplyUpTo(n)]
  BY <1>1 DEF ApplyEntries
<1>5. DOMAIN a = DOMAIN n
  OBVIOUS
<1> HIDE DEF a
<1> QED  BY <1>2, <1>3, <1>4, <1>5 DEF NodeState

LEMMA AdvanceKeepsLog ==
  ASSUME NoSnapshots, Reconfigurable = {}, NEW i \in Server, NEW n \in NodeState, NEW t
  PROVE  AdvanceCommit(i, n, t).log = n.log
<1> DEFINE index == Greatest(Committable(i, n, t), 0)
           a == [n EXCEPT !.commit_index = index]
<1>1. Committable(i, n, t) \subseteq Nat
  <2>1. n.commit_index \in Nat /\ LastIndex(n.log) \in Nat
    BY NodeFields, ReadType
  <2> QED  BY <2>1 DEF Committable
<1>2. index \in Nat
  BY <1>1, GreatestType
<1>3. AdvanceCommit(i, n, t) = IF index = 0 THEN n ELSE ApplyCommitted(i, a)
  BY DEF AdvanceCommit
<1> HIDE DEF index
<1>4. a \in NodeState /\ a.log = n.log
  BY <1>2, SetCommit DEF NodeState
<1> HIDE DEF a
<1> QED  BY <1>3, <1>4, ApplyKeepsLog

LEMMA ProposeAppends ==
  ASSUME NoSnapshots, Reconfigurable = {}, NEW i \in Server, NEW n \in NodeState,
         NEW t \in Nat, NEW payload \in Payload
  PROVE  ProposeEntry(i, n, t, payload).log = AppendEntry(n.log, t, payload)
<1> DEFINE l == AppendEntry(n.log, t, payload)
           a == [n EXCEPT !.log = l]
<1>1. l \in LogOf(Payload)
  BY NodeFields, AppendEntryType
<1>2. ProposeEntry(i, n, t, payload) = AdvanceCommit(i, a, t)
  BY DEF ProposeEntry
<1> HIDE DEF l
<1>3. a \in NodeState /\ a.log = l
  BY <1>1, SetLog DEF NodeState
<1> HIDE DEF a
<1>4. AdvanceCommit(i, a, t).log = l
  BY <1>3, AdvanceKeepsLog
<1> QED  BY <1>2, <1>4 DEF l

LEMMA LeaderStateAppends ==
  ASSUME NoSnapshots, Reconfigurable = {}, NEW i \in Server, NEW n \in NodeState, NEW t \in Nat
  PROVE  LeaderState(i, n, t).log = AppendEntry(n.log, t, Noop)
<1> DEFINE next == [p \in Server |-> IF p \in Peers(i, n) THEN LastIndex(n.log) + 1 ELSE 0]
           match == [p \in Server |-> 0]
           a == [n EXCEPT !.next_index = next]
           b == [a EXCEPT !.match_index = match]
<1>1. LeaderState(i, n, t) = ProposeEntry(i, b, t, Noop)
  BY DEF LeaderState
<1>2. LastIndex(n.log) \in Nat /\ Noop \in Payload
  BY NodeFields, ReadType DEF Payload
<1>3. next \in [Server -> Nat] /\ match \in [Server -> Nat]
  BY <1>2
<1> HIDE DEF next, match
<1>4. a \in NodeState /\ a.log = n.log
  BY <1>3, SetNextIndex DEF NodeState
<1> HIDE DEF a
<1>5. b \in NodeState /\ b.log = n.log
  BY <1>3, <1>4, SetMatchIndex DEF NodeState
<1> HIDE DEF b
<1> QED  BY <1>1, <1>2, <1>5, ProposeAppends

LEMMA FollowerKeepsMerge ==
  ASSUME NoSnapshots, Reconfigurable = {}, NEW i \in Server, NEW n \in NodeState, NEW m,
         m.commit \in Nat, NEW merged, merged.log \in LogOf(Payload)
  PROVE  FollowerState(i, n, m, merged).log = merged.log
<1> DEFINE stored == [n EXCEPT !.log = merged.log]
           c == MinOf(m.commit, LastIndex(merged.log))
           a == [stored EXCEPT !.commit_index = c]
<1>1. stored \in NodeState /\ stored.log = merged.log
  BY SetLog DEF NodeState
<1>2. c \in Nat
  BY ReadType DEF MinOf
<1>3. \/ FollowerState(i, n, m, merged) = stored
      \/ FollowerState(i, n, m, merged) = ApplyCommitted(i, a)
  BY DEF FollowerState
<1> HIDE DEF stored, c
<1>4. a \in NodeState /\ a.log = stored.log
  BY <1>1, <1>2, SetCommit DEF NodeState
<1> HIDE DEF a
<1> QED  BY <1>1, <1>3, <1>4, ApplyKeepsLog

LEMMA RestartKeepsLog ==
  ASSUME NoSnapshots, Reconfigurable = {}, NEW i \in Server, NEW n \in NodeState
  PROVE  RestartedNode(i, n).log = n.log
<1> DEFINE fresh == [FreshNode EXCEPT !.log = n.log]
           a == [fresh EXCEPT !.commit_index = LastIndex(n.log)]
<1>1. n.log \in LogOf(Payload) /\ LastIndex(n.log) \in Nat
  BY NodeFields, ReadType
<1>2. fresh \in NodeState /\ fresh.log = n.log
  BY <1>1, FreshNodeType, SetLog DEF NodeState
<1>3. RestartedNode(i, n) = IF SimRestart THEN ApplyCommitted(i, a) ELSE fresh
  BY DEF RestartedNode
<1> HIDE DEF fresh
<1>4. a \in NodeState /\ a.log = fresh.log
  BY <1>1, <1>2, SetCommit DEF NodeState
<1> HIDE DEF a
<1> QED  BY <1>2, <1>3, <1>4, ApplyKeepsLog

-----------------------------------------------------------------------------
(* What the operators of the log do to fragments *)

LEMMA LogFragReads ==
  ASSUME NEW l \in LogOf(Payload)
  PROVE  /\ LogFrag(l).base = 0 /\ Len(l.entries) \in Nat /\ Last(LogFrag(l)) = Len(l.entries)
         /\ \A k \in Nat : Holds(LogFrag(l), k) <=> k \in 1..Len(l.entries)
         /\ \A k \in Nat : Spans(LogFrag(l), k) <=> k \in 0..Len(l.entries)
         /\ \A k \in Nat : At(LogFrag(l), k) = l.entries[k]
         /\ \A k \in Nat : TermIn(LogFrag(l), k) = IF k = 0 THEN 0 ELSE l.entries[k].term
<1> DEFINE L == LogFrag(l)
<1>1. Len(l.entries) \in Nat
  BY ReadType
<1>2. L.base = 0 /\ L.base_term = 0 /\ L.entries = l.entries
  BY DEF LogFrag, Frag
<1> HIDE DEF L
<1>3. Last(L) = Len(l.entries)
  BY <1>1, <1>2 DEF Last
<1>4. \A k \in Nat : At(L, k) = l.entries[k]
  <2> TAKE k \in Nat
  <2>1. k - 0 = k
    OBVIOUS
  <2> QED  BY <1>2, <2>1 DEF At
<1>5. \A k \in Nat : (Holds(L, k) <=> k \in 1..Len(l.entries)) /\ (Spans(L, k) <=> k \in 0..Len(l.entries))
  BY <1>1, <1>2, <1>3 DEF Holds, Spans
<1>6. \A k \in Nat : TermIn(L, k) = IF k = 0 THEN 0 ELSE l.entries[k].term
  BY <1>2, <1>4 DEF TermIn
<1> QED  BY <1>1, <1>2, <1>3, <1>4, <1>5, <1>6 DEF L

LEMMA AppendGrows ==
  ASSUME NEW l \in LogOf(Payload), NumberedLog(0, l), NEW t \in Nat, NEW payload \in Payload
  PROVE  /\ NumberedLog(0, AppendEntry(l, t, payload))
         /\ Grown(LogFrag(l), LogFrag(AppendEntry(l, t, payload)), t)
<1> DEFINE e == [index |-> LastIndex(l) + 1, term |-> t, payload |-> payload]
           l2 == AppendEntry(l, t, payload)
           n == Len(l.entries)
<1>1. /\ l.entries \in Seq(EntryOf(Payload)) /\ n \in Nat /\ l.first_index - 1 = 0
      /\ LastIndex(l) \in Nat
  BY ReadType DEF LogOf, NumberedLog
<1>2. e \in EntryOf(Payload) /\ e.term = t /\ e.index = LastIndex(l) + 1
  BY <1>1 DEF EntryOf
<1>3. l2 \in LogOf(Payload)
  BY AppendEntryType
<1>4. l2.entries = Append(l.entries, e) /\ l2.first_index = l.first_index
  BY DEF AppendEntry, LogOf
<1> HIDE DEF e, l2
<1>5. /\ Len(l2.entries) = n + 1
      /\ \A k \in 1..n : l2.entries[k] = l.entries[k]
      /\ l2.entries[n + 1] = e
  BY <1>1, <1>2, <1>4, AppendProperties
<1> DEFINE top == n + 1
<1>6. LastIndex(l) = n
  <2>1. (l.entries # << >> => LastIndex(l) = 0 + Len(l.entries)) /\ (l.entries = << >> => LastIndex(l) = 0 /\ Len(l.entries) = 0)
    <3>1. \A b \in Nat : NumberedLog(b, l) =>
            /\ l.entries # << >> => LastIndex(l) = b + Len(l.entries)
            /\ l.entries = << >> => LastIndex(l) = 0 /\ Len(l.entries) = 0
      BY NumberedReads
    <3> QED  BY <3>1
  <2> QED  BY <1>1, <2>1
<1>7. top \in Nat /\ top > n /\ \A k \in Nat : k \in 1..top <=> k \in 1..n \/ k = top
  BY <1>1
<1>8. Len(l2.entries) = top /\ l2.entries[top] = e /\ e.index = top
  BY <1>2, <1>5, <1>6
<1>8a. \A k \in Nat : k \in 0..top <=> k \in 0..n \/ k = top
  BY <1>1
<1> HIDE DEF top
<1>9. NumberedLog(0, l2)
  <2>1. \A k \in 1..top : l2.entries[k].index = 0 + k
    <3> TAKE k \in 1..top
    <3>1. CASE k \in 1..n
      BY <1>5, <3>1 DEF NumberedLog, NumberedFrom
    <3>2. CASE k = top
      BY <1>7, <1>8, <3>2
    <3> QED  BY <1>7, <3>1, <3>2
  <2> QED  BY <1>1, <1>4, <1>8, <2>1 DEF NumberedLog, NumberedFrom
<1> DEFINE L == LogFrag(l)
           N == LogFrag(l2)
<1>10. /\ \A k \in Nat : Holds(L, k) <=> k \in 1..n
       /\ \A k \in Nat : Spans(L, k) <=> k \in 0..n
       /\ \A k \in Nat : At(L, k) = l.entries[k]
       /\ \A k \in Nat : TermIn(L, k) = IF k = 0 THEN 0 ELSE l.entries[k].term
  BY LogFragReads
<1>11. /\ \A k \in Nat : Holds(N, k) <=> k \in 1..top
       /\ \A k \in Nat : Spans(N, k) <=> k \in 0..top
       /\ \A k \in Nat : At(N, k) = l2.entries[k]
       /\ \A k \in Nat : TermIn(N, k) = IF k = 0 THEN 0 ELSE l2.entries[k].term
  BY <1>3, <1>8, LogFragReads
<1> HIDE DEF L, N, n
<1>12. \A k \in Nat : Holds(L, k) => Holds(N, k) /\ At(N, k) = At(L, k)
  BY <1>5, <1>7, <1>10, <1>11
<1>13. \A k \in Nat : Holds(N, k) => Holds(L, k) \/ At(N, k).term = t
  BY <1>2, <1>7, <1>8, <1>10, <1>11
<1>14. ASSUME NEW k \in Nat, NEW j \in Nat, j <= k, Holds(L, k)
       PROVE  /\ Holds(N, j) => Holds(L, j)
              /\ Spans(N, j) => Spans(L, j) /\ TermIn(N, j) = TermIn(L, j)
  <2>1. k <= n /\ j <= n /\ j \in 0..n /\ (j # 0 => j \in 1..n)
    BY <1>1, <1>10, <1>14
  <2>2. Holds(N, j) => Holds(L, j)
    BY <1>10, <1>11, <2>1
  <2>3. Spans(L, j)
    BY <1>10, <2>1
  <2>4. TermIn(N, j) = TermIn(L, j)
    BY <1>5, <1>10, <1>11, <2>1
  <2> QED  BY <2>2, <2>3, <2>4
<1>15. Grown(L, N, t)
  BY <1>12, <1>13, <1>14 DEF Grown
<1> QED  BY <1>9, <1>15 DEF L, N, l2

\* What an append carries from a log numbered from 1.
LEMMA EntriesFromReads ==
  ASSUME NEW l \in LogOf(Payload), NumberedLog(0, l), NEW b \in Nat, NEW limit \in Nat
  PROVE  LET entries == EntriesFrom(l, b + 1, limit)
         IN  /\ entries \in Seq(EntryOf(Payload)) /\ Len(entries) \in Nat
             /\ \A j \in 1..Len(entries) : b + j \in 1..Len(l.entries) /\ entries[j] = l.entries[b + j]
             /\ Len(entries) = MaxOf(0, MinOf(Len(l.entries), b + limit) - b)
<1> DEFINE last == MinOf(Len(l.entries), b + limit)
           entries == EntriesFrom(l, b + 1, limit)
<1>1. l.entries \in Seq(EntryOf(Payload)) /\ Len(l.entries) \in Nat
  BY ReadType DEF LogOf
<1>2. last \in Nat /\ last <= Len(l.entries)
  BY <1>1 DEF MinOf
<1>3. entries = SubSeq(l.entries, b + 1, last)
  <2>1. l.first_index \in Nat /\ l.first_index - 1 = 0
    BY DEF LogOf, NumberedLog
  <2>2. l.first_index = 1
    BY <2>1
  <2>3. MaxOf(0, (b + 1) - l.first_index) = b
    BY <2>2 DEF MaxOf
  <2>4. entries = SubSeq(l.entries, MaxOf(0, (b + 1) - l.first_index) + 1,
                         MinOf(Len(l.entries), MaxOf(0, (b + 1) - l.first_index) + limit))
    BY DEF EntriesFrom
  <2> QED  BY ONLY <2>3, <2>4 DEF last
<1> HIDE DEF last
<1>4. \A k \in (b + 1)..last : l.entries[k] \in EntryOf(Payload)
  BY <1>1, <1>2, ElementOfSeq
<1>5. /\ entries \in Seq(EntryOf(Payload))
      /\ Len(entries) = IF b + 1 <= last THEN last - (b + 1) + 1 ELSE 0
      /\ \A j \in 1..(last - (b + 1) + 1) : entries[j] = l.entries[b + 1 + j - 1]
  <2>1. b + 1 \in Int /\ last \in Int
    BY <1>2
  <2> HIDE DEF entries
  <2> QED  BY <1>3, <1>4, <2>1, SubSeqProperties, SMTT(40)
<1> HIDE DEF entries
<1>6. Len(entries) = MaxOf(0, last - b) /\ Len(entries) \in Nat
  BY <1>2, <1>5 DEF MaxOf
<1>7. ASSUME NEW j \in 1..Len(entries)
      PROVE  b + j \in 1..Len(l.entries) /\ entries[j] = l.entries[b + j]
  <2>1. b + 1 <= last /\ j \in 1..(last - (b + 1) + 1)
    BY <1>2, <1>5
  <2>2. b + j \in 1..Len(l.entries) /\ b + 1 + j - 1 = b + j
    BY <1>1, <1>2, <2>1
  <2>3. entries[j] = l.entries[b + 1 + j - 1]
    BY <1>5, <2>1
  <2> QED  BY <2>2, <2>3
<1> QED  BY <1>5, <1>6, <1>7 DEF entries, last

LEMMA SendCarries ==
  ASSUME NEW i \in Server, NEW n \in NodeState, NumberedLog(0, n.log), NEW t, NEW p \in Server
  PROVE  Carries(SendAppend(i, n, t, p), LogFrag(n.log)) /\ SendAppend(i, n, t, p).type = "append"
<1> DEFINE next == IF p \in Tracked(n) THEN n.next_index[p] ELSE LastIndex(n.log) + 1
           l == n.log
           b == next - 1
           entries == EntriesFrom(l, next, MaxBatch)
           m == SendAppend(i, n, t, p)
<1>1. /\ l \in LogOf(Payload) /\ n.next_index \in [Server -> Nat] /\ LastIndex(l) \in Nat
  BY NodeFields, ReadType
<1>2. next \in Nat \ {0}
  BY <1>1 DEF Tracked
<1>3. ~(next < l.first_index)
  <2>1. l.first_index \in Nat /\ l.first_index - 1 = 0
    BY <1>1 DEF LogOf, NumberedLog
  <2> HIDE DEF next
  <2> QED  BY <1>2, <2>1
<1>4. /\ m.type = "append" /\ m.prev_index = b /\ m.prev_term = TermAt(l, b)
      /\ m.entries = entries
  BY <1>3 DEF SendAppend
<1> HIDE DEF next
<1>5. b \in Nat /\ b + 1 = next
  BY <1>2
<1>6. /\ entries \in Seq(EntryOf(Payload)) /\ Len(entries) \in Nat
      /\ \A j \in 1..Len(entries) : b + j \in 1..Len(l.entries) /\ entries[j] = l.entries[b + j]
  <2>1. MaxBatch \in Nat
    BY SettingAssumption
  <2>2. entries = EntriesFrom(l, b + 1, MaxBatch)
    BY <1>5
  <2> HIDE DEF b, entries
  <2> QED  BY <1>1, <1>5, <2>1, <2>2, EntriesFromReads
<1> HIDE DEF b, entries, m
<1>7. NumberedFrom(m.prev_index, m.entries)
  <2>1. \A j \in 1..Len(entries) : entries[j].index = b + j
    <3> TAKE j \in 1..Len(entries)
    <3>1. b + j \in 1..Len(l.entries) /\ entries[j] = l.entries[b + j]
      BY <1>6
    <3>2. l.entries[b + j].index = 0 + (b + j)
      BY <3>1 DEF NumberedLog, NumberedFrom
    <3> QED  BY <1>5, <1>6, <3>1, <3>2
  <2> QED  BY <1>4, <2>1 DEF NumberedFrom
<1>8. m.prev_index = 0 => m.prev_term = 0
  BY <1>4 DEF TermAt
<1>9. Part(MsgFrag(m), LogFrag(l))
  <2> DEFINE F == MsgFrag(m)
             L == LogFrag(l)
             size == Len(l.entries)
  <2>1. F.base = b /\ F.base_term = TermAt(l, b) /\ F.entries = entries
    BY <1>4 DEF MsgFrag, Frag
  <2>2. /\ \A k \in Nat : Holds(L, k) <=> k \in 1..size
        /\ \A k \in Nat : Spans(L, k) <=> k \in 0..size
        /\ \A k \in Nat : At(L, k) = l.entries[k]
        /\ \A k \in Nat : TermIn(L, k) = IF k = 0 THEN 0 ELSE l.entries[k].term
        /\ size \in Nat
    BY <1>1, LogFragReads
  <2> HIDE DEF F, L, size
  <2>3. ASSUME NEW k \in Nat, Holds(F, k)
        PROVE  Holds(L, k) /\ At(F, k) = At(L, k)
    <3>1. k - b \in 1..Len(entries) /\ b + (k - b) = k
      BY <1>5, <1>6, <2>1, <2>3 DEF Holds, Last
    <3>2. k \in 1..size /\ entries[k - b] = l.entries[k]
      BY <1>6, <3>1 DEF size
    <3> QED  BY <2>1, <2>2, <3>2 DEF At
  <2>4. ASSUME NEW k \in Nat, Holds(F, k), NEW j \in Nat, j <= k, Spans(F, j)
        PROVE  Spans(L, j) /\ TermIn(F, j) = TermIn(L, j)
    <3>1. b < k /\ k \in 1..size
      BY <2>1, <2>2, <2>3, <2>4 DEF Holds
    <3>2. CASE j = b
      <4>1. b \in 0..size
        BY <1>5, <2>2, <3>1
      <4>2. TermAt(l, b) = IF b = 0 THEN 0 ELSE l.entries[b].term
        <5>1. \A c \in Nat : NumberedLog(c, l) =>
                TermAt(l, b) = IF b = 0 THEN 0 ELSE IF b \in (c + 1)..(c + size)
                               THEN l.entries[b - c].term ELSE -1
          BY <1>1, <1>5, NumberedReads DEF size
        <5>2. TermAt(l, b) = IF b = 0 THEN 0 ELSE IF b \in (0 + 1)..(0 + size)
                             THEN l.entries[b - 0].term ELSE -1
          BY <5>1
        <5>3. b - 0 = b /\ (b # 0 => b \in (0 + 1)..(0 + size))
          BY <1>5, <2>2, <4>1
        <5> QED  BY <5>2, <5>3
      <4> QED  BY <1>5, <2>1, <2>2, <3>2, <4>1, <4>2 DEF TermIn
    <3>3. CASE j # b
      <4>1. Holds(F, j) /\ j # 0
        BY <1>5, <2>1, <2>4, <3>3 DEF Spans, Holds
      <4>2. Holds(L, j) /\ At(F, j) = At(L, j)
        BY <2>3, <4>1
      <4>3. j \in 0..size
        BY <2>2, <4>2
      <4> QED  BY <2>1, <2>2, <3>3, <4>1, <4>2, <4>3 DEF TermIn
    <3> QED  BY <3>2, <3>3
  <2>5. Part(F, L)
    BY <2>3, <2>4 DEF Part
  <2> QED  BY <2>5 DEF F, L
<1>10. Carries(m, LogFrag(l)) /\ m.type = "append"
  BY <1>4, <1>7, <1>8, <1>9 DEF Carries, GoodAppend
<1> QED  BY <1>10 DEF m

\* M is in N.
Contains(N, M) == \A k \in Nat : Holds(M, k) => Holds(N, k) /\ At(N, k) = At(M, k)

\* The log of l has the previous entry that the append M names.
Passes(L, M) == Spans(L, M.base) /\ TermIn(L, M.base) = M.base_term

\* What a merge that answers r makes of the log l and the append M.
Merges(l, M, r) ==
  \/ ~r.ok /\ r.log = l /\ r.match = 0
  \/ /\ r.ok /\ r.match = Last(M) /\ Passes(LogFrag(l), M)
     /\ r.log = l
     /\ Contains(LogFrag(l), M)
  \/ /\ r.ok /\ r.match = Last(M) /\ Passes(LogFrag(l), M)
     /\ NumberedLog(0, r.log) /\ r.log \in LogOf(Payload)
     /\ Spliced(LogFrag(l), M, LogFrag(r.log))
     /\ Contains(LogFrag(r.log), M)
     /\ \E c \in Nat : /\ Holds(M, c)
                       /\ Holds(LogFrag(l), c) => At(LogFrag(l), c).term # At(M, c).term

LEMMA TermAtReads ==
  ASSUME NEW l \in LogOf(Payload), NumberedLog(0, l), NEW k \in Nat
  PROVE  /\ Spans(LogFrag(l), k) => TermAt(l, k) = TermIn(LogFrag(l), k)
         /\ ~Spans(LogFrag(l), k) => TermAt(l, k) = -1
         /\ LastIndex(l) = Len(l.entries) /\ LastPosition(l) = Len(l.entries)
<1> DEFINE size == Len(l.entries)
<1>1. \A c \in Nat : NumberedLog(c, l) =>
        /\ LastPosition(l) = c + size
        /\ l.entries # << >> => LastIndex(l) = c + size
        /\ l.entries = << >> => LastIndex(l) = 0 /\ size = 0
        /\ TermAt(l, k) = IF k = 0 THEN 0 ELSE IF k \in (c + 1)..(c + size)
                          THEN l.entries[k - c].term ELSE -1
  BY NumberedReads
<1>2. /\ LastPosition(l) = 0 + size
      /\ l.entries # << >> => LastIndex(l) = 0 + size
      /\ l.entries = << >> => LastIndex(l) = 0 /\ size = 0
      /\ TermAt(l, k) = IF k = 0 THEN 0 ELSE IF k \in (0 + 1)..(0 + size)
                        THEN l.entries[k - 0].term ELSE -1
  BY <1>1
<1>3. /\ size \in Nat
      /\ Spans(LogFrag(l), k) <=> k \in 0..size
      /\ TermIn(LogFrag(l), k) = IF k = 0 THEN 0 ELSE l.entries[k].term
  BY LogFragReads
<1> HIDE DEF size
<1>4. k - 0 = k /\ 0 + size = size /\ 0 + 1 = 1
  BY <1>3
<1>5. TermAt(l, k) = IF k = 0 THEN 0 ELSE IF k \in 1..size THEN l.entries[k].term ELSE -1
  BY <1>2, <1>4
<1>6. k # 0 => (k \in 1..size <=> k \in 0..size)
  BY <1>3
<1>7. k = 0 => k \in 0..size
  BY <1>3
<1> QED  BY <1>2, <1>3, <1>4, <1>5, <1>6, <1>7 DEF size

LEMMA MergeSplices ==
  ASSUME NEW l \in LogOf(Payload), NumberedLog(0, l), NEW prev \in Nat, NEW prevTerm,
         NEW inc \in Seq(EntryOf(Payload)), NumberedFrom(prev, inc),
         Match(LogFrag(l), Frag(prev, prevTerm, inc))
  PROVE  Merges(l, Frag(prev, prevTerm, inc), Merge(l, prev, prevTerm, inc))
<1> DEFINE L == LogFrag(l)
           M == Frag(prev, prevTerm, inc)
           r == Merge(l, prev, prevTerm, inc)
           k == InsertAt(l, prev, inc)
           size == Len(l.entries)
           n == Len(inc)
<1>1. size \in Nat /\ n \in Nat
  BY ReadType, LenProperties
<1>2. /\ M.base = prev /\ M.base_term = prevTerm /\ M.entries = inc
      /\ Last(M) = prev + n
  BY DEF Frag, Last
<1>3. /\ L.base = 0
      /\ \A j \in Nat : Holds(L, j) <=> j \in 1..size
      /\ \A j \in Nat : Spans(L, j) <=> j \in 0..size
      /\ \A j \in Nat : At(L, j) = l.entries[j]
      /\ \A j \in Nat : TermIn(L, j) = IF j = 0 THEN 0 ELSE l.entries[j].term
  BY LogFragReads
<1>4. \A j \in Nat : /\ Spans(L, j) => TermAt(l, j) = TermIn(L, j)
                     /\ ~Spans(L, j) => TermAt(l, j) = -1
  BY TermAtReads
<1>5. LastIndex(l) = size
  BY TermAtReads
<1>6. Match(L, M)
  OBVIOUS
<1> HIDE DEF L, M, k, size, n
<1>7. ASSUME NEW j \in 1..n
      PROVE  Holds(M, prev + j) /\ At(M, prev + j) = inc[j] /\ inc[j].term \in Nat /\ prev + j \in Nat
  <2>1. prev + j \in Nat /\ (prev + j) - prev = j /\ prev < prev + j /\ prev + j <= prev + n
    BY <1>1
  <2>2. inc[j].term \in Nat
    <3>1. j \in 1..Len(inc)
      BY DEF n
    <3>2. inc[j] \in EntryOf(Payload)
      BY <3>1, ElementOfSeq
    <3> QED  BY <3>2 DEF EntryOf
  <2> QED  BY <1>2, <2>1, <2>2 DEF Holds, At
<1>8. ASSUME NEW j \in 1..n, TermAt(l, prev + j) = inc[j].term
      PROVE  Holds(L, prev + j) /\ At(L, prev + j) = At(M, prev + j)
  <2>1. Holds(M, prev + j) /\ At(M, prev + j) = inc[j] /\ inc[j].term \in Nat /\ prev + j \in Nat
    BY <1>7
  <2>2. Spans(L, prev + j)
    <3>1. ~Spans(L, prev + j) => inc[j].term = -1
      BY <1>4, <1>8, <2>1
    <3> QED  BY <2>1, <3>1
  <2>3. prev + j # 0 /\ prev + j \in 1..size
    BY <1>1, <1>3, <2>1, <2>2
  <2>4. Holds(L, prev + j) /\ At(L, prev + j).term = At(M, prev + j).term
    BY <1>3, <1>4, <1>8, <2>1, <2>2, <2>3
  <2>5. prev + j <= prev + j
    BY <2>1
  <2> QED  BY <1>6, <2>1, <2>4, <2>5 DEF Match
<1>9. CASE prev > LastIndex(l) \/ TermAt(l, prev) # prevTerm
  <2>1. ~r.ok /\ r.log = l /\ r.match = 0
    BY <1>9 DEF Merge, Rejected
  <2> HIDE DEF r
  <2> QED  BY <2>1 DEF Merges, M, r
<1>10. CASE ~(prev > LastIndex(l)) /\ TermAt(l, prev) = prevTerm
  <2>1. /\ r.ok /\ r.match = prev + n
        /\ r.log = IF k = 0 THEN l
                   ELSE [l EXCEPT !.entries = KeptEntries(l, prev, k) \o Renumbered(prev, inc, k)]
    BY <1>10 DEF Merge, n, k
  <2>2. r.match = Last(M)
    BY <1>2, <2>1
  <2>3. Spans(L, prev) /\ TermIn(L, prev) = prevTerm /\ prev <= size
    BY <1>1, <1>3, <1>4, <1>5, <1>10
  <2>4. Passes(L, M)
    BY <1>2, <2>3 DEF Passes
  <2>5. FirstMissing(l, prev, inc, k)
    BY <1>1, InsertAtFirst DEF n, k
  <2> HIDE DEF r
  <2>6. CASE k = 0
    <3>1. \A j \in 1..n : TermAt(l, prev + j) = inc[j].term
      <4>1. ~(0 \in 1..n)
        BY <1>1
      <4> QED  BY <2>5, <2>6, <4>1 DEF FirstMissing, n
    <3>2. Contains(L, M)
      <4> SUFFICES ASSUME NEW j \in Nat, Holds(M, j)
                   PROVE  Holds(L, j) /\ At(L, j) = At(M, j)
        BY DEF Contains
      <4>1. j - prev \in 1..n /\ prev + (j - prev) = j
        BY <1>1, <1>2 DEF Holds
      <4>2. TermAt(l, prev + (j - prev)) = inc[j - prev].term
        BY <3>1, <4>1
      <4>3. Holds(L, prev + (j - prev)) /\ At(L, prev + (j - prev)) = At(M, prev + (j - prev))
        BY <1>8, <4>1, <4>2
      <4> QED  BY <4>1, <4>3
    <3> QED  BY <2>1, <2>2, <2>4, <2>6, <3>2 DEF Merges, L, M, r
  <2>7. CASE k # 0
    <3> DEFINE new == KeptEntries(l, prev, k) \o Renumbered(prev, inc, k)
               l2 == [l EXCEPT !.entries = new]
               N == LogFrag(l2)
               cut == prev + k
    <3>1. /\ k \in 1..n /\ TermAt(l, prev + k) # inc[k].term
          /\ \A j \in 1..(k - 1) : TermAt(l, prev + j) = inc[j].term
      BY <2>5, <2>7 DEF FirstMissing, n
    <3>2. new \in Seq(EntryOf(Payload)) /\ MergedFrom(l, 0, prev, inc, k, new)
      <4>1. AgreesBefore(l, prev, inc, k) /\ k \in 1..Len(inc) /\ 0 \in Nat /\ prev >= 0
        BY <3>1 DEF AgreesBefore, n
      <4>2. prev <= 0 + Len(l.entries)
        BY <1>1, <2>3 DEF size
      <4> QED  BY <4>1, <4>2, MergeNumbered
    <3>3. /\ cut <= size + 1 /\ Len(new) = prev + n
          /\ \A j \in 1..Len(new) : new[j] = IF j < cut THEN l.entries[j] ELSE inc[j - prev]
      <4> HIDE DEF new
      <4>1. /\ prev + k <= 0 + size + 1
            /\ Len(new) = prev + n - 0
            /\ \A j \in 1..Len(new) :
                 new[j] = IF 0 + j < prev + k THEN l.entries[j] ELSE inc[0 + j - prev]
        BY <3>2 DEF MergedFrom, size, n
      <4>2. prev + n - 0 = prev + n /\ 0 + size = size
        BY <1>1
      <4>3. \A j \in 1..Len(new) : 0 + j = j /\ 0 + j - prev = j - prev
        <5>1. \A j \in Nat : 0 + j = j /\ 0 + j - prev = j - prev
          OBVIOUS
        <5>2. \A j \in 1..Len(new) : j \in Nat
          BY <1>1, <4>1, <4>2
        <5> QED  BY <5>1, <5>2
      <4> QED  BY <4>1, <4>2, <4>3
    <3> HIDE DEF new
    <3>4. l2 \in LogOf(Payload) /\ l2.entries = new /\ l2.first_index = l.first_index
      BY <3>2 DEF LogOf
    <3> HIDE DEF l2
    <3> DEFINE top == prev + n
    <3>5. /\ \A j \in Nat : Holds(N, j) <=> j \in 1..top
          /\ \A j \in Nat : Spans(N, j) <=> j \in 0..top
          /\ \A j \in Nat : At(N, j) = new[j]
          /\ \A j \in Nat : TermIn(N, j) = IF j = 0 THEN 0 ELSE new[j].term
      BY <3>3, <3>4, LogFragReads
    <3>6. cut \in Nat /\ cut > prev /\ top \in Nat /\ cut <= top /\ k \in Nat
      BY <1>1, <3>1
    <3>7. \A j \in Nat : Holds(M, j) <=> j > prev /\ j <= top
      BY <1>1, <1>2 DEF Holds
    <3>7a. \A j \in Nat : Spans(M, j) <=> j >= prev /\ j <= top
      BY <1>1, <1>2 DEF Spans
    <3>7b. \A j \in Nat : At(M, j) = inc[j - prev]
      BY <1>2 DEF At
    <3> HIDE DEF N, top, cut
    <3>8. ASSUME NEW j \in Nat, j > prev, j <= top
          PROVE  At(N, j) = At(M, j)
      <4>1. j \in 1..Len(new)
        BY <3>3, <3>6, <3>8 DEF top
      <4>2. CASE j < cut
        <5>1. j - prev \in 1..(k - 1) /\ j - prev \in 1..n /\ prev + (j - prev) = j
          BY <1>1, <3>1, <3>6, <3>8, <4>2 DEF cut
        <5>2. Holds(L, prev + (j - prev)) /\ At(L, prev + (j - prev)) = At(M, prev + (j - prev))
          BY <1>8, <3>1, <5>1
        <5> QED  BY <1>3, <3>3, <3>5, <4>1, <4>2, <5>1, <5>2
      <4>3. CASE ~(j < cut)
        BY <3>3, <3>5, <3>7b, <4>1, <4>3
      <4> QED  BY <4>2, <4>3
    <3>9. ASSUME NEW j \in Nat, j <= prev, j # 0
          PROVE  At(N, j) = At(L, j) /\ Holds(L, j)
      <4>1. j \in 1..Len(new) /\ j < cut /\ j \in 1..size
        BY <1>1, <2>3, <3>3, <3>6, <3>9 DEF top
      <4> QED  BY <1>3, <3>3, <3>5, <4>1
    <3>10. Spliced(L, M, N)
      <4>1. M.base \in Nat /\ L.base = 0 /\ Spans(L, M.base) /\ TermIn(L, M.base) = TermIn(M, M.base)
        BY <1>2, <1>3, <2>3 DEF TermIn
      <4>2. ASSUME NEW j \in Nat, Holds(N, j)
            PROVE  \/ j <= M.base /\ Holds(L, j) /\ At(N, j) = At(L, j)
                   \/ j > M.base /\ Holds(M, j) /\ At(N, j) = At(M, j)
        <5>1. j # 0 /\ j <= top
          BY <3>5, <3>6, <4>2
        <5>2. CASE j <= prev
          BY <1>2, <3>9, <5>1, <5>2
        <5>3. CASE j > prev
          BY <1>2, <3>7, <3>8, <5>1, <5>3
        <5> QED  BY <5>2, <5>3
      <4>3. ASSUME NEW j \in Nat, Spans(N, j)
            PROVE  \/ j <= M.base /\ Spans(L, j) /\ TermIn(N, j) = TermIn(L, j)
                   \/ j > M.base /\ Spans(M, j) /\ TermIn(N, j) = TermIn(M, j)
        <5>1. j <= top
          BY <3>5, <3>6, <4>3
        <5>2. CASE j = 0
          <6>1. j <= M.base
            BY <1>2, <5>2
          <6>2. Spans(L, j)
            BY <1>1, <1>3, <5>2
          <6> QED  BY <1>3, <3>5, <5>2, <6>1, <6>2
        <5>3. CASE j <= prev /\ j # 0
          <6>1. At(N, j) = At(L, j) /\ j \in 0..size
            BY <1>1, <2>3, <3>9, <5>3
          <6>2. TermIn(N, j) = TermIn(L, j)
            BY <1>3, <3>5, <5>3, <6>1
          <6> QED  BY <1>2, <1>3, <5>3, <6>1, <6>2
        <5>4. CASE j > prev
          <6>1. At(N, j) = At(M, j) /\ j # prev /\ j # 0 /\ j >= prev
            BY <3>8, <5>1, <5>4
          <6>2. TermIn(N, j) = TermIn(M, j)
            BY <1>2, <3>5, <6>1 DEF TermIn
          <6> QED  BY <1>2, <3>7a, <5>1, <5>4, <6>1, <6>2
        <5> QED  BY <5>2, <5>3, <5>4
      <4> QED  BY <4>1, <4>2, <4>3 DEF Spliced
    <3>11. Contains(N, M)
      <4> SUFFICES ASSUME NEW j \in Nat, Holds(M, j)
                   PROVE  Holds(N, j) /\ At(N, j) = At(M, j)
        BY DEF Contains
      <4>1. j > prev /\ j <= top
        BY <3>7
      <4>2. j \in 1..top
        BY <3>6, <4>1
      <4> QED  BY <3>5, <3>8, <4>1, <4>2
    <3>12. NumberedLog(0, l2)
      <4>1. \A j \in 1..Len(new) : new[j].index = 0 + j
        <5> TAKE j \in 1..Len(new)
        <5>1. j \in Nat /\ 0 + j = j /\ j # 0 /\ j <= top
          BY <1>1, <3>3 DEF top
        <5>2. CASE j < cut
          <6>1. j \in 1..size
            BY <1>1, <3>3, <3>6, <5>1, <5>2
          <6>2. l.entries[j].index = 0 + j
            BY <6>1 DEF NumberedLog, NumberedFrom, size
          <6> QED  BY <3>3, <5>2, <6>2
        <5>3. CASE ~(j < cut)
          <6>1. j - prev \in 1..n /\ prev + (j - prev) = j
            BY <1>1, <3>6, <5>1, <5>3 DEF top
          <6>2. inc[j - prev].index = prev + (j - prev)
            BY <6>1 DEF NumberedFrom, n
          <6> QED  BY <3>3, <5>1, <5>3, <6>1, <6>2
        <5> QED  BY <5>2, <5>3
      <4> QED  BY <3>4, <4>1 DEF NumberedLog, NumberedFrom
    <3>13. Holds(M, cut) /\ (Holds(L, cut) => At(L, cut).term # At(M, cut).term)
      <4>1. Holds(M, cut) /\ At(M, cut) = inc[k]
        BY <1>7, <3>1 DEF cut
      <4>2. Holds(L, cut) => TermAt(l, cut) = At(L, cut).term
        <5>1. Holds(L, cut) => Spans(L, cut) /\ cut # 0
          BY <1>1, <1>3, <3>6
        <5>2. Holds(L, cut) => TermAt(l, cut) = TermIn(L, cut)
          BY <1>4, <3>6, <5>1
        <5> QED  BY <1>3, <3>6, <5>1, <5>2
      <4>3. TermAt(l, cut) # inc[k].term
        BY <3>1 DEF cut
      <4> QED  BY <4>1, <4>2, <4>3
    <3>14. r.log = l2
      BY <2>1, <2>7 DEF l2, new
    <3>15. \E c \in Nat : Holds(M, c) /\ (Holds(L, c) => At(L, c).term # At(M, c).term)
      BY <3>6, <3>13
    <3>16. N = LogFrag(r.log)
      BY <3>14 DEF N
    <3>17. Merges(l, M, r)
      BY <2>1, <2>2, <2>4, <3>4, <3>10, <3>11, <3>12, <3>14, <3>15, <3>16 DEF Merges, L
    <3> QED  BY <3>17 DEF M, r
  <2> QED  BY <2>6, <2>7
<1> QED  BY <1>9, <1>10

-----------------------------------------------------------------------------
(* The steps *)

LEMMA SendNoAppend ==
  ASSUME NEW M, \A m \in M : m.type \notin {"append", "install_snapshot"}, Send(M), NEW N
  PROVE  NewMessages(N)
BY DEF Send, NewMessages, Carries, GoodAppend

LEMMA SendAppends ==
  ASSUME NEW i \in Server, NEW n \in NodeState, NumberedLog(0, n.log), NEW t,
         Send(SendAllAppends(i, n, t))
  PROVE  NewMessages(LogFrag(n.log))
<1>1. Peers(i, n) \subseteq Server
  BY NodeFields DEF Peers
<1>2. \A m \in SendAllAppends(i, n, t) : Carries(m, LogFrag(n.log))
  BY <1>1, SendCarries DEF SendAllAppends
<1> QED  BY <1>2 DEF Send, NewMessages

LEMMA MessagesStay ==
  ASSUME UNCHANGED msgs, NEW N
  PROVE  NewMessages(N)
BY DEF NewMessages

LEMMA RolesStay ==
  ASSUME MatchingInv, UNCHANGED <<role, current_term, elected>>
  PROVE  LeadersStay /\ CandidateNew'
BY DEF LeadersStay, MatchingInv, CandidateNew

\* Server i is a follower after the step, the others go on.
Follows(i) ==
  /\ role'[i] = Follower
  /\ \A j \in Server \ {i} : role'[j] = role[j] /\ current_term'[j] = current_term[j]
  /\ UNCHANGED elected

LEMMA FollowerStays ==
  ASSUME MatchingInv, NEW i \in Server, Follows(i)
  PROVE  LeadersStay /\ CandidateNew' /\ role'[i] # Leader
<1>1. role'[i] # Leader /\ role'[i] # Candidate
  BY DEF Follows, Follower, Leader, Candidate
<1> QED  BY <1>1 DEF LeadersStay, MatchingInv, CandidateNew, Follows

LEMMA StepDownFollows ==
  ASSUME TypeOK, NEW i \in Server, NEW t, StepDown(i, t), UNCHANGED elected
  PROVE  Follows(i)
BY DEF TypeOK, StepDown, Follows

LEMMA NodeLogs ==
  ASSUME TypeOK, NEW i \in Server, NEW n, node' = [node EXCEPT ![i] = n]
  PROVE  /\ node'[i] = n
         /\ \A j \in Server \ {i} : node'[j] = node[j]
         /\ n.log = node[i].log => \A j \in Server : node'[j].log = node[j].log
BY DEF TypeOK

LEMMA LogType ==
  ASSUME TypeOK, MatchingInv, NEW i \in Server
  PROVE  node[i] \in NodeState /\ node[i].log \in LogOf(Payload) /\ NumberedLog(0, node[i].log)
BY NodeFields DEF TypeOK, MatchingInv, ShapeInv

LEMMA HeartbeatMatching ==
  ASSUME TypeOK, MatchingInv, NEW i \in Server, Heartbeat(i) \/ AbortTransfer(i)
  PROVE  MatchingInv'
<1>1. /\ Send(SendAllAppends(i, node[i], current_term[i]))
      /\ UNCHANGED <<node, role, current_term, elected>>
  BY DEF Heartbeat, AbortTransfer, electionVars
<1>2. NewMessages(LogFrag(node[i].log))
  BY <1>1, LogType, SendAppends
<1> QED  BY <1>1, <1>2, RolesStay, LogsStay

LEMMA CheckQuorumMatching ==
  ASSUME TypeOK, MatchingInv, NEW i \in Server, CheckQuorum(i)
  PROVE  MatchingInv'
<1>1. StepDown(i, current_term[i]) /\ UNCHANGED <<node, msgs, elected>>
  BY DEF CheckQuorum
<1>2. LeadersStay /\ CandidateNew'
  BY <1>1, StepDownFollows, FollowerStays
<1> QED  BY <1>1, <1>2, MessagesStay, LogsStay

LEMMA ProposeMatching ==
  ASSUME NoSnapshots, Reconfigurable = {}, TypeOK, TypeOK', MatchingInv, ElectionSafety',
         NEW i \in Server, NEW v \in Value, Propose(i, v)
  PROVE  MatchingInv'
<1> DEFINE t == current_term[i]
           n == ProposeEntry(i, node[i], t, Command(v))
<1>1. /\ role[i] = Leader /\ node' = [node EXCEPT ![i] = n]
      /\ Send(SendAllAppends(i, node'[i], t))
      /\ UNCHANGED <<role, current_term, elected>>
  BY DEF Propose, electionVars
<1>2. /\ node[i] \in NodeState /\ node[i].log \in LogOf(Payload) /\ NumberedLog(0, node[i].log)
      /\ t \in Nat /\ Command(v) \in Payload
  BY LogType DEF TypeOK, Payload
<1>3. n.log = AppendEntry(node[i].log, t, Command(v))
  BY <1>2, ProposeAppends
<1> HIDE DEF n
<1>4. node'[i] = n /\ \A j \in Server \ {i} : node'[j] = node[j]
  BY <1>1, NodeLogs
<1>5. NumberedLog(0, node'[i].log) /\ Grown(LogFrag(node[i].log), LogFrag(node'[i].log), t)
  BY <1>2, <1>3, <1>4, AppendGrows
<1>6. NewMessages(LogFrag(node'[i].log))
  <2>1. node'[i] \in NodeState
    BY DEF TypeOK
  <2> QED  BY <1>1, <1>5, <2>1, SendAppends
<1>7. <<t, i>> \in elected /\ \A F \in Frags : TermHeld(LogFrag(node[i].log), t, F)
  BY <1>1 DEF MatchingInv, LeaderHas
<1>8. Only(i) /\ CandidateNew'
  BY <1>1, <1>4, RolesStay DEF Only
<1> HIDE DEF t
<1>9. current_term'[i] = t /\ role'[i] = Leader
  BY <1>1 DEF t
<1> QED  BY <1>1, <1>5, <1>6, <1>7, <1>8, <1>9, LeaderGrows

LEMMA TransferMatching ==
  ASSUME TypeOK, MatchingInv, NEW i \in Server, NEW target, TransferLeadership(i, target)
  PROVE  MatchingInv'
<1> DEFINE m == [type |-> "timeout_now", dest |-> target, term |-> current_term[i]]
<1>1. Send({m}) /\ UNCHANGED <<node, role, current_term, elected>>
  BY DEF TransferLeadership
<1>2. m.type \notin {"append", "install_snapshot"}
  OBVIOUS
<1> HIDE DEF m
<1>3. NewMessages(LogFrag(node[i].log))
  BY <1>1, <1>2, SendNoAppend
<1> QED  BY <1>1, <1>3, RolesStay, LogsStay

LEMMA RequestsAreVotes ==
  ASSUME NEW i, NEW type \in {"prevote", "vote"}, NEW t
  PROVE  \A m \in VoteRequests(i, type, t) : m.type \notin {"append", "install_snapshot"}
BY DEF VoteRequests

LEMMA StartPreVoteMatching ==
  ASSUME TypeOK, MatchingInv, NEW i \in Server, StartPreVote(i)
  PROVE  MatchingInv'
<1>1. /\ Send(VoteRequests(i, "prevote", current_term[i] + 1))
      /\ UNCHANGED <<node, role, current_term, elected>>
  BY DEF StartPreVote
<1>2. NewMessages(LogFrag(node[i].log))
  BY <1>1, RequestsAreVotes, SendNoAppend
<1> QED  BY <1>1, <1>2, RolesStay, LogsStay

LEMMA BecomeLeaderMatching ==
  ASSUME NoSnapshots, Reconfigurable = {}, TypeOK, TypeOK', MatchingInv, ElectionSafety',
         NEW i \in Server, NEW t \in 1..MaxTerm, BecomeLeader(i, t),
         <<t, i>> \notin elected, current_term'[i] = t, \A j \in Server \ {i} : current_term'[j] = current_term[j]
  PROVE  MatchingInv'
<1> DEFINE n == LeaderState(i, node[i], t)
<1>1. /\ role' = [role EXCEPT ![i] = Leader]
      /\ node' = [node EXCEPT ![i] = n]
      /\ Send(SendAllAppends(i, node'[i], t))
      /\ elected' = elected \cup {<<t, i>>}
  BY DEF BecomeLeader
<1>2. /\ node[i] \in NodeState /\ node[i].log \in LogOf(Payload) /\ NumberedLog(0, node[i].log)
      /\ t \in Nat /\ t <= MaxTerm
  BY LogType, BoundAssumption
<1>3. n.log = AppendEntry(node[i].log, t, Noop) /\ Noop \in Payload
  BY <1>2, LeaderStateAppends DEF Payload
<1> HIDE DEF n
<1>4. node'[i] = n /\ \A j \in Server \ {i} : node'[j] = node[j]
  BY <1>1, NodeLogs
<1>5. NumberedLog(0, node'[i].log) /\ Grown(LogFrag(node[i].log), LogFrag(node'[i].log), t)
  BY <1>2, <1>3, <1>4, AppendGrows
<1>6. NewMessages(LogFrag(node'[i].log))
  <2>1. node'[i] \in NodeState
    BY DEF TypeOK
  <2> QED  BY <1>1, <1>5, <2>1, SendAppends
<1>7. role'[i] = Leader /\ \A j \in Server \ {i} : role'[j] = role[j]
  BY <1>1 DEF TypeOK
<1>8. Only(i)
  BY <1>4, <1>7 DEF Only
<1>9. CandidateNew'
  <2>1. ASSUME NEW j \in Server, role'[j] = Candidate
        PROVE  <<current_term'[j], j>> \notin elected' /\ current_term'[j] \in 1..MaxTerm
    <3>1. j # i
      BY <1>7, <2>1 DEF Leader, Candidate
    <3>2. /\ <<current_term[j], j>> \notin elected /\ current_term[j] \in 1..MaxTerm
          /\ current_term'[j] = current_term[j]
      BY <1>7, <2>1, <3>1 DEF MatchingInv, CandidateNew
    <3> QED  BY <1>1, <3>1, <3>2
  <2>2. ASSUME NEW e \in elected'
        PROVE  e[1] <= MaxTerm
    <3>1. CASE e \in elected
      BY <3>1 DEF MatchingInv, CandidateNew
    <3>2. CASE e = <<t, i>>
      BY <1>2, <3>2
    <3> QED  BY <1>1, <3>1, <3>2
  <2> QED  BY <2>1, <2>2 DEF CandidateNew
<1>10. ASSUME NEW x \in Server
       PROVE  <<t, x>> \notin elected
  <2>1. <<t, x>> \in elected => x = i
    <3>1. \A a, b \in elected' : a[1] = b[1] => a[2] = b[2]
      BY DEF ElectionSafety
    <3> QED  BY <1>1, <3>1
  <2> QED  BY <2>1
<1>11. \A F \in Frags : TermHeld(LogFrag(node[i].log), t, F)
  BY <1>10 DEF MatchingInv, FromElected, TermHeld
<1>12. elected \subseteq elected' /\ <<t, i>> \in elected'
  BY <1>1
<1> QED  BY <1>5, <1>6, <1>7, <1>8, <1>9, <1>11, <1>12, LeaderGrows

LEMMA StartElectionMatching ==
  ASSUME NoSnapshots, Reconfigurable = {}, TypeOK, TypeOK', MatchingInv, LeaderPast,
         ElectionSafety', NEW i \in Server, NEW pre, StartElection(i, pre)
  PROVE  MatchingInv'
<1> DEFINE t == current_term[i] + 1
<1>1. /\ current_term' = [current_term EXCEPT ![i] = t]
      /\ \/ BecomeLeader(i, t)
         \/ /\ role' = [role EXCEPT ![i] = Candidate]
            /\ Send(VoteRequests(i, "vote", t))
            /\ UNCHANGED <<node, elected>>
  BY DEF StartElection
<1>2. t \in Nat /\ t > current_term[i] /\ current_term[i] \in Nat /\ t \in 1..MaxTerm
  <2>1. t <= MaxTerm /\ current_term[i] \in Nat
    BY DEF StartElection, TypeOK
  <2> QED  BY <2>1, BoundAssumption
<1>3. <<t, i>> \notin elected
  <2>1. ASSUME <<t, i>> \in elected
        PROVE  FALSE
    <3>1. t <= current_term[i]
      <4>1. \A e \in elected : e[1] <= current_term[e[2]]
        BY DEF LeaderPast
      <4> HIDE DEF t
      <4> QED  BY <2>1, <4>1
    <3> QED  BY <1>2, <3>1
  <2> QED  BY <2>1
<1> HIDE DEF t
<1>4. current_term'[i] = t /\ \A j \in Server \ {i} : current_term'[j] = current_term[j]
  BY <1>1 DEF TypeOK
<1>5. CASE BecomeLeader(i, t)
  BY <1>2, <1>3, <1>4, <1>5, BecomeLeaderMatching
<1>6. CASE /\ role' = [role EXCEPT ![i] = Candidate]
           /\ Send(VoteRequests(i, "vote", t))
           /\ UNCHANGED <<node, elected>>
  <2>1. role'[i] = Candidate /\ \A j \in Server \ {i} : role'[j] = role[j]
    BY <1>6 DEF TypeOK
  <2>2. CandidateNew'
    BY <1>2, <1>3, <1>4, <1>6, <2>1 DEF MatchingInv, CandidateNew
  <2>3. LeadersStay
    BY <1>4, <2>1 DEF LeadersStay, Leader, Candidate
  <2>4. NewMessages(LogFrag(node[i].log))
    BY <1>6, RequestsAreVotes, SendNoAppend
  <2> QED  BY <1>6, <2>2, <2>3, <2>4, LogsStay
<1> QED  BY <1>1, <1>5, <1>6

LEMMA OnPrevoteMatching ==
  ASSUME TypeOK, MatchingInv, NEW i \in Server, NEW m \in msgs, OnPrevote(i, m)
  PROVE  MatchingInv'
<1>1. /\ UNCHANGED <<node, role, current_term, elected>>
      /\ \E granted : Send({[type |-> "prevote_resp", dest |-> m.candidate,
                             term |-> m.term, from |-> i, granted |-> granted]})
  BY DEF OnPrevote, electionVars
<1>2. NewMessages(LogFrag(node[i].log))
  <2>1. PICK granted : Send({[type |-> "prevote_resp", dest |-> m.candidate,
                              term |-> m.term, from |-> i, granted |-> granted]})
    BY <1>1
  <2> QED  BY <2>1, SendNoAppend
<1> QED  BY <1>1, <1>2, RolesStay, LogsStay

LEMMA OnPrevoteRespMatching ==
  ASSUME NoSnapshots, Reconfigurable = {}, TypeOK, TypeOK', MatchingInv, LeaderPast,
         ElectionSafety', NEW i \in Server, NEW m \in msgs, OnPrevoteResp(i, m)
  PROVE  MatchingInv'
<1>1. StartElection(i, FALSE) \/ UNCHANGED <<node, role, current_term, msgs, elected>>
  BY DEF OnPrevoteResp
<1>2. CASE UNCHANGED <<node, role, current_term, msgs, elected>>
  BY <1>2, RolesStay, MessagesStay, LogsStay
<1> QED  BY <1>1, <1>2, StartElectionMatching

LEMMA OnVoteMatching ==
  ASSUME TypeOK, MatchingInv, NEW i \in Server, NEW m \in msgs, OnVote(i, m)
  PROVE  MatchingInv'
<1>1. /\ UNCHANGED <<node, elected>>
      /\ \E t, granted : Send({VoteReply(i, m, t, granted)})
  BY DEF OnVote
<1>2. \/ UNCHANGED <<role, current_term>>
      \/ /\ current_term' = [current_term EXCEPT ![i] = m.term]
         /\ role' = [role EXCEPT ![i] = Follower]
  BY DEF OnVote, electionVars
<1>3. NewMessages(LogFrag(node[i].log))
  <2>1. PICK t, granted : Send({VoteReply(i, m, t, granted)})
    BY <1>1
  <2>2. VoteReply(i, m, t, granted).type \notin {"append", "install_snapshot"}
    BY DEF VoteReply
  <2> QED  BY <2>1, <2>2, SendNoAppend
<1>4. LeadersStay /\ CandidateNew'
  <2>1. CASE UNCHANGED <<role, current_term>>
    BY <1>1, <2>1, RolesStay
  <2>2. CASE /\ current_term' = [current_term EXCEPT ![i] = m.term]
             /\ role' = [role EXCEPT ![i] = Follower]
    <3>1. Follows(i)
      BY <1>1, <2>2 DEF Follows, TypeOK
    <3> QED  BY <3>1, FollowerStays
  <2> QED  BY <1>2, <2>1, <2>2
<1> QED  BY <1>1, <1>3, <1>4, LogsStay

LEMMA OnVoteRespMatching ==
  ASSUME NoSnapshots, Reconfigurable = {}, TypeOK, TypeOK', MatchingInv,
         ElectionSafety', NEW i \in Server, NEW m \in msgs, OnVoteResp(i, m)
  PROVE  MatchingInv'
<1>1. /\ role[i] = Candidate /\ UNCHANGED current_term
      /\ BecomeLeader(i, current_term[i]) \/ UNCHANGED <<node, role, msgs, elected>>
  BY DEF OnVoteResp
<1>2. CASE UNCHANGED <<node, role, msgs, elected>>
  BY <1>1, <1>2, RolesStay, MessagesStay, LogsStay
<1>3. CASE BecomeLeader(i, current_term[i])
  <2>1. <<current_term[i], i>> \notin elected /\ current_term[i] \in 1..MaxTerm
    BY <1>1 DEF MatchingInv, CandidateNew
  <2> QED  BY <1>1, <1>3, <2>1, BecomeLeaderMatching
<1> QED  BY <1>1, <1>2, <1>3

LEMMA FollowLeaderFollows ==
  ASSUME TypeOK, NEW i \in Server, NEW m, FollowLeader(i, m), UNCHANGED elected
  PROVE  Follows(i)
<1>1. CASE StepDown(i, m.term)
  BY <1>1, StepDownFollows
<1>2. CASE role[i] = Follower /\ UNCHANGED <<current_term, role>>
  BY <1>2 DEF Follows
<1> QED  BY <1>1, <1>2 DEF FollowLeader

LEMMA ReplyIsNoAppend ==
  ASSUME NEW i, NEW m, NEW t, NEW success, NEW match, NEW conflict,
         Send({AppendReply(i, m, t, success, match, conflict)}), NEW N
  PROVE  NewMessages(N)
<1>1. AppendReply(i, m, t, success, match, conflict).type \notin {"append", "install_snapshot"}
  BY DEF AppendReply
<1> QED  BY <1>1, SendNoAppend

\* What a follower makes of an append of its own or a newer term.
LEMMA AppendMerges ==
  ASSUME TypeOK, MatchingInv, NEW i \in Server, NEW m \in msgs, m.type = "append"
  PROVE  /\ Merges(node[i].log, MsgFrag(m),
                   Merge(node[i].log, m.prev_index, m.prev_term, m.entries))
         /\ Merge(node[i].log, m.prev_index, m.prev_term, m.entries)
              \in [ok : BOOLEAN, match : Nat, conflict : Nat, log : LogOf(Payload)]
         /\ m.commit \in Nat /\ m.term \in Nat
<1>1. /\ m.prev_index \in Nat /\ m.prev_term \in Nat \cup {-1}
      /\ m.entries \in Seq(EntryOf(Payload)) /\ m.commit \in Nat /\ m.term \in Nat
  BY MessageFields, LogIsLogOf DEF TypeOK, Term
<1>2. node[i].log \in LogOf(Payload) /\ NumberedLog(0, node[i].log)
  BY LogType
<1>3. NumberedFrom(m.prev_index, m.entries)
  BY DEF MatchingInv, ShapeInv, GoodAppend
<1>4. Match(LogFrag(node[i].log), Frag(m.prev_index, m.prev_term, m.entries))
  <2>1. LogFrag(node[i].log) \in Frags /\ MsgFrag(m) \in Frags
    BY DEF Frags
  <2> QED  BY <2>1 DEF MatchingInv, Matching, MsgFrag
<1> QED  BY <1>1, <1>2, <1>3, <1>4, MergeSplices, MergeType DEF MsgFrag

LEMMA OnAppendMatching ==
  ASSUME NoSnapshots, Reconfigurable = {}, TypeOK, MatchingInv,
         NEW i \in Server, NEW m \in msgs, OnAppend(i, m)
  PROVE  MatchingInv'
<1> DEFINE merged == Merge(node[i].log, m.prev_index, m.prev_term, m.entries)
           n == FollowerState(i, node[i], m, merged)
<1>1. m.type = "append" /\ UNCHANGED elected
  BY DEF OnAppend
<1>2. CASE RejectStaleLeader(i, m)
  <2>1. /\ UNCHANGED <<node, role, current_term>>
        /\ Send({AppendReply(i, m, current_term[i], FALSE, 0, 0)})
    BY <1>2 DEF RejectStaleLeader, electionVars
  <2>2. NewMessages(LogFrag(node[i].log))
    BY <2>1, ReplyIsNoAppend
  <2> QED  BY <1>1, <2>1, <2>2, RolesStay, LogsStay
<1>3. CASE /\ FollowLeader(i, m) /\ node' = [node EXCEPT ![i] = n]
           /\ Send({AppendReply(i, m, m.term, merged.ok, merged.match, merged.conflict)})
  <2>1. Follows(i)
    BY <1>1, <1>3, FollowLeaderFollows
  <2>2. LeadersStay /\ CandidateNew' /\ role'[i] # Leader
    BY <2>1, FollowerStays
  <2>3. /\ Merges(node[i].log, MsgFrag(m), merged)
        /\ merged \in [ok : BOOLEAN, match : Nat, conflict : Nat, log : LogOf(Payload)]
        /\ m.commit \in Nat
    BY <1>1, AppendMerges
  <2>4. \A N : NewMessages(N)
    BY <1>3, ReplyIsNoAppend
  <2> HIDE DEF merged
  <2>5. n.log = merged.log
    BY <2>3, FollowerKeepsMerge, LogType
  <2> HIDE DEF n
  <2>6. node'[i].log = merged.log /\ \A j \in Server \ {i} : node'[j].log = node[j].log
    BY <1>3, <2>5, NodeLogs
  <2>7. CASE merged.log = node[i].log
    <3>1. \A j \in Server : node'[j].log = node[j].log
      BY <2>6, <2>7
    <3> QED  BY <1>1, <2>2, <2>4, <3>1, LogsStay
  <2>8. CASE /\ Spliced(LogFrag(node[i].log), MsgFrag(m), LogFrag(merged.log))
             /\ NumberedLog(0, merged.log)
    <3>1. Only(i)
      BY <2>2, <2>6 DEF Only, LeadersStay
    <3>2. /\ Spliced(LogFrag(node[i].log), MsgFrag(m), LogFrag(node'[i].log))
          /\ NumberedLog(0, node'[i].log)
      BY <2>6, <2>8
    <3> QED  BY <1>1, <2>2, <2>4, <3>1, <3>2, FollowerSplices
  <2> QED  BY <2>3, <2>7, <2>8 DEF Merges
<1> QED  BY <1>2, <1>3 DEF OnAppend

LEMMA OnAppendRespMatching ==
  ASSUME NoSnapshots, Reconfigurable = {}, TypeOK, TypeOK', MatchingInv,
         NEW i \in Server, NEW m \in msgs, OnAppendResp(i, m)
  PROVE  MatchingInv'
<1>1. m \in Message /\ m.type = "append_resp" /\ UNCHANGED elected
  BY DEF OnAppendResp, TypeOK
<1>2. CASE StepDown(i, m.term) /\ UNCHANGED <<node, msgs>>
  <2>1. LeadersStay /\ CandidateNew'
    BY <1>1, <1>2, StepDownFollows, FollowerStays
  <2> QED  BY <1>1, <1>2, <2>1, MessagesStay, LogsStay
<1>3. CASE /\ m.from \in Tracked(node[i])
           /\ node' = [node EXCEPT ![i] = AdvanceCommit(i, Acknowledged(node[i], m.from, m), m.term)]
           /\ UNCHANGED <<role, current_term, msgs>>
  <2> DEFINE a == Acknowledged(node[i], m.from, m)
  <2>1. node[i] \in NodeState
    BY LogType
  <2>2. a \in NodeState
    BY <1>1, <1>3, <2>1, ProgressUpdateType
  <2>3. a.log = node[i].log
    BY <2>1 DEF Acknowledged, NodeState
  <2> HIDE DEF a
  <2>4. AdvanceCommit(i, a, m.term).log = node[i].log
    BY <2>2, <2>3, AdvanceKeepsLog
  <2>5. \A j \in Server : node'[j].log = node[j].log
    BY <1>3, <2>4, NodeLogs DEF a
  <2> QED  BY <1>1, <1>3, <2>5, RolesStay, MessagesStay, LogsStay
<1>4. CASE /\ m.from \in Tracked(node[i])
           /\ node' = [node EXCEPT ![i] = BackedOff(node[i], m.from, m)]
           /\ Send({SendAppend(i, node'[i], m.term, m.from)})
           /\ UNCHANGED <<role, current_term>>
  <2> DEFINE b == BackedOff(node[i], m.from, m)
  <2>1. node[i] \in NodeState /\ NumberedLog(0, node[i].log)
    BY LogType
  <2>2. b.log = node[i].log
    BY <2>1 DEF BackedOff, NodeState
  <2> HIDE DEF b
  <2>3. node'[i] = b /\ \A j \in Server : node'[j].log = node[j].log
    BY <1>4, <2>2, NodeLogs DEF b
  <2>4. node'[i] \in NodeState /\ m.from \in Server
    BY <1>4 DEF TypeOK, Tracked
  <2>5. Carries(SendAppend(i, node'[i], m.term, m.from), LogFrag(node[i].log))
    <3>1. NumberedLog(0, node'[i].log) /\ LogFrag(node'[i].log) = LogFrag(node[i].log)
      BY <2>1, <2>2, <2>3
    <3>2. Carries(SendAppend(i, node'[i], m.term, m.from), LogFrag(node'[i].log))
      BY <2>4, <3>1, SendCarries
    <3> QED  BY <3>1, <3>2
  <2>6. NewMessages(LogFrag(node[i].log))
    BY <1>4, <2>5 DEF Send, NewMessages
  <2> QED  BY <1>1, <1>4, <2>3, <2>6, RolesStay, LogsStay
<1> QED  BY <1>2, <1>3, <1>4 DEF OnAppendResp, electionVars

LEMMA RestartMatching ==
  ASSUME NoSnapshots, Reconfigurable = {}, TypeOK, MatchingInv, NEW i \in Server, Restart(i)
  PROVE  MatchingInv'
<1>1. /\ role' = [role EXCEPT ![i] = Follower]
      /\ node' = [node EXCEPT ![i] = RestartedNode(i, node[i])]
      /\ UNCHANGED <<current_term, msgs, elected>>
  BY DEF Restart
<1>2. Follows(i)
  BY <1>1 DEF Follows, TypeOK
<1>3. RestartedNode(i, node[i]).log = node[i].log
  BY LogType, RestartKeepsLog
<1>4. \A j \in Server : node'[j].log = node[j].log
  BY <1>1, <1>3, NodeLogs
<1> QED  BY <1>1, <1>2, <1>4, FollowerStays, MessagesStay, LogsStay

LEMMA MatchingStep ==
  ASSUME NoSnapshots, Reconfigurable = {}, VotesNotMixed, TypeOK, ConfigFixed, ElectionInv,
         MatchingInv, [Next]_vars
  PROVE  MatchingInv'
<1>1. TypeOK' /\ ElectionInv' /\ LeaderPast
  BY TypeStep, ElectionStep DEF ElectionInv
<1>2. ElectionSafety'
  <2>1. TypeOK' /\ ElectionInv' => ElectionSafety'
    BY ElectionInvSafe, PTL
  <2> QED  BY <1>1, <2>1
<1>3. CASE UNCHANGED vars
  <2>1. UNCHANGED <<node, role, current_term, msgs, elected>>
    BY <1>3 DEF vars, electionVars
  <2>2. PICK i \in Server : TRUE
    BY ServerAssumption
  <2> QED  BY <2>1, <2>2, RolesStay, MessagesStay, LogsStay
<1>4. CASE Next
  <2> PICK i \in Server : \/ Tick(i)
                          \/ \E m \in msgs : Handle(i, m)
                          \/ Request(i)
                          \/ i \in Restartable /\ Restart(i)
    BY <1>4 DEF Next
  <2>1. CASE Tick(i)
    <3>1. CASE ElectionTimeout(i)
      <4>1. CASE StartElection(i, FALSE)
        BY <1>1, <1>2, <4>1, StartElectionMatching
      <4> QED  BY <3>1, <4>1, StartPreVoteMatching DEF ElectionTimeout
    <3> QED  BY <2>1, <3>1, HeartbeatMatching, CheckQuorumMatching DEF Tick
  <2>2. CASE \E m \in msgs : Handle(i, m)
    <3> PICK m \in msgs : Handle(i, m)
      BY <2>2
    <3>1. CASE OnPrevoteResp(i, m)
      BY <1>1, <1>2, <3>1, OnPrevoteRespMatching
    <3>2. CASE OnVoteResp(i, m)
      BY <1>1, <1>2, <3>2, OnVoteRespMatching
    <3>3. CASE OnTimeoutNow(i, m)
      <4>1. StartElection(i, pre_candidate[i])
        BY <3>3 DEF OnTimeoutNow
      <4> QED  BY <1>1, <1>2, <4>1, StartElectionMatching
    <3>4. CASE OnAppendResp(i, m)
      BY <1>1, <3>4, OnAppendRespMatching
    <3>5. ~OnInstallSnapshot(i, m)
      BY DEF OnInstallSnapshot, MatchingInv, ShapeInv, GoodAppend
    <3> QED  BY <3>1, <3>2, <3>3, <3>4, <3>5, OnPrevoteMatching, OnVoteMatching,
                OnAppendMatching DEF Handle
  <2>3. CASE Request(i)
    <3>1. \/ \E v \in Value : Propose(i, v)
          \/ \E target \in Targets : TransferLeadership(i, target)
      BY <2>3 DEF Request, NoSnapshots
    <3> QED  BY <1>1, <1>2, <3>1, ProposeMatching, TransferMatching
  <2>4. CASE Restart(i)
    BY <2>4, RestartMatching
  <2> QED  BY <2>1, <2>2, <2>3, <2>4
<1> QED  BY <1>3, <1>4

LEMMA MatchingInit ==
  ASSUME Init
  PROVE  MatchingInv
<1>1. /\ node = [i \in Server |-> FreshNode] /\ msgs = {} /\ role = [i \in Server |-> Follower]
      /\ elected = {}
  BY DEF Init
<1>2. FreshNode.log.entries = << >> /\ FreshNode.log.first_index = 1
  BY DEF FreshNode, EmptyLog
<1>3. ShapeInv
  BY <1>1, <1>2 DEF ShapeInv, NumberedLog, NumberedFrom
<1>4. ASSUME NEW F \in Frags
      PROVE  F = Frag(0, 0, << >>)
  BY <1>1, <1>2 DEF Frags, LogFrag
<1>5. \A k \in Nat : ~Holds(Frag(0, 0, << >>), k)
  BY DEF Holds, Last, Frag
<1>6. Matching /\ FromElected
  BY <1>4, <1>5 DEF Matching, Match, FromElected
<1>7. LeaderHas /\ CandidateNew
  BY <1>1 DEF LeaderHas, CandidateNew, Follower, Leader, Candidate
<1> QED  BY <1>3, <1>6, <1>7 DEF MatchingInv

\* How the log of a server is read where nothing was compacted.
LEMMA NodeLogReads ==
  ASSUME TypeOK, MatchingInv, NEW i \in Server, NEW k \in Nat
  PROVE  /\ Present(node[i].log, k) <=> Holds(LogFrag(node[i].log), k)
         /\ Get(node[i].log, k) = At(LogFrag(node[i].log), k)
         /\ Holds(LogFrag(node[i].log), k) => TermAt(node[i].log, k) = At(LogFrag(node[i].log), k).term
<1> DEFINE l == node[i].log
           size == Len(l.entries)
<1>1. l \in LogOf(Payload) /\ NumberedLog(0, l)
  BY LogType
<1>2. l.first_index \in Nat /\ l.first_index - 1 = 0
  BY <1>1 DEF LogOf, NumberedLog
<1>3. l.first_index = 1
  BY <1>2
<1>4. /\ Holds(LogFrag(l), k) <=> k \in 1..size
      /\ At(LogFrag(l), k) = l.entries[k]
      /\ LastPosition(l) = size /\ size \in Nat
  BY <1>1, LogFragReads, TermAtReads
<1> HIDE DEF l, size
<1>5. Present(l, k) <=> k \in 1..size
  BY <1>3, <1>4 DEF Present
<1>6. k - l.first_index + 1 = k
  BY <1>3
<1>7. Get(l, k) = l.entries[k]
  BY <1>6 DEF Get
<1>8. k \in 1..size => TermAt(l, k) = l.entries[k].term
  BY <1>5, <1>7 DEF TermAt
<1> QED  BY <1>4, <1>5, <1>7, <1>8 DEF l

LEMMA MatchingInvSafe ==
  ASSUME TypeOK, MatchingInv
  PROVE  LogMatching /\ LogContiguous
<1>1. LogMatching
  <2> SUFFICES ASSUME NEW i \in Server, NEW j \in Server,
                      NEW k \in Nat, Present(node[i].log, k), Present(node[j].log, k),
                      TermAt(node[i].log, k) = TermAt(node[j].log, k),
                      NEW l \in Nat, Present(node[i].log, l), Present(node[j].log, l), l <= k
               PROVE  Get(node[i].log, l) = Get(node[j].log, l)
    <3>1. \A i \in Server : LastPosition(node[i].log) \in Nat
      BY LogType, ReadType
    <3>2. \A i, j \in Server : MinOf(LastPosition(node[i].log), LastPosition(node[j].log)) \in Nat
      BY <3>1 DEF MinOf
    <3> QED  BY <3>2 DEF LogMatching
  <2> DEFINE F == LogFrag(node[i].log)
             G == LogFrag(node[j].log)
  <2>1. Match(F, G)
    BY DEF Frags, MatchingInv, Matching
  <2>2. Holds(F, k) /\ Holds(G, k) /\ At(F, k).term = At(G, k).term
    BY NodeLogReads
  <2>3. Holds(F, l) /\ Holds(G, l) /\ Get(node[i].log, l) = At(F, l) /\ Get(node[j].log, l) = At(G, l)
    BY NodeLogReads
  <2> HIDE DEF F, G
  <2> QED  BY <2>1, <2>2, <2>3 DEF Match
<1>2. LogContiguous
  <2> SUFFICES ASSUME NEW i \in Server, NEW k \in 1..Len(node[i].log.entries)
               PROVE  node[i].log.entries[k].index = node[i].log.first_index + k - 1
    BY DEF LogContiguous
  <2>1. node[i].log \in LogOf(Payload) /\ NumberedLog(0, node[i].log)
    BY LogType
  <2>2. node[i].log.entries[k].index = 0 + k
    BY <2>1 DEF NumberedLog, NumberedFrom
  <2>3. /\ node[i].log.first_index \in Nat /\ node[i].log.first_index - 1 = 0
        /\ Len(node[i].log.entries) \in Nat
    BY <2>1, ReadType DEF LogOf, NumberedLog
  <2>4. node[i].log.first_index = 1 /\ k \in Nat
    BY <2>3
  <2> QED  BY <2>2, <2>4
<1> QED  BY <1>1, <1>2

\* The whole invariant: types, elections and logs.
LogInv == TypeOK /\ ConfigFixed /\ ElectionInv /\ MatchingInv

LEMMA LogInvariant ==
  ASSUME Reconfigurable = {}, VotesNotMixed, NoSnapshots
  PROVE  Spec => []LogInv
<1>1. Init => LogInv
  BY TypeInit, ElectionInit, MatchingInit DEF LogInv
<1>2. LogInv /\ [Next]_vars => LogInv'
  BY TypeStep, ElectionStep, MatchingStep DEF KeepsConfig, LogInv
<1> QED  BY <1>1, <1>2, PTL DEF Spec

\* Two logs that have an entry of one term at an index are equal up to it, for
\* every cluster and every schedule of elections, truncations (merge), lost,
\* repeated and delayed messages, and restarts.
THEOREM LogMatchingHolds ==
  ASSUME Reconfigurable = {}, VotesNotMixed, NoSnapshots
  PROVE  Spec => []LogMatching
<1>1. LogInv => LogMatching
  BY MatchingInvSafe DEF LogInv
<1> QED  BY <1>1, LogInvariant, PTL

\* The entries of every log have consecutive indexes, whatever appends arrive
\* late or twice: what merge renumbers, it renumbers as the leader did.
THEOREM LogContiguousHolds ==
  ASSUME Reconfigurable = {}, VotesNotMixed, NoSnapshots
  PROVE  Spec => []LogContiguous
<1>1. LogInv => LogContiguous
  BY MatchingInvSafe DEF LogInv
<1> QED  BY <1>1, LogInvariant, PTL
=============================================================================
