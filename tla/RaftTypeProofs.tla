--------------------------- MODULE RaftTypeProofs ---------------------------
(***************************************************************************)
(* Type correctness of Raft for every cluster and every choice of the      *)
(* constants.  TypeOK is inductive as it stands.  The bound on indexes is  *)
(* the interesting part: every index that a handler computes (a match, a   *)
(* commit, the end of the log) is one that some log or snapshot has.       *)
(***************************************************************************)
EXTENDS RaftProperties, FiniteSetTheorems, WellFoundedInduction,
        NaturalsInduction, TLAPS

\* A non-empty set of bounded naturals has a greatest element, and Max is it.
LEMMA MaxExists ==
    ASSUME NEW N \in Nat, NEW S, S \subseteq 0..N, S # {}
    PROVE  /\ Max(S) \in S
           /\ \A y \in S : Max(S) >= y
<1> DEFINE T == {x \in 0..N : N - x \in S}
           Less == {p \in Nat \X Nat : p[1] < p[2]}
<1>1. T \subseteq Nat
  OBVIOUS
<1>2. T # {}
  <2>1. PICK x \in S : x \in 0..N
    OBVIOUS
  <2>2. N - x \in 0..N /\ N - (N - x) = x
    BY <2>1
  <2> QED
    BY <2>1, <2>2
<1>3. IsWellFoundedOn(Less, Nat)
  <2>1. Less = OpToRel(<, Nat)
    BY Zenon DEF OpToRel
  <2> QED
    BY <2>1, NatLessThanWellFounded, Zenon
<1> HIDE DEF T, Less
<1>4. PICK m \in T : \A y \in T : ~(<<y, m>> \in Less)
  BY <1>1, <1>2, <1>3, WFMin
<1>5. \A y \in T : m <= y
  <2> SUFFICES ASSUME NEW y \in T
               PROVE  m <= y
    OBVIOUS
  <2>1. m \in Nat /\ y \in Nat /\ ~(<<y, m>> \in Less)
    BY <1>1, <1>4
  <2> QED
    BY <2>1 DEF Less
<1>6. N - m \in S /\ \A y \in S : N - m >= y
  <2>1. m \in 0..N /\ N - m \in S
    BY <1>4 DEF T
  <2>2. ASSUME NEW y \in S
        PROVE  N - m >= y
    <3>1. y \in 0..N /\ N - y \in 0..N /\ N - (N - y) = y
      OBVIOUS
    <3>2. N - y \in T
      BY <3>1 DEF T
    <3> QED
      BY <3>1, <3>2, <2>1, <1>5
  <2> QED
    BY <2>1, <2>2
<1> QED
  BY <1>6 DEF Max

\* It has a least element, and Min is it.
LEMMA MinExists ==
    ASSUME NEW N \in Nat, NEW S, S \subseteq 0..N, S # {}
    PROVE  /\ Min(S) \in S
           /\ \A y \in S : Min(S) <= y
<1> DEFINE Less == {p \in Nat \X Nat : p[1] < p[2]}
<1>1. IsWellFoundedOn(Less, Nat)
  <2>1. Less = OpToRel(<, Nat)
    BY Zenon DEF OpToRel
  <2> QED
    BY <2>1, NatLessThanWellFounded, Zenon
<1>2. S \subseteq Nat
  OBVIOUS
<1> HIDE DEF Less
<1>3. PICK m \in S : \A y \in S : ~(<<y, m>> \in Less)
  BY <1>1, <1>2, WFMin
<1>4. \A y \in S : m <= y
  <2> SUFFICES ASSUME NEW y \in S
               PROVE  m <= y
    OBVIOUS
  <2>1. m \in Nat /\ y \in Nat /\ ~(<<y, m>> \in Less)
    BY <1>2, <1>3
  <2> QED
    BY <2>1 DEF Less
<1> QED
  BY <1>4 DEF Min

----------------------------------------------------------------------------
(* The store                                                               *)

\* LastIndexAndTerm returns an index and a term.
LEMMA LastIndexType ==
    ASSUME NEW st, IsStore(st)
    PROVE  /\ LastIndex(st) \in Index
           /\ LastTerm(st) \in Nat
<1>1. CASE DOMAIN st.log_entries = {}
  BY <1>1 DEF LastIndex, LastTerm, IsStore
<1>2. CASE DOMAIN st.log_entries # {}
  <2>1. LastIndex(st) \in DOMAIN st.log_entries
    <3>1. DOMAIN st.log_entries \subseteq 0..MaxIndex /\ MaxIndex \in Nat
      BY RaftConstants DEF IsStore, IsTable
    <3> QED
      BY <1>2, <3>1, MaxExists DEF LastIndex
  <2>2. LastTerm(st) = st.log_entries[LastIndex(st)].term
    BY <1>2 DEF LastTerm
  <2> QED
    BY <2>1, <2>2 DEF IsStore, IsTable, Index, Row
<1> QED
  BY <1>1, <1>2

\* Term returns a term where it returns one at all.
LEMMA TermAtType ==
    ASSUME NEW st, IsStore(st), NEW i \in Index, HasTerm(st, i)
    PROVE  TermAt(st, i) \in Nat
BY DEF TermAt, HasTerm, IsStore, IsTable, Row

\* EntriesFrom returns rows of the log.
LEMMA EntriesFromType ==
    ASSUME NEW st, IsStore(st), NEW start, NEW limit
    PROVE  IsTable(EntriesFrom(st, start, limit), MaxIndex)
BY DEF EntriesFrom, IsStore, IsTable

\* SaveTermVote keeps a store a store,
LEMMA SaveTermVoteType ==
    ASSUME NEW st, IsStore(st), NEW term \in Nat, NEW v \in Ids
    PROVE  IsStore(SaveTermVote(st, term, v))
BY DEF SaveTermVote, IsStore

\* ... so does AppendEntries of rows within the bound,
LEMMA AppendEntriesType ==
    ASSUME NEW st, IsStore(st), NEW rows, IsTable(rows, MaxIndex)
    PROVE  IsStore(AppendEntries(st, rows))
BY DEF AppendEntries, IsStore, IsTable

\* ... and DeleteFrom.
LEMMA DeleteFromType ==
    ASSUME NEW st, IsStore(st), NEW i
    PROVE  IsStore(DeleteFrom(st, i))
BY DEF DeleteFrom, IsStore, IsTable

\* Setting the commands of existing rows gives a kv table.
LEMMA KvAfterType ==
    ASSUME NEW kv \in KvTables, NEW table, IsTable(table, MaxIndex),
           NEW I, I \subseteq DOMAIN table
    PROVE  KvAfter(kv, table, I) \in KvTables
<1>1. ASSUME NEW k \in Key,
             NEW W, W = {i \in I : table[i].cmd.key = k}, W # {}
      PROVE  table[Max(W)].cmd.value \in Value
  <2>1. W \subseteq 0..MaxIndex /\ MaxIndex \in Nat
    BY <1>1, RaftConstants DEF IsTable
  <2>2. Max(W) \in DOMAIN table
    BY <1>1, <2>1, MaxExists
  <2> QED
    BY <2>2 DEF IsTable, Row, Command
<1> QED
  BY <1>1 DEF KvAfter, KvTables

\* ApplySet of rows that exist keeps a store a store,
LEMMA ApplySetsType ==
    ASSUME NEW st, IsStore(st), NEW from \in Index, NEW to \in Index,
           (from + 1)..to \subseteq DOMAIN st.log_entries
    PROVE  IsStore(ApplySets(st, from, to))
<1>1. KvAfter(st.kv, st.log_entries, (from + 1)..to) \in KvTables
  BY KvAfterType DEF IsStore
<1> QED
  BY <1>1 DEF ApplySets, IsStore

\* ... so does CreateSnapshot,
LEMMA CreateSnapshotType ==
    ASSUME NEW st, IsStore(st), NEW i \in Index, NEW term \in Nat
    PROVE  IsStore(CreateSnapshot(st, i, term))
BY DEF CreateSnapshot, RowsAfter, IsStore, IsTable

\* ... and InstallSnapshot.
LEMMA InstallSnapshotType ==
    ASSUME NEW st, IsStore(st), NEW i \in Index, NEW term \in Nat,
           NEW data \in KvTables
    PROVE  IsStore(InstallSnapshot(st, i, term, data))
BY DEF InstallSnapshot, RowsAfter, IsStore, IsTable

----------------------------------------------------------------------------
(* Operations on one node                                                  *)

\* stepDownLocked keeps a node a node,
LEMMA StepDownType ==
    ASSUME NEW n, IsNode(n), NEW term \in Nat, NEW leader \in Ids, NEW f
    PROVE  IsNode(stepDownLocked(n, term, leader, f))
<1>1. IsStore(SaveTermVote(n.store, term, Nobody))
  BY SaveTermVoteType DEF IsNode, Ids
<1> QED
  BY <1>1 DEF stepDownLocked, IsNode, Ids, Roles

\* ... so does becomeLeaderLocked, whose nextIndex is at most one past the log,
LEMMA BecomeLeaderType ==
    ASSUME NEW n, IsNode(n), NEW s \in Server, NEW f
    PROVE  IsNode(becomeLeaderLocked(n, s, f))
<1>1. LastIndex(n.store) \in Index
  BY LastIndexType DEF IsNode
<1>2. LastIndex(n.store) + 1 \in 0..(MaxIndex + 1)
  BY <1>1, RaftConstants DEF Index
<1>3. 0 \in Index
  BY RaftConstants DEF Index
<1> QED
  BY <1>1, <1>2, <1>3 DEF becomeLeaderLocked, IsNode, Ids, Roles

\* ... and compactIfNeededLocked.
LEMMA CompactType ==
    ASSUME NEW n, IsNode(n), NEW s \in Server, NEW f
    PROVE  IsNode(compactIfNeededLocked(n, s, f))
<1>1. HasTerm(n.store, n.lastApplied) =>
        IsStore(CreateSnapshot(n.store, n.lastApplied,
                               TermAt(n.store, n.lastApplied)))
  BY TermAtType, CreateSnapshotType DEF IsNode
<1> QED
  BY <1>1 DEF compactIfNeededLocked, IsNode

\* applyCommittedLocked applies rows that exist, then may compact.
LEMMA ApplyCommittedForm ==
    ASSUME NEW n, IsNode(n), NEW s \in Server, NEW f
    PROVE  \E from, to, new :
              LET done == [n EXCEPT
                             !.lastApplied = to,
                             !.store       = ApplySets(n.store, from, to),
                             !.applied     = n.applied \cup new]
              IN  /\ IsNode(done)
                  /\ applyCommittedLocked(n, s, f) \in
                        {done, compactIfNeededLocked(done, s, f)}
<1> DEFINE log  == n.store.log_entries
           skip == /\ f.method # "SnapshotIndexTerm"
                   /\ f # [method |-> "Entry", at |-> n.lastApplied + 1]
                   /\ n.lastApplied < n.commitIndex
                   /\ n.lastApplied + 1 \notin DOMAIN log
                   /\ n.lastApplied + 1 <= n.store.snapshot_index
           from == IF skip THEN n.store.snapshot_index ELSE n.lastApplied
           R    == {i \in (from + 1)..n.commitIndex :
                        (from + 1)..i \subseteq DOMAIN log}
           full == Max({from} \cup R)
           to   == IF f.method \in {"Entry", "ApplySet"} /\ f.at \in (from + 1)..full
                   THEN f.at - 1 ELSE full
           done == [n EXCEPT
                      !.lastApplied = to,
                      !.store       = ApplySets(n.store, from, to),
                      !.applied     = n.applied \cup
                            {[index |-> i, row |-> log[i]] : i \in (from + 1)..to}]
<1>1. from \in Index
  BY DEF IsNode, IsStore
<1>2. IsTable(log, MaxIndex)
  BY DEF IsNode, IsStore
<1>3. full \in {from} \cup R
  <2>1. {from} \cup R \subseteq 0..MaxIndex /\ MaxIndex \in Nat
    BY <1>1, RaftConstants DEF IsNode, Index
  <2> HIDE DEF from, R
  <2> QED
    BY <2>1, MaxExists
<1> HIDE DEF full
<1>4. full \in Index /\ full >= from /\ (from + 1)..full \subseteq DOMAIN log
  <2>1. CASE full = from
    <3>1. (from + 1)..from = {}
      BY <1>1 DEF Index
    <3> HIDE DEF from, log
    <3> QED
      BY <1>1, <2>1, <3>1 DEF Index
  <2>2. CASE full \in R
    <3>1. n.commitIndex \in Index /\ MaxIndex \in Nat
      BY RaftConstants DEF IsNode
    <3> HIDE DEF from, log
    <3> QED
      BY <1>1, <2>2, <3>1 DEF Index
  <2> HIDE DEF from, R
  <2> QED
    BY <1>3, <2>1, <2>2
<1> HIDE DEF from, log
<1>5. to \in Index /\ (from + 1)..to \subseteq DOMAIN log
  <2>1. MaxIndex \in Nat /\ from \in Nat /\ full \in Nat
    BY <1>1, <1>4, RaftConstants DEF Index
  <2>2. to \in from..full
    BY <1>4, <2>1
  <2> HIDE DEF to
  <2> QED
    BY <1>1, <1>4, <2>1, <2>2 DEF Index
<1> HIDE DEF to
<1>6. IsStore(ApplySets(n.store, from, to))
  BY <1>1, <1>5, ApplySetsType DEF IsNode, log
<1>7. {[index |-> i, row |-> log[i]] : i \in (from + 1)..to}
        \subseteq [index : Index, row : Row]
  <2>1. \A i \in (from + 1)..to : i \in Index /\ log[i] \in Row
    BY <1>2, <1>5 DEF IsTable, Index
  <2> QED
    BY <2>1
<1>8. IsNode(done)
  <2> DEFINE A == {[index |-> i, row |-> log[i]] : i \in (from + 1)..to}
             S == ApplySets(n.store, from, to)
  <2>1. A \subseteq [index : Index, row : Row] /\ IsStore(S)
    BY <1>6, <1>7
  <2> HIDE DEF A, S
  <2>2. IsNode([n EXCEPT !.lastApplied = to, !.store = S,
                         !.applied = n.applied \cup A])
    BY <1>5, <2>1 DEF IsNode
  <2> QED
    BY <2>2 DEF A, S
<1>9. applyCommittedLocked(n, s, f) =
        IF to < n.commitIndex THEN done ELSE compactIfNeededLocked(done, s, f)
  BY Zenon DEF applyCommittedLocked, to, full, from, log
<1> HIDE DEF R
<1> WITNESS from, to, {[index |-> i, row |-> log[i]] : i \in (from + 1)..to}
<1> QED
  BY <1>8, <1>9, Zenon

\* applyCommittedLocked keeps a node a node.
LEMMA ApplyCommittedType ==
    ASSUME NEW n, IsNode(n), NEW s \in Server, NEW f
    PROVE  IsNode(applyCommittedLocked(n, s, f))
<1>1. PICK done : /\ IsNode(done)
                  /\ applyCommittedLocked(n, s, f) \in
                        {done, compactIfNeededLocked(done, s, f)}
  BY ApplyCommittedForm, Zenon
<1> QED
  BY <1>1, CompactType

\* advanceCommitLocked may commit a committable index, and then applies what
\* is committed unless the term of a row could not be read.
LEMMA AdvanceCommitForm ==
    ASSUME NEW n, IsNode(n), NEW s \in Server, NEW f
    PROVE  \E c \in Index :
              LET m == [n EXCEPT !.commitIndex = c]
                  r == advanceCommitLocked(n, s, f)
              IN  /\ c = n.commitIndex \/ c \in Committable(n, s)
                  /\ IsNode(m)
                  /\ \/ r = n
                     \/ r = m /\ f.method = "SnapshotIndexTerm"
                     \/ r = applyCommittedLocked(m, s, f)
<1> DEFINE fails == /\ f.method = "SnapshotIndexTerm"
                    /\ f.at \in (n.commitIndex + 1)..LastIndex(n.store)
           seen  == {i \in Committable(n, s) : fails => i < f.at}
           C     == Max({n.commitIndex} \cup seen)
           m     == [n EXCEPT !.commitIndex = C]
           r     == advanceCommitLocked(n, s, f)
<1>1. C \in {n.commitIndex} \cup seen /\ C \in Index
  <2>1. LastIndex(n.store) \in Index /\ n.commitIndex \in Index
    BY LastIndexType DEF IsNode
  <2>2. MaxIndex \in Nat /\ seen \subseteq (n.commitIndex + 1)..LastIndex(n.store)
    BY RaftConstants DEF Committable
  <2> HIDE DEF fails, seen, r
  <2>3. ASSUME NEW i \in seen PROVE i \in 0..MaxIndex
    <3>1. i \in (n.commitIndex + 1)..LastIndex(n.store)
      BY <2>2
    <3> QED
      BY <2>1, <2>2, <3>1 DEF Index
  <2>4. {n.commitIndex} \cup seen \subseteq 0..MaxIndex
    BY <2>1, <2>3 DEF Index
  <2> QED
    BY <2>2, <2>4, MaxExists DEF Index
<1>2. seen \subseteq Committable(n, s)
  OBVIOUS
<1>3. r = CASE f.method = "LastIndexAndTerm" -> n
            [] fails -> m
            [] OTHER -> applyCommittedLocked(m, s, f)
  BY Zenon DEF advanceCommitLocked
<1>4. r \in {n, applyCommittedLocked(m, s, f)} \/ (r = m /\ fails)
  <2> HIDE DEF fails, m, r
  <2> QED
    BY <1>3
<1>5. fails => f.method = "SnapshotIndexTerm"
  OBVIOUS
<1> HIDE DEF fails, seen, C, r
<1>6. IsNode(m)
  BY <1>1 DEF IsNode
<1>7. C = n.commitIndex \/ C \in Committable(n, s)
  BY <1>1, <1>2
<1> QED
  BY <1>1, <1>4, <1>5, <1>6, <1>7, Zenon DEF r

\* advanceCommitLocked keeps a node a node.
LEMMA AdvanceCommitType ==
    ASSUME NEW n, IsNode(n), NEW s \in Server, NEW f
    PROVE  IsNode(advanceCommitLocked(n, s, f))
<1> DEFINE r == advanceCommitLocked(n, s, f)
<1>1. PICK c \in Index :
            LET m == [n EXCEPT !.commitIndex = c]
            IN  IsNode(m) /\ (r = n \/ r = m \/ r = applyCommittedLocked(m, s, f))
  BY AdvanceCommitForm, Zenon
<1> QED
  BY <1>1, ApplyCommittedType

\* A leader's request keeps its receiver a node,
LEMMA SeenByFollowerType ==
    ASSUME NEW n, IsNode(n), NEW q, q.term \in Nat, q.src \in Server, NEW f
    PROVE  IsNode(SeenByFollower(n, q, f))
<1> DEFINE m == IF q.term > n.currentTerm \/ n.role # "follower"
                THEN stepDownLocked(n, q.term, q.src, f) ELSE n
<1>1. IsNode(m)
  BY StepDownType DEF Ids
<1> HIDE DEF m
<1>2. IsNode([m EXCEPT !.leaderID = q.src])
  BY <1>1 DEF IsNode, Ids
<1> QED
  BY <1>2 DEF SeenByFollower, m

\* ... so does a candidate's.
LEMMA SeenByVoterType ==
    ASSUME NEW n, IsNode(n), NEW q, q.term \in Nat, NEW f
    PROVE  IsNode(SeenByVoter(n, q, f))
BY StepDownType DEF SeenByVoter, Ids

\* A conflict leaves a store behind it,
LEMMA TruncatedType ==
    ASSUME NEW st, IsStore(st), NEW q
    PROVE  IsStore(Truncated(st, q))
BY DeleteFromType DEF Truncated

\* ... so does the merge of the rows of a request.
LEMMA MergedType ==
    ASSUME NEW st, IsStore(st), NEW q, IsAppendReq(q)
    PROVE  IsStore(Merged(st, q))
<1> DEFINE new == {i \in Incoming(st, q) : \E j \in Differs(st, q) : j <= i}
<1>1. IsTable(q.entries, MaxIndex) /\ new \subseteq DOMAIN q.entries
  BY DEF IsAppendReq, Incoming
<1> HIDE DEF new
<1>2. IsTable([i \in new |-> q.entries[i]], MaxIndex)
  BY <1>1 DEF IsTable
<1> QED
  BY <1>2, TruncatedType, AppendEntriesType DEF Merged, new

\* The matchIndex that AppendEntries answers, and the last index that the
\* leader remembers it sent, are indexes.
LEMMA MatchedUpToType ==
    ASSUME NEW st, NEW q, IsAppendReq(q)
    PROVE  /\ MatchedUpTo(st, q) \in Index
           /\ Max({q.prevLogIndex} \cup DOMAIN q.entries) \in Index
<1>1. /\ MaxIndex \in Nat
      /\ {q.prevLogIndex} \cup DOMAIN q.entries \subseteq 0..MaxIndex
  BY RaftConstants DEF IsAppendReq, IsTable, Index
<1>2. {q.prevLogIndex} \cup Incoming(st, q) \subseteq 0..MaxIndex
  BY <1>1 DEF Incoming
<1>3. MatchedUpTo(st, q) \in 0..MaxIndex
  BY <1>1, <1>2, MaxExists DEF MatchedUpTo
<1>4. Max({q.prevLogIndex} \cup DOMAIN q.entries) \in 0..MaxIndex
  BY <1>1, MaxExists
<1> QED
  BY <1>3, <1>4 DEF Index

\* The commitIndex that a follower adopts is an index.
LEMMA FollowCommitForm ==
    ASSUME NEW n, IsNode(n), NEW q, IsAppendReq(q)
    PROVE  IsNode([n EXCEPT !.commitIndex =
                        Min({q.leaderCommit, LastIndex(n.store)})])
<1> DEFINE C == Min({q.leaderCommit, LastIndex(n.store)})
           m == [n EXCEPT !.commitIndex = C]
<1>1. C \in Index
  <2>1. q.leaderCommit \in Index /\ LastIndex(n.store) \in Index
    BY LastIndexType DEF IsNode, IsAppendReq
  <2>2. MaxIndex \in Nat /\ {q.leaderCommit, LastIndex(n.store)} \subseteq 0..MaxIndex
    BY <2>1, RaftConstants DEF Index
  <2> QED
    BY <2>1, <2>2, MinExists
<1> HIDE DEF C
<1>2. IsNode(m)
  BY <1>1 DEF IsNode
<1> QED
  BY <1>2 DEF C

\* Adopting it, and applying up to it, keeps a node a node.
LEMMA FollowCommitType ==
    ASSUME NEW n, IsNode(n), NEW s \in Server, NEW q, IsAppendReq(q), NEW f
    PROVE  IsNode(FollowCommit(n, s, q, f))
BY FollowCommitForm, ApplyCommittedType DEF FollowCommit

\* A candidate is a node in the next term that votes for itself.
LEMMA CampaignType ==
    ASSUME NEW n, IsNode(n), NEW s \in Server
    PROVE  LET m == Campaign(n, s)
           IN  /\ IsNode(m)
               /\ m.role = "candidate" /\ m.currentTerm = n.currentTerm + 1
               /\ m.votedFor = s /\ m.leaderID = Nobody /\ m.store = n.store
<1>1. n.currentTerm + 1 \in Nat
  BY DEF IsNode
<1> QED
  BY <1>1 DEF Campaign, IsNode, Roles, Ids

----------------------------------------------------------------------------
(* Steps                                                                   *)

\* The two parts of TypeOK.
NodesOK == /\ node = [s \in Server |-> node[s]]
           /\ \A s \in Server : IsNode(node[s])

\* Replacing one node by a node keeps all of them nodes.
LEMMA SetNodeType ==
    ASSUME NodesOK, NEW s \in Server, NEW n, IsNode(n),
           node' = [node EXCEPT ![s] = n]
    PROVE  NodesOK'
<1>1. \A t \in Server : node'[t] = IF t = s THEN n ELSE node[t]
  BY DEF NodesOK
<1>2. DOMAIN node' = Server /\ node' = [t \in Server |-> node'[t]]
  BY DEF NodesOK
<1>3. ASSUME NEW t \in Server PROVE IsNode(node[t])'
  <2>1. IsNode(node'[t])
    BY <1>1 DEF NodesOK
  <2> QED
    BY <2>1 DEF IsNode, IsStore
<1> QED
  BY <1>2, <1>3 DEF NodesOK

CallsOK == /\ voteReqs \subseteq VoteReqs
           /\ voteReps \subseteq VoteReps
           /\ \A q \in appendReqs : IsAppendReq(q)
           /\ appendReps \subseteq AppendReps
           /\ snapReqs \subseteq SnapReqs
           /\ snapReps \subseteq SnapReps
           /\ elected \subseteq [term : Nat, leader : Server]

\* TypeOK is about the nodes and about the calls in flight.
LEMMA TypeParts == TypeOK <=> NodesOK /\ CallsOK
BY DEF TypeOK, NodesOK, CallsOK

\* The cluster starts well typed.
LEMMA InitType == Init => TypeOK
<1> SUFFICES ASSUME Init PROVE NodesOK /\ CallsOK
  BY TypeParts
<1>1. 0 \in Index /\ 0 \in 0..(MaxIndex + 1) /\ Nobody \in Ids
  BY RaftConstants DEF Index, Ids
<1>2. EmptyKv \in KvTables
  BY DEF EmptyKv, KvTables
<1>3. IsStore(FreshStore)
  BY <1>1, <1>2 DEF FreshStore, IsStore, IsTable
<1>4. \A s \in Server : IsNode(node[s])
  BY <1>1, <1>3 DEF Init, IsNode, Roles
<1>5. node = [s \in Server |-> node[s]]
  BY DEF Init
<1> QED
  BY <1>4, <1>5 DEF Init, NodesOK, CallsOK

\* Answering RequestVote keeps the calls well typed.
LEMMA VoteAnswerType ==
    ASSUME CallsOK, NEW q \in voteReqs, NEW term \in Nat,
           NEW granted \in BOOLEAN, VoteAnswer(q, term, granted)
    PROVE  CallsOK'
<1>1. q \in VoteReqs
  BY DEF CallsOK
<1>2. [src |-> q.src, dst |-> q.dst, term |-> q.term,
       rterm |-> term, granted |-> granted] \in VoteReps
  BY <1>1 DEF VoteReqs, VoteReps
<1> QED
  BY <1>2 DEF CallsOK, VoteAnswer, Answers, appendVars, snapVars

\* Forgetting answers that no longer matter adds none.
LEMMA HeededType ==
    ASSUME NEW S, NEW reps \in SUBSET S, NEW s, NEW n
    PROVE  Heeded(reps, s, n) \subseteq S
BY DEF Heeded

\* Each step of an election keeps the types.
LEMMA ElectionStepType == TypeOK /\ ElectionStep => TypeOK'
<1> SUFFICES ASSUME NodesOK, CallsOK, ElectionStep
             PROVE  NodesOK' /\ CallsOK'
  BY DEF TypeOK, NodesOK, CallsOK
<1>1. ASSUME NEW s \in Server, StartElection(s)
      PROVE  NodesOK' /\ CallsOK'
  <2> DEFINE n == Campaign(node[s], s)
             st == SaveTermVote(n.store, n.currentTerm, s)
             m == [n EXCEPT !.votes = {s}, !.store = st]
  <2>1. IsNode(n)
    BY CampaignType DEF NodesOK
  <2>2. IsStore(st)
    BY <2>1, SaveTermVoteType DEF IsNode, Ids
  <2>3. n.currentTerm \in Nat /\ LastIndex(n.store) \in Index /\ LastTerm(n.store) \in Nat
    BY <2>1, LastIndexType DEF IsNode
  <2>4. node' = [node EXCEPT ![s] = m]
    BY <1>1 DEF StartElection
  <2> HIDE DEF n, st
  <2>5. IsNode(m)
    BY <2>1, <2>2 DEF IsNode
  <2> HIDE DEF m
  <2>6. NodesOK'
    BY <2>4, <2>5, SetNodeType
  <2>7. voteReqs' \subseteq VoteReqs
    <3> DEFINE req(p) == [src |-> s, dst |-> p, term |-> n.currentTerm,
                          lastLogIndex |-> LastIndex(n.store),
                          lastLogTerm  |-> LastTerm(n.store),
                          waiting |-> TRUE]
    <3>1. \A q \in voteReqs' : q \in voteReqs \/ \E p \in Server : q = req(p)
      BY <1>1 DEF StartElection, Peers, n
    <3>2. \A p \in Server : req(p) \in VoteReqs
      BY <2>3 DEF VoteReqs
    <3> HIDE DEF req
    <3> QED
      BY <3>1, <3>2 DEF CallsOK
  <2>8. voteReps' \subseteq VoteReps
    BY <1>1, HeededType DEF StartElection, CallsOK
  <2> QED
    BY <1>1, <2>6, <2>7, <2>8 DEF StartElection, CallsOK, appendVars, snapVars
<1>2. ASSUME NEW s \in Server, NEW f \in Faults, StartElectionError(s, f)
      PROVE  NodesOK' /\ CallsOK'
  <2> DEFINE n == Campaign(node[s], s)
             st == IF f.method = "SaveTermVote" THEN n.store
                   ELSE SaveTermVote(n.store, n.currentTerm, s)
             m == [n EXCEPT !.votes = {}, !.store = st]
  <2>1. IsNode(n)
    BY CampaignType DEF NodesOK
  <2>2. IsStore(st)
    BY <2>1, SaveTermVoteType DEF IsNode, Ids
  <2>3. node' = [node EXCEPT ![s] = m]
    BY <1>2 DEF StartElectionError
  <2> HIDE DEF n, st
  <2>4. IsNode(m)
    BY <2>1, <2>2 DEF IsNode
  <2> QED
    BY <1>2, <2>3, <2>4, SetNodeType
       DEF StartElectionError, CallsOK, voteVars, appendVars, snapVars
<1>3. ASSUME NEW s \in Server, WinAlone(s)
      PROVE  NodesOK' /\ CallsOK'
  <2>1. IsNode(node[s])
    BY DEF NodesOK
  <2>2. NodesOK'
    BY <1>3, <2>1, BecomeLeaderType, SetNodeType DEF WinAlone
  <2> QED
    BY <1>3, <2>1, <2>2 DEF WinAlone, IsNode, CallsOK, voteVars, appendVars, snapVars
<1>4. ASSUME NEW q \in voteReqs
      PROVE  /\ q.src \in Server /\ q.dst \in Server /\ q.term \in Nat
             /\ IsNode(node[q.dst])
             /\ \A f : IsNode(SeenByVoter(node[q.dst], q, f))
  BY SeenByVoterType DEF CallsOK, VoteReqs, NodesOK
<1>5. ASSUME NEW q \in voteReqs, RequestVoteStale(q)
      PROVE  NodesOK' /\ CallsOK'
  <2>1. NodesOK'
    BY <1>5 DEF RequestVoteStale, NodesOK
  <2>2. node[q.dst].currentTerm \in Nat
    BY <1>4 DEF IsNode
  <2> QED
    BY <1>5, <2>1, <2>2, VoteAnswerType DEF RequestVoteStale
<1>6. ASSUME NEW q \in voteReqs, RequestVoteGranted(q)
      PROVE  NodesOK' /\ CallsOK'
  <2> DEFINE n == SeenByVoter(node[q.dst], q, NoFault)
             st == SaveTermVote(n.store, n.currentTerm, q.src)
             m == [n EXCEPT !.votedFor = q.src, !.store = st]
  <2>1. IsNode(n) /\ n.currentTerm \in Nat
    BY <1>4 DEF IsNode
  <2>2. IsStore(st)
    BY <1>4, <2>1, SaveTermVoteType DEF IsNode, Ids
  <2>3. node' = [node EXCEPT ![q.dst] = m] /\ VoteAnswer(q, n.currentTerm, TRUE)
    BY <1>6 DEF RequestVoteGranted
  <2> HIDE DEF n, st
  <2>4. IsNode(m)
    BY <1>4, <2>1, <2>2 DEF IsNode, Ids
  <2> QED
    BY <1>4, <2>1, <2>3, <2>4, SetNodeType, VoteAnswerType
<1>7. ASSUME NEW q \in voteReqs, NEW f \in Faults, RequestVoteRejected(q, f)
      PROVE  NodesOK' /\ CallsOK'
  <2> DEFINE n == SeenByVoter(node[q.dst], q, f)
  <2>1. IsNode(n) /\ n.currentTerm \in Nat
    BY <1>4 DEF IsNode
  <2>2. node' = [node EXCEPT ![q.dst] = n] /\ VoteAnswer(q, n.currentTerm, FALSE)
    BY <1>7 DEF RequestVoteRejected
  <2> HIDE DEF n
  <2> QED
    BY <1>4, <2>1, <2>2, SetNodeType, VoteAnswerType
<1>8. ASSUME NEW q \in voteReqs, NEW f \in Faults, RequestVoteError(q, f)
      PROVE  NodesOK' /\ CallsOK'
  <2>1. PICK n : /\ IsNode(n)
                 /\ \/ node' = [node EXCEPT ![q.dst] = n]
                    \/ node' = [node EXCEPT ![q.dst] =
                                    [n EXCEPT !.votedFor = q.src]]
    BY <1>4, <1>8 DEF RequestVoteError
  <2> DEFINE m == [n EXCEPT !.votedFor = q.src]
  <2>2. IsNode(m)
    BY <1>4, <2>1 DEF IsNode, Ids
  <2>3. NodesOK'
    BY <1>4, <2>1, <2>2, SetNodeType
  <2> QED
    BY <1>8, <2>3 DEF RequestVoteError, CallsOK, appendVars, snapVars
<1>9. ASSUME NEW r \in voteReps
      PROVE  /\ r.src \in Server /\ r.dst \in Server /\ r.rterm \in Nat
             /\ IsNode(node[r.src])
  BY DEF CallsOK, VoteReps, NodesOK
<1>10. ASSUME NEW r \in voteReps, NEW f \in Faults, VoteReplyStepDown(r, f)
       PROVE  NodesOK' /\ CallsOK'
  <2>1. NodesOK'
    BY <1>9, <1>10, StepDownType, SetNodeType DEF VoteReplyStepDown, Ids
  <2>2. voteReps' \subseteq VoteReps
    <3>1. voteReps \ {r} \in SUBSET VoteReps
      BY DEF CallsOK
    <3> QED
      BY <1>10, <3>1, HeededType DEF VoteReplyStepDown
  <2> QED
    BY <1>10, <2>1, <2>2 DEF VoteReplyStepDown, CallsOK, appendVars, snapVars
<1>11. ASSUME NEW r \in voteReps, NEW f \in Faults, VoteReplyCounted(r, f)
       PROVE  NodesOK' /\ CallsOK'
  <2> DEFINE s == r.src
             n == [node[s] EXCEPT !.votes = node[s].votes \cup {r.dst}]
             won == Cardinality(n.votes) >= Majority
             m == IF won THEN becomeLeaderLocked(n, s, f) ELSE n
  <2>1. IsNode(n)
    BY <1>9 DEF IsNode
  <2>2. /\ node' = [node EXCEPT ![s] = m]
        /\ elected' = elected \cup
                {[term |-> t, leader |-> s] :
                    t \in IF won /\ f.method # "LastIndexAndTerm"
                          THEN {n.currentTerm} ELSE {}}
        /\ voteReps' = Heeded(voteReps \ {r}, s, node'[s])
    BY <1>11 DEF VoteReplyCounted
  <2> HIDE DEF n, won
  <2>3. IsNode(m)
    BY <1>9, <2>1, BecomeLeaderType
  <2> HIDE DEF m
  <2>4. NodesOK'
    BY <1>9, <2>2, <2>3, SetNodeType
  <2>5. voteReps' \subseteq VoteReps
    <3>1. voteReps \ {r} \in SUBSET VoteReps
      BY DEF CallsOK
    <3> QED
      BY <2>2, <3>1, HeededType
  <2>6. elected' \subseteq [term : Nat, leader : Server]
    <3>1. elected' \subseteq elected \cup {[term |-> n.currentTerm, leader |-> s]}
      BY <2>2
    <3> QED
      BY <1>9, <2>1, <3>1 DEF IsNode, CallsOK
  <2> QED
    BY <1>11, <2>4, <2>5, <2>6 DEF VoteReplyCounted, CallsOK, appendVars, snapVars
<1> QED
  BY <1>1, <1>2, <1>3, <1>5, <1>6, <1>7, <1>8, <1>10, <1>11 DEF ElectionStep

\* What the answer of AppendEntries makes of matchIndex and nextIndex.
LEMMA MatchedNodeType ==
    ASSUME NEW n, IsNode(n), NEW r \in AppendReps
    PROVE  LET match == Max({r.matchIndex, r.lastSent, n.matchIndex[r.dst]})
           IN  IsNode([n EXCEPT !.matchIndex[r.dst] = match,
                                !.nextIndex[r.dst]  = match + 1])
<1> DEFINE match == Max({r.matchIndex, r.lastSent, n.matchIndex[r.dst]})
<1>1. /\ {r.matchIndex, r.lastSent, n.matchIndex[r.dst]} \subseteq 0..MaxIndex
      /\ MaxIndex \in Nat /\ r.dst \in Server
  BY RaftConstants DEF AppendReps, IsNode, Index
<1>2. match \in Index
  BY <1>1, MaxExists DEF Index
<1>3. match + 1 \in 0..(MaxIndex + 1)
  BY <1>1, <1>2 DEF Index
<1> HIDE DEF match
<1>4. IsNode([n EXCEPT !.matchIndex[r.dst] = match,
                       !.nextIndex[r.dst]  = match + 1])
  BY <1>1, <1>2, <1>3 DEF IsNode
<1> QED
  BY <1>4 DEF match

\* A leader that has appended the row of a write is a node.
LEMMA WrittenNodeType ==
    ASSUME NEW n, IsNode(n), NEW s \in Server, NEW cmd \in Command,
           LastIndex(n.store) + 1 <= MaxIndex
    PROVE  LET index == LastIndex(n.store) + 1
               rows == [i \in {index} |-> [term |-> n.currentTerm, cmd |-> cmd]]
           IN  IsNode([n EXCEPT !.store = AppendEntries(n.store, rows),
                                !.matchIndex[s] = index])
<1> DEFINE index == LastIndex(n.store) + 1
           rows == [i \in {index} |-> [term |-> n.currentTerm, cmd |-> cmd]]
           st == AppendEntries(n.store, rows)
<1>1. IsStore(n.store) /\ n.currentTerm \in Nat
  BY DEF IsNode
<1>2. index \in 1..MaxIndex /\ index \in Index
  BY <1>1, LastIndexType, RaftConstants DEF Index
<1> HIDE DEF index
<1>3. IsTable(rows, MaxIndex)
  BY <1>1, <1>2 DEF IsTable, Row
<1> HIDE DEF rows
<1>4. IsStore(st)
  BY <1>1, <1>3, AppendEntriesType
<1> HIDE DEF st
<1>5. IsNode([n EXCEPT !.store = st, !.matchIndex[s] = index])
  BY <1>2, <1>4 DEF IsNode
<1> QED
  BY <1>5, Zenon DEF st, rows, index

\* Each step of a leader keeps the types.
LEMMA LeaderStepType == TypeOK /\ LeaderStep => TypeOK'
<1> SUFFICES ASSUME NodesOK, CallsOK, LeaderStep
             PROVE  NodesOK' /\ CallsOK'
  BY DEF TypeOK, NodesOK, CallsOK
<1>1. ASSUME NEW s \in Server, NEW p \in Peers(s), NEW w \in Worker,
             SendAppend(s, p, w)
      PROVE  NodesOK' /\ CallsOK'
  <2> DEFINE n == node[s]
             next == n.nextIndex[p]
             E == EntriesFrom(n.store, next, AppendBatchSize)
             T == TermAt(n.store, next - 1)
             q == [src |-> s, dst |-> p, worker |-> w, term |-> n.currentTerm,
                   prevLogIndex |-> next - 1, prevLogTerm |-> T, entries |-> E,
                   leaderCommit |-> n.commitIndex, waiting |-> TRUE]
  <2>1. p \in Server /\ IsNode(n) /\ IsStore(n.store) /\ n.store.snapshot_index \in Index
    BY DEF Peers, NodesOK, IsNode, IsStore
  <2>2. appendReqs' = appendReqs \cup {q} /\ next > n.store.snapshot_index
        /\ HasTerm(n.store, next - 1)
    BY <1>1 DEF SendAppend
  <2> HIDE DEF n
  <2>3. next - 1 \in Index
    <3>1. next \in 0..(MaxIndex + 1) /\ MaxIndex \in Nat
      BY <2>1, RaftConstants DEF IsNode
    <3> QED
      BY <2>1, <2>2, <3>1 DEF Index
  <2>4. T \in Nat
    BY <2>1, <2>2, <2>3, TermAtType
  <2>5. IsTable(E, MaxIndex)
    BY <2>1, EntriesFromType
  <2> HIDE DEF next, T, E
  <2>6. IsAppendReq(q)
    BY <2>1, <2>3, <2>4, <2>5 DEF IsAppendReq, IsNode
  <2> HIDE DEF q
  <2>7. \A x \in appendReqs' : IsAppendReq(x)
    BY <2>2, <2>6 DEF CallsOK
  <2> QED
    BY <1>1, <2>7 DEF SendAppend, NodesOK, CallsOK, voteVars, snapVars
<1>2. ASSUME NEW s \in Server, NEW p \in Peers(s), NEW w \in Worker,
             SendSnapshot(s, p, w)
      PROVE  NodesOK' /\ CallsOK'
  <2> DEFINE n == node[s]
             q == [src |-> s, dst |-> p, worker |-> w, term |-> n.currentTerm,
                   lastIncludedIndex |-> n.store.snapshot_index,
                   lastIncludedTerm  |-> n.store.snapshot_term,
                   data              |-> n.store.snapshot_data,
                   waiting           |-> TRUE]
  <2>1. p \in Server /\ IsNode(n) /\ IsStore(n.store)
    BY DEF Peers, NodesOK, IsNode
  <2>2. snapReqs' = snapReqs \cup {q}
    BY <1>2 DEF SendSnapshot
  <2> HIDE DEF n
  <2>3. q \in SnapReqs
    BY <2>1 DEF SnapReqs, IsNode, IsStore
  <2> QED
    BY <1>2, <2>2, <2>3 DEF SendSnapshot, NodesOK, CallsOK, voteVars, appendVars
<1>3. ASSUME NEW r \in appendReps
      PROVE  /\ r \in AppendReps
             /\ r.src \in Server /\ r.dst \in Server /\ r.rterm \in Nat
             /\ IsNode(node[r.src])
  BY DEF CallsOK, AppendReps, NodesOK
<1>4. ASSUME NEW r \in appendReps, NEW f \in Faults, AppendReplyStepDown(r, f)
      PROVE  NodesOK' /\ CallsOK'
  <2>1. NodesOK'
    BY <1>3, <1>4, StepDownType, SetNodeType DEF AppendReplyStepDown, Ids
  <2> QED
    BY <1>4, <2>1 DEF AppendReplyStepDown, CallsOK, voteVars, snapVars
<1>5. ASSUME NEW r \in appendReps, NEW f \in Faults, AppendReplySuccess(r, f)
      PROVE  NodesOK' /\ CallsOK'
  <2> DEFINE n == node[r.src]
             match == Max({r.matchIndex, r.lastSent, n.matchIndex[r.dst]})
             m == [n EXCEPT !.matchIndex[r.dst] = match,
                            !.nextIndex[r.dst]  = match + 1]
  <2>1. node' = [node EXCEPT ![r.src] = advanceCommitLocked(m, r.src, f)]
    BY <1>5 DEF AppendReplySuccess
  <2>2. IsNode(m)
    BY <1>3, MatchedNodeType
  <2> HIDE DEF m
  <2>3. NodesOK'
    BY <1>3, <2>1, <2>2, AdvanceCommitType, SetNodeType
  <2> QED
    BY <1>5, <2>3 DEF AppendReplySuccess, CallsOK, voteVars, snapVars
<1>6. ASSUME NEW r \in appendReps, AppendReplyFailure(r)
      PROVE  NodesOK' /\ CallsOK'
  <2> DEFINE n == node[r.src]
             next == IF n.nextIndex[r.dst] > 1 THEN n.nextIndex[r.dst] - 1
                     ELSE n.nextIndex[r.dst]
             m == [n EXCEPT !.nextIndex[r.dst] = next]
  <2>1. IsNode(n)
    BY <1>3
  <2>2. node' = [node EXCEPT ![r.src] = m]
    BY <1>6 DEF AppendReplyFailure
  <2> HIDE DEF n
  <2>3. next \in 0..(MaxIndex + 1)
    BY <1>3, <2>1, RaftConstants DEF IsNode
  <2> HIDE DEF next
  <2>4. IsNode(m)
    BY <1>3, <2>1, <2>3 DEF IsNode
  <2> HIDE DEF m
  <2>5. NodesOK'
    BY <1>3, <2>2, <2>4, SetNodeType
  <2> QED
    BY <1>6, <2>5 DEF AppendReplyFailure, CallsOK, voteVars, snapVars
<1>7. ASSUME NEW r \in snapReps
      PROVE  /\ r \in SnapReps
             /\ r.src \in Server /\ r.dst \in Server /\ r.rterm \in Nat
             /\ IsNode(node[r.src])
  BY DEF CallsOK, SnapReps, NodesOK
<1>8. ASSUME NEW r \in snapReps, NEW f \in Faults, SnapReplyStepDown(r, f)
      PROVE  NodesOK' /\ CallsOK'
  <2>1. NodesOK'
    BY <1>7, <1>8, StepDownType, SetNodeType DEF SnapReplyStepDown, Ids
  <2> QED
    BY <1>8, <2>1 DEF SnapReplyStepDown, CallsOK, voteVars, appendVars
<1>9. ASSUME NEW r \in snapReps, NEW f \in Faults, SnapReplySuccess(r, f)
      PROVE  NodesOK' /\ CallsOK'
  <2> DEFINE n == node[r.src]
             i == r.lastIncludedIndex
             m == [n EXCEPT !.matchIndex[r.dst] = i,
                            !.nextIndex[r.dst]  = i + 1]
  <2>1. IsNode(n) /\ i \in Index
    BY <1>7 DEF SnapReps
  <2>2. node' = [node EXCEPT ![r.src] = advanceCommitLocked(m, r.src, f)]
    BY <1>9 DEF SnapReplySuccess
  <2>3. i + 1 \in 0..(MaxIndex + 1)
    BY <2>1, RaftConstants DEF Index
  <2> HIDE DEF i, n
  <2>4. IsNode(m)
    BY <1>7, <2>1, <2>3 DEF IsNode
  <2> HIDE DEF m
  <2>5. NodesOK'
    BY <1>7, <2>2, <2>4, AdvanceCommitType, SetNodeType
  <2> QED
    BY <1>9, <2>5 DEF SnapReplySuccess, CallsOK, voteVars, appendVars
<1>10. ASSUME NEW s \in Server, NEW cmd \in Command, NEW f \in Faults,
              Write(s, cmd, f)
       PROVE  NodesOK' /\ CallsOK'
  <2> DEFINE n == node[s]
             index == LastIndex(n.store) + 1
             m == [n EXCEPT !.store = AppendEntries(n.store, [i \in {index} |->
                                [term |-> n.currentTerm, cmd |-> cmd]]),
                            !.matchIndex[s] = index]
             k == IF Majority = 1 THEN advanceCommitLocked(m, s, f) ELSE m
  <2>1. IsNode(m)
    BY <1>10, WrittenNodeType DEF NodesOK, Write
  <2>2. node' = [node EXCEPT ![s] = k]
    BY <1>10 DEF Write
  <2> HIDE DEF m
  <2>3. IsNode(k)
    BY <2>1, AdvanceCommitType
  <2> HIDE DEF k
  <2>4. NodesOK'
    BY <2>2, <2>3, SetNodeType
  <2> QED
    BY <1>10, <2>4 DEF Write, CallsOK, voteVars, appendVars, snapVars
<1> QED
  BY <1>1, <1>2, <1>4, <1>5, <1>6, <1>8, <1>9, <1>10 DEF LeaderStep

\* Answering AppendEntries keeps the calls well typed,
LEMMA AppendAnswerType ==
    ASSUME CallsOK, NEW q \in appendReqs, NEW term \in Nat,
           NEW success \in BOOLEAN, NEW match \in Index,
           AppendAnswer(q, term, success, match)
    PROVE  CallsOK'
<1> DEFINE last == Max({q.prevLogIndex} \cup DOMAIN q.entries)
           r == [src |-> q.src, dst |-> q.dst, worker |-> q.worker,
                 term |-> q.term, lastSent |-> last, rterm |-> term,
                 success |-> success, matchIndex |-> match]
<1>1. IsAppendReq(q)
  BY DEF CallsOK
<1>2. last \in Index
  BY <1>1, MatchedUpToType
<1>3. /\ appendReqs' = appendReqs \ {q}
      /\ appendReps' \subseteq appendReps \cup {r}
  BY DEF AppendAnswer, Answers
<1> HIDE DEF last
<1>4. r \in AppendReps
  BY <1>1, <1>2 DEF AppendReps, IsAppendReq
<1> HIDE DEF r
<1> QED
  BY <1>3, <1>4 DEF CallsOK, AppendAnswer, voteVars, snapVars

\* ... so does answering InstallSnapshot.
LEMMA SnapAnswerType ==
    ASSUME CallsOK, NEW q \in snapReqs, NEW term \in Nat, SnapAnswer(q, term)
    PROVE  CallsOK'
<1>1. q \in SnapReqs
  BY DEF CallsOK
<1>2. [src |-> q.src, dst |-> q.dst, worker |-> q.worker,
       lastIncludedIndex |-> q.lastIncludedIndex, rterm |-> term] \in SnapReps
  BY <1>1 DEF SnapReqs, SnapReps
<1> QED
  BY <1>2 DEF CallsOK, SnapAnswer, Answers, voteVars, appendVars

\* Each step of a follower keeps the types.
LEMMA FollowerStepType == TypeOK /\ FollowerStep => TypeOK'
<1> SUFFICES ASSUME NodesOK, CallsOK, FollowerStep
             PROVE  NodesOK' /\ CallsOK'
  BY DEF TypeOK, NodesOK, CallsOK
<1>1. ASSUME NEW q \in appendReqs
      PROVE  /\ IsAppendReq(q)
             /\ q.src \in Server /\ q.dst \in Server /\ q.term \in Nat
             /\ IsNode(node[q.dst]) /\ node[q.dst].currentTerm \in Nat
             /\ 0 \in Index
  BY RaftConstants DEF CallsOK, IsAppendReq, NodesOK, IsNode, Index
<1>2. ASSUME NEW q \in appendReqs, NEW f
      PROVE  /\ IsNode(SeenByFollower(node[q.dst], q, f))
             /\ SeenByFollower(node[q.dst], q, f).currentTerm \in Nat
  BY <1>1, SeenByFollowerType DEF IsNode
<1>3. ASSUME NEW q \in appendReqs, AppendStale(q)
      PROVE  NodesOK' /\ CallsOK'
  <2>1. NodesOK'
    BY <1>3 DEF AppendStale, NodesOK
  <2> QED
    BY <1>1, <1>3, <2>1, AppendAnswerType DEF AppendStale
<1>4. ASSUME NEW q \in appendReqs, NEW f \in Faults, AppendRefused(q, f)
      PROVE  NodesOK' /\ CallsOK'
  <2> DEFINE n == SeenByFollower(node[q.dst], q, f)
  <2>1. node' = [node EXCEPT ![q.dst] = n] /\ AppendAnswer(q, n.currentTerm, FALSE, 0)
    BY <1>4 DEF AppendRefused
  <2>2. IsNode(n) /\ n.currentTerm \in Nat
    BY <1>2
  <2> HIDE DEF n
  <2> QED
    BY <1>1, <2>1, <2>2, SetNodeType, AppendAnswerType
<1>5. ASSUME NEW q \in appendReqs, NEW f \in Faults, AppendAccepted(q, f)
      PROVE  NodesOK' /\ CallsOK'
  <2> DEFINE n == SeenByFollower(node[q.dst], q, f)
             st == Merged(n.store, q)
             m == [n EXCEPT !.store = st]
             k == FollowCommit(m, q.dst, q, f)
  <2>1. /\ node' = [node EXCEPT ![q.dst] = k]
        /\ AppendAnswer(q, n.currentTerm, TRUE, MatchedUpTo(m.store, q))
    BY <1>5 DEF AppendAccepted
  <2>2. IsNode(n) /\ n.currentTerm \in Nat
    BY <1>2
  <2> HIDE DEF n
  <2>3. IsStore(st)
    BY <1>1, <2>2, MergedType DEF IsNode
  <2> HIDE DEF st
  <2>4. IsNode(m)
    BY <2>2, <2>3 DEF IsNode
  <2> HIDE DEF m
  <2>5. IsNode(k)
    BY <1>1, <2>4, FollowCommitType
  <2> HIDE DEF k
  <2>6. MatchedUpTo(m.store, q) \in Index
    BY <1>1, MatchedUpToType
  <2> QED
    BY <1>1, <2>1, <2>2, <2>5, <2>6, SetNodeType, AppendAnswerType
<1>6. ASSUME NEW q \in appendReqs, NEW f \in Faults, AppendError(q, f)
      PROVE  NodesOK' /\ CallsOK'
  <2> DEFINE n == SeenByFollower(node[q.dst], q, f)
             t == Truncated(n.store, q)
             g == Merged(n.store, q)
  <2>1. PICK m \in {n, [n EXCEPT !.store = t], [n EXCEPT !.store = g]} :
            node' = [node EXCEPT ![q.dst] = m]
    BY <1>6 DEF AppendError
  <2>2. IsNode(n)
    BY <1>2
  <2> HIDE DEF n
  <2>3. IsStore(t) /\ IsStore(g)
    BY <1>1, <2>2, TruncatedType, MergedType DEF IsNode
  <2> HIDE DEF t, g
  <2>4. IsNode([n EXCEPT !.store = t]) /\ IsNode([n EXCEPT !.store = g])
    BY <2>2, <2>3 DEF IsNode
  <2>5. IsNode(m)
    BY <2>1, <2>2, <2>4
  <2>6. NodesOK'
    BY <1>1, <2>1, <2>5, SetNodeType
  <2> QED
    BY <1>6, <2>6 DEF AppendError, CallsOK, voteVars, snapVars
<1>7. ASSUME NEW q \in snapReqs
      PROVE  /\ q \in SnapReqs
             /\ q.src \in Server /\ q.dst \in Server /\ q.term \in Nat
             /\ IsNode(node[q.dst]) /\ node[q.dst].currentTerm \in Nat
  BY DEF CallsOK, SnapReqs, NodesOK, IsNode
<1>8. ASSUME NEW q \in snapReqs, NEW f
      PROVE  /\ IsNode(SeenByFollower(node[q.dst], q, f))
             /\ SeenByFollower(node[q.dst], q, f).currentTerm \in Nat
  BY <1>7, SeenByFollowerType DEF IsNode
<1>9. ASSUME NEW q \in snapReqs, SnapshotStale(q)
      PROVE  NodesOK' /\ CallsOK'
  <2>1. NodesOK'
    BY <1>9 DEF SnapshotStale, NodesOK
  <2> QED
    BY <1>7, <1>9, <2>1, SnapAnswerType DEF SnapshotStale
<1>10. ASSUME NEW q \in snapReqs, NEW f \in Faults, SnapshotIgnored(q, f)
       PROVE  NodesOK' /\ CallsOK'
  <2> DEFINE n == SeenByFollower(node[q.dst], q, f)
  <2>1. node' = [node EXCEPT ![q.dst] = n] /\ SnapAnswer(q, n.currentTerm)
    BY <1>10 DEF SnapshotIgnored
  <2>2. IsNode(n) /\ n.currentTerm \in Nat
    BY <1>8
  <2> HIDE DEF n
  <2> QED
    BY <1>7, <2>1, <2>2, SetNodeType, SnapAnswerType
<1>11. ASSUME NEW q \in snapReqs, NEW f \in Faults, SnapshotInstalled(q, f)
       PROVE  NodesOK' /\ CallsOK'
  <2> DEFINE n == SeenByFollower(node[q.dst], q, f)
             i == q.lastIncludedIndex
             st == InstallSnapshot(n.store, i, q.lastIncludedTerm, q.data)
             c == Max({n.commitIndex, i})
             l == Max({n.lastApplied, i})
             m == [n EXCEPT !.store = st, !.commitIndex = c, !.lastApplied = l]
  <2>1. node' = [node EXCEPT ![q.dst] = m] /\ SnapAnswer(q, n.currentTerm)
    BY <1>11 DEF SnapshotInstalled
  <2>2. /\ IsNode(n) /\ n.currentTerm \in Nat
        /\ n.commitIndex \in Index /\ n.lastApplied \in Index
    BY <1>8 DEF IsNode
  <2> HIDE DEF n
  <2>3. IsStore(st)
    BY <1>7, <2>2, InstallSnapshotType DEF IsNode, SnapReqs
  <2>4. c \in Index /\ l \in Index
    <3>1. /\ MaxIndex \in Nat
          /\ {n.commitIndex, i} \subseteq 0..MaxIndex
          /\ {n.lastApplied, i} \subseteq 0..MaxIndex
      BY <1>7, <2>2, RaftConstants DEF SnapReqs, Index
    <3>2. c \in {n.commitIndex, i} /\ l \in {n.lastApplied, i}
      BY <3>1, MaxExists
    <3> QED
      BY <3>1, <3>2 DEF Index
  <2> HIDE DEF st, c, l
  <2>5. IsNode(m)
    BY <2>2, <2>3, <2>4 DEF IsNode
  <2> HIDE DEF m
  <2> QED
    BY <1>7, <2>1, <2>2, <2>5, SetNodeType, SnapAnswerType
<1>12. ASSUME NEW q \in snapReqs, NEW f \in Faults, SnapshotError(q, f)
       PROVE  NodesOK' /\ CallsOK'
  <2> DEFINE n == SeenByFollower(node[q.dst], q, f)
  <2>1. node' = [node EXCEPT ![q.dst] = n]
    BY <1>12 DEF SnapshotError
  <2>2. IsNode(n)
    BY <1>8
  <2> HIDE DEF n
  <2>3. NodesOK'
    BY <1>7, <2>1, <2>2, SetNodeType
  <2> QED
    BY <1>12, <2>3 DEF SnapshotError, CallsOK, voteVars, appendVars
<1> QED
  BY <1>3, <1>4, <1>5, <1>6, <1>9, <1>10, <1>11, <1>12 DEF FollowerStep

\* Timeouts, lost calls and restarts keep the types.
LEMMA MisfortuneType == TypeOK /\ Misfortune => TypeOK'
<1> SUFFICES ASSUME NodesOK, CallsOK, Misfortune
             PROVE  NodesOK' /\ CallsOK'
  BY DEF TypeOK, NodesOK, CallsOK
<1>1. ASSUME NEW q, IsAppendReq(q), NEW b \in BOOLEAN
      PROVE  IsAppendReq([q EXCEPT !.waiting = b])
  BY <1>1 DEF IsAppendReq
<1>2. ASSUME NEW q \in SnapReqs, NEW b \in BOOLEAN
      PROVE  [q EXCEPT !.waiting = b] \in SnapReqs
  BY DEF SnapReqs
<1>3. ASSUME NEW q \in VoteReqs, NEW b \in BOOLEAN
      PROVE  [q EXCEPT !.waiting = b] \in VoteReqs
  BY DEF VoteReqs
<1>4. ASSUME NEW q \in appendReqs, AppendTimeout(q)
      PROVE  NodesOK' /\ CallsOK'
  <2>1. IsAppendReq(q)
    BY DEF CallsOK
  <2>2. \A x \in appendReqs' : IsAppendReq(x)
    BY <1>1, <1>4, <2>1 DEF AppendTimeout, CallsOK
  <2> QED
    BY <1>4, <2>2 DEF AppendTimeout, NodesOK, CallsOK, voteVars, snapVars
<1>5. ASSUME NEW r \in appendReps, AppendReplyLost(r)
      PROVE  NodesOK' /\ CallsOK'
  BY <1>5 DEF AppendReplyLost, NodesOK, CallsOK, voteVars, snapVars
<1>6. ASSUME NEW q \in snapReqs, SnapTimeout(q)
      PROVE  NodesOK' /\ CallsOK'
  <2>1. q \in SnapReqs
    BY DEF CallsOK
  <2>2. snapReqs' \subseteq SnapReqs
    BY <1>2, <1>6, <2>1 DEF SnapTimeout, CallsOK
  <2> QED
    BY <1>6, <2>2 DEF SnapTimeout, NodesOK, CallsOK, voteVars, appendVars
<1>7. ASSUME NEW r \in snapReps, SnapReplyLost(r)
      PROVE  NodesOK' /\ CallsOK'
  BY <1>7 DEF SnapReplyLost, NodesOK, CallsOK, voteVars, appendVars
<1>8. ASSUME NEW s \in Unstable, Restart(s)
      PROVE  NodesOK' /\ CallsOK'
  <2> DEFINE st == node[s].store
             A == node[s].applied
             m == [role        |-> "follower",
                   currentTerm |-> st.current_term,
                   votedFor    |-> st.voted_for,
                   leaderID    |-> Nobody,
                   commitIndex |-> st.last_applied,
                   lastApplied |-> st.last_applied,
                   nextIndex   |-> [p \in Server |-> 0],
                   matchIndex  |-> [p \in Server |-> 0],
                   votes       |-> {},
                   store       |-> st,
                   applied     |-> A]
  <2>1. /\ s \in Server /\ IsStore(st) /\ A \subseteq [index : Index, row : Row]
        /\ 0 \in Index /\ 0 \in 0..(MaxIndex + 1) /\ Nobody \in Ids
    BY RaftConstants DEF NodesOK, IsNode, Index, Ids
  <2>2. node' = [node EXCEPT ![s] = m]
    BY <1>8 DEF Restart
  <2> HIDE DEF st, A
  <2>3. IsNode(m)
    BY <2>1 DEF IsNode, IsStore, Roles
  <2> HIDE DEF m
  <2>4. NodesOK'
    BY <2>1, <2>2, <2>3, SetNodeType
  <2>5. \A q \in appendReqs' : IsAppendReq(q)
    <3> SUFFICES ASSUME NEW x \in appendReqs' PROVE IsAppendReq(x)
      OBVIOUS
    <3>1. PICK q \in appendReqs : x = [q EXCEPT !.waiting = q.waiting /\ q.src # s]
      BY <1>8, Zenon DEF Restart, Abandon
    <3>2. IsAppendReq(q) /\ (q.waiting /\ q.src # s) \in BOOLEAN
      BY DEF CallsOK
    <3> QED
      BY <1>1, <3>1, <3>2
  <2>6. snapReqs' \subseteq SnapReqs
    <3> SUFFICES ASSUME NEW x \in snapReqs' PROVE x \in SnapReqs
      OBVIOUS
    <3>1. PICK q \in snapReqs : x = [q EXCEPT !.waiting = q.waiting /\ q.src # s]
      BY <1>8, Zenon DEF Restart, Abandon
    <3>2. q \in SnapReqs /\ (q.waiting /\ q.src # s) \in BOOLEAN
      BY DEF CallsOK
    <3> QED
      BY <1>2, <3>1, <3>2
  <2>7. voteReqs' \subseteq VoteReqs
    <3> SUFFICES ASSUME NEW x \in voteReqs' PROVE x \in VoteReqs
      OBVIOUS
    <3>1. PICK q \in voteReqs : x = [q EXCEPT !.waiting = q.waiting /\ q.src # s]
      BY <1>8, Zenon DEF Restart, Abandon
    <3>2. q \in VoteReqs /\ (q.waiting /\ q.src # s) \in BOOLEAN
      BY DEF CallsOK
    <3> QED
      BY <1>3, <3>1, <3>2
  <2> QED
    BY <1>8, <2>4, <2>5, <2>6, <2>7 DEF Restart, CallsOK
<1> QED
  BY <1>4, <1>5, <1>6, <1>7, <1>8 DEF Misfortune

\* Every step keeps the types.
LEMMA StepType == TypeOK /\ [Next]_vars => TypeOK'
<1>1. TypeOK /\ UNCHANGED vars => TypeOK'
  BY DEF TypeOK, vars, voteVars, appendVars, snapVars
<1> QED
  BY <1>1, ElectionStepType, LeaderStepType, FollowerStepType, MisfortuneType
     DEF Next

\* Every reachable state of a cluster of any size, with any thresholds,
\* faults and restarts, is well typed: no handler of node.go or rpc.go leaves
\* a field, a row or a call outside its domain, or an index past MaxIndex.
THEOREM TypeCorrect == Spec => []TypeOK
<1>1. TypeOK /\ [Next]_vars => TypeOK'
  BY StepType
<1> QED
  BY <1>1, InitType, PTL DEF Spec
=============================================================================
