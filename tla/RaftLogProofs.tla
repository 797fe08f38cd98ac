--------------------------- MODULE RaftLogProofs ---------------------------
(***************************************************************************)
(* Logs have no holes (NoLogGap), for every cluster and every choice of    *)
(* the constants: compaction, snapshots, truncations, batches, failed      *)
(* transactions and late answers included.                                 *)
(*                                                                         *)
(* The inductive invariant LogInv follows indexes through messages: a      *)
(* request carries the rows that follow its previous index without a hole, *)
(* and while its sender leads the term of the request, neither the request *)
(* nor its answer names an index that the sender's log does not have.      *)
(***************************************************************************)
EXTENDS RaftElectionProofs

----------------------------------------------------------------------------
(* The inductive invariant                                                 *)

\* The rows of a store follow its snapshot and each other.
GapFree(st) == DOMAIN st.log_entries = (st.snapshot_index + 1)..LastIndex(st)

\* The last index that request q covers.
LastSent(q) == Max({q.prevLogIndex} \cup DOMAIN q.entries)

Leads(s, term) == node[s].role = "leader" /\ node[s].currentTerm = term

\* A leader's view of its peers stays within its own log.
PeersInv(n, s) ==
    n.role = "leader" =>
        \A p \in Peers(s) : /\ n.nextIndex[p] \in 1..(LastIndex(n.store) + 1)
                            /\ n.matchIndex[p] <= LastIndex(n.store)

\* A candidate has not won its term before: a leadership is never resumed.
FreshInv(n, s, won) ==
    n.role = "candidate" => [term |-> n.currentTerm, leader |-> s] \notin won

AppendReqInv(q) ==
    /\ DOMAIN q.entries = (q.prevLogIndex + 1)..LastSent(q)
    /\ Leads(q.src, q.term) => LastSent(q) <= LastIndex(node[q.src].store)

AppendRepInv(r) ==
    /\ [term |-> r.term, leader |-> r.src] \in elected
    /\ r.matchIndex <= r.lastSent
    /\ Leads(r.src, r.term) => r.lastSent <= LastIndex(node[r.src].store)

\* A snapshot is never ahead of what its sender has compacted.
SnapInv(c) == c.lastIncludedIndex <= node[c.src].store.snapshot_index

LogInv ==
    /\ \A s \in Server : /\ GapFree(node[s].store)
                         /\ PeersInv(node[s], s)
                         /\ FreshInv(node[s], s, elected)
    /\ \A q \in appendReqs : AppendReqInv(q)
    /\ \A r \in appendReps : AppendRepInv(r)
    /\ \A c \in snapReqs \cup snapReps : SnapInv(c)

----------------------------------------------------------------------------
(* Stores                                                                  *)

\* A log that is an interval after the snapshot ends where LastIndexAndTerm
\* says.
LEMMA GapFreeForm ==
    ASSUME NEW st, IsStore(st), NEW l \in Nat, l >= st.snapshot_index,
           DOMAIN st.log_entries = (st.snapshot_index + 1)..l
    PROVE  GapFree(st) /\ LastIndex(st) = l
<1>1. st.snapshot_index \in Nat /\ MaxIndex \in Nat
  BY RaftConstants DEF IsStore, Index
<1>2. CASE l = st.snapshot_index
  <2>1. DOMAIN st.log_entries = {}
    BY <1>1, <1>2
  <2> QED
    BY <1>2, <2>1 DEF GapFree, LastIndex
<1>3. CASE l # st.snapshot_index
  <2> DEFINE D == DOMAIN st.log_entries
  <2>1. D \subseteq 0..l /\ l \in D
    BY <1>1, <1>3
  <2> HIDE DEF D
  <2>2. Max(D) \in D /\ \A y \in D : Max(D) >= y
    BY <2>1, MaxExists
  <2>3. Max(D) = l
    BY <2>1, <2>2
  <2>4. LastIndex(st) = l
    BY <2>1, <2>3 DEF LastIndex, D
  <2> QED
    BY <2>4 DEF GapFree
<1> QED
  BY <1>2, <1>3

\* It does not end before the snapshot.
LEMMA GapFreeFacts ==
    ASSUME NEW st, IsStore(st), GapFree(st)
    PROVE  /\ st.snapshot_index \in Nat /\ LastIndex(st) \in Nat
           /\ LastIndex(st) >= st.snapshot_index
           /\ DOMAIN st.log_entries = (st.snapshot_index + 1)..LastIndex(st)
<1>1. st.snapshot_index \in Nat /\ LastIndex(st) \in Nat
  BY LastIndexType DEF IsStore, Index
<1>2. CASE DOMAIN st.log_entries = {}
  BY <1>1, <1>2 DEF GapFree, LastIndex
<1>3. CASE DOMAIN st.log_entries # {}
  BY <1>1, <1>3 DEF GapFree
<1> QED
  BY <1>1, <1>2, <1>3 DEF GapFree

\* The term of an index is known exactly from the snapshot to the last row.
LEMMA HasTermRange ==
    ASSUME NEW st, IsStore(st), GapFree(st), NEW i \in Nat
    PROVE  i >= st.snapshot_index =>
              (HasTerm(st, i) <=> i <= LastIndex(st))
BY GapFreeFacts DEF HasTerm

SameLog(a, b) == /\ b.log_entries = a.log_entries
                 /\ b.snapshot_index = a.snapshot_index
                 /\ b.snapshot_term = a.snapshot_term

\* b is a, or a after node s compacted its log up to some row.
Compacted(a, b, s) ==
    \/ SameLog(a, b)
    \/ /\ SnapshotThreshold[s] # 0
       /\ \E i \in DOMAIN a.log_entries :
            /\ i > a.snapshot_index
            /\ b.snapshot_index = i
            /\ b.snapshot_term = a.log_entries[i].term
            /\ b.log_entries = RowsAfter(a, i)

\* Compacting leaves no hole and does not move the end of the log.
LEMMA CompactedGapFree ==
    ASSUME NEW a, IsStore(a), NEW b, IsStore(b), NEW s, Compacted(a, b, s),
           GapFree(a)
    PROVE  /\ GapFree(b) /\ LastIndex(b) = LastIndex(a)
           /\ b.snapshot_index >= a.snapshot_index
<1>1. /\ a.snapshot_index \in Nat /\ LastIndex(a) \in Nat
      /\ LastIndex(a) >= a.snapshot_index
      /\ DOMAIN a.log_entries = (a.snapshot_index + 1)..LastIndex(a)
  BY GapFreeFacts
<1>2. CASE SameLog(a, b)
  BY <1>1, <1>2 DEF SameLog, GapFree, LastIndex
<1>3. ASSUME NEW i \in DOMAIN a.log_entries, b.snapshot_index = i,
             b.log_entries = RowsAfter(a, i)
      PROVE  /\ GapFree(b) /\ LastIndex(b) = LastIndex(a)
             /\ b.snapshot_index >= a.snapshot_index
  <2>1. DOMAIN b.log_entries = (i + 1)..LastIndex(a)
    BY <1>1, <1>3 DEF RowsAfter
  <2> QED
    BY <1>1, <1>3, <2>1, GapFreeForm
<1> QED
  BY <1>2, <1>3 DEF Compacted

\* m is n, with other rows committed and applied: at most the log is compacted.
Rest(n, m, s) == /\ m.role = n.role
                 /\ m.currentTerm = n.currentTerm
                 /\ m.nextIndex = n.nextIndex
                 /\ m.matchIndex = n.matchIndex
                 /\ Compacted(n.store, m.store, s)

\* This is all that happens to n in compactIfNeededLocked,
LEMMA CompactRest ==
    ASSUME NEW n, IsNode(n), NEW s \in Server, NEW f
    PROVE  Rest(n, compactIfNeededLocked(n, s, f), s)
<1> DEFINE i == n.lastApplied
           st == CreateSnapshot(n.store, i, TermAt(n.store, i))
           m == [n EXCEPT !.store = st]
<1>1. CASE compactIfNeededLocked(n, s, f) = n
  BY <1>1 DEF Rest, Compacted, SameLog
<1>2. CASE compactIfNeededLocked(n, s, f) # n
  <2>1. /\ compactIfNeededLocked(n, s, f) = m
        /\ SnapshotThreshold[s] # 0 /\ i > n.store.snapshot_index
        /\ HasTerm(n.store, i)
    BY <1>2 DEF compactIfNeededLocked
  <2>2. IsStore(n.store) /\ i \in Nat /\ n.store.snapshot_index \in Nat
    BY DEF IsNode, IsStore, Index
  <2>3. /\ st.snapshot_index = i /\ st.snapshot_term = TermAt(n.store, i)
        /\ st.log_entries = RowsAfter(n.store, i)
    BY <2>2 DEF CreateSnapshot, IsStore
  <2>4. i \in DOMAIN n.store.log_entries
        /\ TermAt(n.store, i) = n.store.log_entries[i].term
    BY <2>1, <2>2 DEF HasTerm, TermAt
  <2> HIDE DEF st
  <2>5. /\ m.role = n.role /\ m.currentTerm = n.currentTerm
        /\ m.nextIndex = n.nextIndex /\ m.matchIndex = n.matchIndex
        /\ m.store = st
    BY DEF IsNode
  <2> HIDE DEF i, m
  <2> QED
    BY <2>1, <2>3, <2>4, <2>5 DEF Rest, Compacted
<1> QED
  BY <1>1, <1>2

\* ... applyCommittedLocked,
LEMMA ApplyRest ==
    ASSUME NEW n, IsNode(n), NEW s \in Server, NEW f
    PROVE  Rest(n, applyCommittedLocked(n, s, f), s)
<1>1. PICK from, to, new :
            LET done == [n EXCEPT
                           !.lastApplied = to,
                           !.store       = ApplySets(n.store, from, to),
                           !.applied     = n.applied \cup new]
            IN  /\ IsNode(done)
                /\ applyCommittedLocked(n, s, f) \in
                      {done, compactIfNeededLocked(done, s, f)}
  BY ApplyCommittedForm
<1> DEFINE st == ApplySets(n.store, from, to)
           A == n.applied \cup new
           done == [n EXCEPT !.lastApplied = to, !.store = st, !.applied = A]
<1>2. SameLog(n.store, st)
  BY DEF IsNode, IsStore, ApplySets, SameLog
<1> HIDE DEF st, A
<1>3. /\ done.role = n.role /\ done.currentTerm = n.currentTerm
      /\ done.nextIndex = n.nextIndex /\ done.matchIndex = n.matchIndex
      /\ done.store = st
  BY DEF IsNode
<1>4. IsNode(done) /\ applyCommittedLocked(n, s, f) \in
                            {done, compactIfNeededLocked(done, s, f)}
  BY <1>1 DEF st, A
<1> HIDE DEF done
<1>5. Rest(done, compactIfNeededLocked(done, s, f), s)
  BY <1>4, CompactRest
<1>6. Compacted(n.store, st, s)
  BY <1>2 DEF Compacted
<1>7. ASSUME NEW b, Compacted(st, b, s)
      PROVE  Compacted(n.store, b, s)
  BY <1>2, <1>7 DEF Compacted, SameLog, RowsAfter
<1>8. Rest(n, done, s)
  BY <1>3, <1>6 DEF Rest
<1>9. Rest(n, compactIfNeededLocked(done, s, f), s)
  BY <1>3, <1>5, <1>7 DEF Rest
<1> QED
  BY <1>4, <1>8, <1>9

\* ... the leader's advanceCommitLocked,
LEMMA AdvanceRest ==
    ASSUME NEW n, IsNode(n), NEW s \in Server, NEW f
    PROVE  Rest(n, advanceCommitLocked(n, s, f), s)
<1> DEFINE r == advanceCommitLocked(n, s, f)
<1>1. PICK c \in Index :
            LET m == [n EXCEPT !.commitIndex = c]
            IN  IsNode(m) /\ (r = n \/ r = m \/ r = applyCommittedLocked(m, s, f))
  BY AdvanceCommitForm, Zenon
<1> DEFINE m == [n EXCEPT !.commitIndex = c]
<1>2. IsNode(m) /\ (r = n \/ r = m \/ r = applyCommittedLocked(m, s, f))
  BY <1>1
<1> HIDE DEF r
<1>3. /\ m.role = n.role /\ m.currentTerm = n.currentTerm
      /\ m.nextIndex = n.nextIndex /\ m.matchIndex = n.matchIndex
      /\ m.store = n.store
  BY DEF IsNode
<1> HIDE DEF m
<1>4. Rest(m, applyCommittedLocked(m, s, f), s)
  BY <1>2, ApplyRest
<1>5. Rest(n, applyCommittedLocked(m, s, f), s)
  BY <1>3, <1>4 DEF Rest
<1>6. Rest(n, n, s) /\ Rest(n, m, s)
  BY <1>3 DEF Rest, Compacted, SameLog
<1> QED
  BY <1>2, <1>5, <1>6 DEF r

\* ... and the follower's commit.
LEMMA FollowCommitRest ==
    ASSUME NEW n, IsNode(n), NEW s \in Server, NEW q, IsAppendReq(q), NEW f
    PROVE  Rest(n, FollowCommit(n, s, q, f), s)
<1> DEFINE C == Min({q.leaderCommit, LastIndex(n.store)})
           m == [n EXCEPT !.commitIndex = C]
<1>1. IsNode(m)
  BY FollowCommitForm
<1>2. FollowCommit(n, s, q, f) \in {n, applyCommittedLocked(m, s, f)}
  BY DEF FollowCommit
<1> HIDE DEF C
<1>3. /\ m.role = n.role /\ m.currentTerm = n.currentTerm
      /\ m.nextIndex = n.nextIndex /\ m.matchIndex = n.matchIndex
      /\ m.store = n.store
  BY DEF IsNode
<1> HIDE DEF m
<1>4. Rest(m, applyCommittedLocked(m, s, f), s)
  BY <1>1, ApplyRest
<1>5. Rest(n, applyCommittedLocked(m, s, f), s)
  BY <1>3, <1>4 DEF Rest
<1>6. Rest(n, n, s)
  BY DEF Rest, Compacted, SameLog
<1> QED
  BY <1>2, <1>5, <1>6

\* The last index of a request is an index, not before its previous one, and
\* a follower's answer does not go beyond it.
LEMMA LastSentType ==
    ASSUME NEW q, IsAppendReq(q)
    PROVE  /\ LastSent(q) \in Index /\ LastSent(q) \in Nat
           /\ q.prevLogIndex <= LastSent(q)
           /\ \A st : MatchedUpTo(st, q) <= LastSent(q)
<1> DEFINE S == {q.prevLogIndex} \cup DOMAIN q.entries
<1>1. MaxIndex \in Nat /\ S \subseteq 0..MaxIndex /\ q.prevLogIndex \in S
  BY RaftConstants DEF IsAppendReq, IsTable, Index
<1> HIDE DEF S
<1>2. Max(S) \in S /\ \A y \in S : Max(S) >= y
  BY <1>1, MaxExists
<1>3. ASSUME NEW st PROVE MatchedUpTo(st, q) \in S
  <2> DEFINE I == {q.prevLogIndex} \cup Incoming(st, q)
  <2>1. I \subseteq S /\ I # {}
    BY DEF S, Incoming
  <2>2. I \subseteq 0..MaxIndex
    BY <1>1, <2>1
  <2> HIDE DEF I
  <2>3. Max(I) \in I
    BY <1>1, <2>1, <2>2, MaxExists
  <2> QED
    BY <2>1, <2>3 DEF MatchedUpTo, I
<1>4. LastSent(q) \in S /\ \A y \in S : LastSent(q) >= y
  BY <1>2, Zenon DEF LastSent, S
<1>5. /\ LastSent(q) \in Index /\ LastSent(q) \in Nat
      /\ q.prevLogIndex <= LastSent(q)
  <2>1. LastSent(q) \in 0..MaxIndex /\ q.prevLogIndex \in 0..MaxIndex
    BY <1>1, <1>4, Zenon
  <2>2. LastSent(q) >= q.prevLogIndex
    BY <1>1, <1>4, Zenon
  <2> QED
    BY <1>1, <2>1, <2>2 DEF Index
<1>6. ASSUME NEW st PROVE MatchedUpTo(st, q) <= LastSent(q)
  <2>1. MatchedUpTo(st, q) \in S /\ MatchedUpTo(st, q) \in 0..MaxIndex
    BY <1>1, <1>3
  <2> QED
    BY <1>1, <1>4, <1>5, <2>1
<1> QED
  BY <1>5, <1>6

\* The rows of a request follow its previous index.
InOrder(q) == DOMAIN q.entries = (q.prevLogIndex + 1)..LastSent(q)

\* The previous row of a request that matches is in the log or the snapshot.
LEMMA PrevInLog ==
    ASSUME NEW st, IsStore(st), GapFree(st), NEW q, IsAppendReq(q),
           PrevMatches(st, q)
    PROVE  /\ q.prevLogIndex \in Nat
           /\ q.prevLogIndex >= st.snapshot_index
           /\ q.prevLogIndex <= LastIndex(st)
<1>1. q.prevLogIndex \in Nat
  BY DEF IsAppendReq, Index
<1> QED
  BY <1>1, HasTermRange DEF PrevMatches

\* Where a request and the log that it is merged into begin to differ: d is
\* the first such index, in the log or right after its end.
LEMMA FirstDifference ==
    ASSUME NEW st, IsStore(st), GapFree(st), NEW q, IsAppendReq(q), InOrder(q),
           PrevMatches(st, q), Differs(st, q) # {}
    PROVE  LET d == Min(Differs(st, q))
           IN  /\ d \in Differs(st, q) /\ d \in Nat
               /\ d \in (q.prevLogIndex + 1)..LastSent(q)
               /\ d > st.snapshot_index /\ d <= LastIndex(st) + 1
               /\ \A j \in (q.prevLogIndex + 1)..(d - 1) : j \notin Differs(st, q)
               /\ Conflict(st, q) <=> d <= LastIndex(st)
<1> DEFINE D == Differs(st, q)
           d == Min(D)
           P == q.prevLogIndex
           l == LastIndex(st)
           L == LastSent(q)
<1>1. /\ P \in Nat /\ P >= st.snapshot_index /\ P <= l
      /\ st.snapshot_index \in Nat /\ l \in Nat
  BY PrevInLog, GapFreeFacts
<1>2. L \in Nat /\ MaxIndex \in Nat
  BY LastSentType, RaftConstants
<1>3. Incoming(st, q) = (P + 1)..L
  BY <1>1, <1>2 DEF Incoming, InOrder
<1>4. D \subseteq (P + 1)..L /\ D \subseteq 0..L
  BY <1>1, <1>2, <1>3 DEF Differs
<1>5. d \in D /\ \A y \in D : d <= y
  <2>1. D # {} /\ D \subseteq 0..L /\ L \in Nat
    BY <1>2, <1>4
  <2> HIDE DEF D, L
  <2> QED
    BY <2>1, MinExists
<1>6. d \in (P + 1)..L /\ d \in Nat
  BY <1>1, <1>2, <1>4, <1>5
<1>7. ASSUME NEW j \in (P + 1)..(d - 1) PROVE j \notin D
  <2>1. j < d
    BY <1>1, <1>6
  <2> HIDE DEF D, d
  <2> QED
    BY <1>1, <1>5, <1>6, <2>1
<1>8. d <= l + 1
  <2>1. CASE d = P + 1
    BY <1>1, <2>1
  <2>2. CASE d # P + 1
    <3>1. d - 1 \in (P + 1)..(d - 1) /\ d - 1 \in (P + 1)..L /\ d - 1 \in Nat
      BY <1>1, <1>2, <1>6, <2>2
    <3>2. HasTerm(st, d - 1)
      BY <1>3, <1>7, <3>1 DEF Differs
    <3> HIDE DEF d
    <3>3. d - 1 >= st.snapshot_index /\ d - 1 <= l
      BY <1>1, <3>1, <3>2, HasTermRange
    <3> QED
      BY <1>1, <1>6, <3>3
  <2> QED
    BY <2>1, <2>2
<1>9. Conflict(st, q) <=> d <= l
  <2>1. HasTerm(st, d) <=> d <= l
    <3> HIDE DEF d
    <3> QED
      BY <1>1, <1>6, HasTermRange
  <2> QED
    BY <2>1 DEF Conflict
<1>10. d > st.snapshot_index
  <2> HIDE DEF d
  <2> QED
    BY <1>1, <1>6
<1> HIDE DEF D, d
<1> QED
  BY <1>5, <1>6, <1>7, <1>8, <1>9, <1>10 DEF d, D

\* The log that AppendEntries leaves, in closed form: the log up to the first
\* difference, then the rows of the request.
LEMMA MergedForm ==
    ASSUME NEW st, IsStore(st), GapFree(st), NEW q, IsAppendReq(q), InOrder(q),
           PrevMatches(st, q)
    PROVE  /\ Differs(st, q) = {} =>
                /\ Truncated(st, q).log_entries = st.log_entries
                /\ Merged(st, q).log_entries = st.log_entries
           /\ Differs(st, q) # {} =>
                LET d == Min(Differs(st, q))
                IN  /\ Truncated(st, q).log_entries =
                          [i \in (st.snapshot_index + 1)..(d - 1) |->
                               st.log_entries[i]]
                    /\ Merged(st, q).log_entries =
                          [i \in (st.snapshot_index + 1)..LastSent(q) |->
                               IF i < d THEN st.log_entries[i] ELSE q.entries[i]]
           /\ Truncated(st, q).snapshot_index = st.snapshot_index
           /\ Truncated(st, q).snapshot_term = st.snapshot_term
           /\ Merged(st, q).snapshot_index = st.snapshot_index
           /\ Merged(st, q).snapshot_term = st.snapshot_term
<1> DEFINE new == {i \in Incoming(st, q) : \E j \in Differs(st, q) : j <= i}
           rows == [i \in new |-> q.entries[i]]
           T == Truncated(st, q)
<1>1. /\ T.snapshot_index = st.snapshot_index
      /\ T.snapshot_term = st.snapshot_term
      /\ T.log_entries = IF Conflict(st, q)
            THEN [i \in {j \in DOMAIN st.log_entries : j < Min(Differs(st, q))}
                       |-> st.log_entries[i]]
            ELSE st.log_entries
      /\ IsStore(T)
  BY TruncatedType DEF Truncated, DeleteFrom, IsStore
<1>2. Merged(st, q) = AppendEntries(T, rows)
  BY DEF Merged
<1> HIDE DEF T, new
<1>3. /\ Merged(st, q).snapshot_index = st.snapshot_index
      /\ Merged(st, q).snapshot_term = st.snapshot_term
      /\ Merged(st, q).log_entries =
            [i \in new \cup DOMAIN T.log_entries |->
                IF i \in new THEN q.entries[i] ELSE T.log_entries[i]]
  BY <1>1, <1>2 DEF AppendEntries, IsStore
<1>4. ASSUME Differs(st, q) = {}
      PROVE  /\ T.log_entries = st.log_entries
             /\ Merged(st, q).log_entries = st.log_entries
  <2>1. new = {} /\ ~Conflict(st, q)
    BY <1>4 DEF new, Conflict
  <2>2. st.log_entries = [i \in DOMAIN st.log_entries |-> st.log_entries[i]]
    BY DEF IsStore, IsTable
  <2> QED
    BY <1>1, <1>3, <2>1, <2>2
<1>5. ASSUME Differs(st, q) # {}
      PROVE  LET d == Min(Differs(st, q))
             IN  /\ T.log_entries =
                          [i \in (st.snapshot_index + 1)..(d - 1) |->
                               st.log_entries[i]]
                 /\ Merged(st, q).log_entries =
                          [i \in (st.snapshot_index + 1)..LastSent(q) |->
                               IF i < d THEN st.log_entries[i] ELSE q.entries[i]]
  <2> DEFINE d == Min(Differs(st, q))
             P == q.prevLogIndex
             l == LastIndex(st)
             L == LastSent(q)
             sn == st.snapshot_index
  <2>1. /\ d \in Differs(st, q) /\ d \in Nat /\ d \in (P + 1)..L
        /\ d > sn /\ d <= l + 1
        /\ \A j \in (P + 1)..(d - 1) : j \notin Differs(st, q)
        /\ Conflict(st, q) <=> d <= l
    BY <1>5, FirstDifference
  <2>2. /\ P \in Nat /\ P >= sn /\ P <= l /\ sn \in Nat /\ l \in Nat
        /\ DOMAIN st.log_entries = (sn + 1)..l
    BY PrevInLog, GapFreeFacts
  <2>3. L \in Nat
    BY LastSentType
  <2>4. DOMAIN q.entries = (P + 1)..L
    BY DEF InOrder
  <2>5. T.log_entries = IF Conflict(st, q)
            THEN [i \in {j \in DOMAIN st.log_entries : j < d} |-> st.log_entries[i]]
            ELSE st.log_entries
    BY <1>1
  <2>6. Incoming(st, q) = (P + 1)..L
    BY <2>2, <2>3, <2>4 DEF Incoming
  <2>7. \A j \in Differs(st, q) : j \in (P + 1)..L
    BY <2>6 DEF Differs
  <2> HIDE DEF d
  <2>8. new = d..L
    <3>1. ASSUME NEW i \in new PROVE i \in d..L
      <4>1. PICK j \in Differs(st, q) : j <= i /\ i \in (P + 1)..L
        BY <2>6 DEF new
      <4>2. j \in Nat /\ i \in Nat /\ j >= P + 1
        BY <2>2, <2>3, <2>7, <4>1
      <4>3. ~(j <= d - 1)
        BY <2>1, <2>2, <4>2
      <4> HIDE DEF P, L
      <4> QED
        BY <2>1, <2>2, <2>3, <4>1, <4>2, <4>3
    <3>2. ASSUME NEW i \in d..L PROVE i \in new
      BY <2>1, <2>2, <2>3, <2>6, <3>2 DEF new
    <3> QED
      BY <3>1, <3>2
  <2>9. st.log_entries = [i \in (sn + 1)..l |-> st.log_entries[i]]
    BY <2>2 DEF IsStore, IsTable
  <2>10. T.log_entries = [i \in (sn + 1)..(d - 1) |-> st.log_entries[i]]
    <3>1. CASE d <= l
      <4>1. {j \in DOMAIN st.log_entries : j < d} = (sn + 1)..(d - 1)
        BY <2>1, <2>2, <3>1
      <4> QED
        BY <2>1, <2>5, <3>1, <4>1
    <3>2. CASE ~(d <= l)
      <4>1. d - 1 = l
        BY <2>1, <2>2, <3>2
      <4> QED
        BY <2>1, <2>5, <2>9, <3>2, <4>1
    <3> QED
      BY <3>1, <3>2
  <2>11. new \cup DOMAIN T.log_entries = (sn + 1)..L
    BY <2>1, <2>2, <2>3, <2>8, <2>10
  <2>12. \A i \in (sn + 1)..L :
            (IF i \in new THEN q.entries[i] ELSE T.log_entries[i]) =
            (IF i < d THEN st.log_entries[i] ELSE q.entries[i])
    BY <2>1, <2>2, <2>3, <2>8, <2>10
  <2>13. Merged(st, q).log_entries =
            [i \in (sn + 1)..L |->
                IF i < d THEN st.log_entries[i] ELSE q.entries[i]]
    BY <1>3, <2>11, <2>12
  <2> QED
    BY <2>10, <2>13 DEF d
<1> QED
  BY <1>1, <1>3, <1>4, <1>5 DEF T

\* AppendEntries, complete or cut short by an error, leaves no hole.
LEMMA MergedGapFree ==
    ASSUME NEW st, IsStore(st), GapFree(st), NEW q, IsAppendReq(q), InOrder(q),
           PrevMatches(st, q)
    PROVE  /\ GapFree(Truncated(st, q)) /\ GapFree(Merged(st, q))
           /\ LastIndex(Merged(st, q)) = IF Differs(st, q) = {}
                                         THEN LastIndex(st) ELSE LastSent(q)
<1> DEFINE T == Truncated(st, q)
           M == Merged(st, q)
           d == Min(Differs(st, q))
           sn == st.snapshot_index
           L == LastSent(q)
<1>1. /\ sn \in Nat /\ LastIndex(st) \in Nat /\ LastIndex(st) >= sn
      /\ DOMAIN st.log_entries = (sn + 1)..LastIndex(st)
  BY GapFreeFacts
<1>2. IsStore(T) /\ IsStore(M) /\ T.snapshot_index = sn /\ M.snapshot_index = sn
  BY TruncatedType, MergedType, MergedForm
<1>3. CASE Differs(st, q) = {}
  <2>1. T.log_entries = st.log_entries /\ M.log_entries = st.log_entries
    BY <1>3, MergedForm
  <2> HIDE DEF T, M
  <2> QED
    BY <1>1, <1>2, <1>3, <2>1, GapFreeForm DEF T, M
<1>4. CASE Differs(st, q) # {}
  <2>1. d \in Nat /\ d > sn
    BY <1>4, FirstDifference
  <2>2. L \in Nat /\ d <= L
    <3>1. L \in Nat /\ d \in (q.prevLogIndex + 1)..L
      BY <1>4, FirstDifference, LastSentType
    <3> HIDE DEF d, L
    <3> QED
      BY <3>1 DEF IsAppendReq, Index
  <2>3. /\ T.log_entries = [i \in (sn + 1)..(d - 1) |-> st.log_entries[i]]
        /\ M.log_entries = [i \in (sn + 1)..L |->
                IF i < d THEN st.log_entries[i] ELSE q.entries[i]]
    BY <1>4, MergedForm
  <2>4. DOMAIN T.log_entries = (sn + 1)..(d - 1) /\ DOMAIN M.log_entries = (sn + 1)..L
    BY <2>3
  <2> HIDE DEF T, M, d, L
  <2>5. d - 1 \in Nat /\ d - 1 >= sn /\ L >= sn
    BY <1>1, <2>1, <2>2
  <2>6. GapFree(T)
    BY <1>2, <2>4, <2>5, GapFreeForm
  <2>7. GapFree(M) /\ LastIndex(M) = L
    BY <1>2, <2>2, <2>4, <2>5, GapFreeForm
  <2> QED
    BY <1>4, <2>6, <2>7 DEF T, M, L
<1> QED
  BY <1>3, <1>4

\* EntriesFrom returns the rows from next up to u, all there are if the batch
\* is large enough.
Batch(st, next, limit, u) ==
    /\ u >= next - 1 /\ u <= LastIndex(st)
    /\ limit >= LastIndex(st) => u = LastIndex(st)
    /\ EntriesFrom(st, next, limit) = [i \in next..u |-> st.log_entries[i]]

\* EntriesFrom, after an index that the log or the snapshot has, returns the
\* rows that follow it, up to the batch size.
LEMMA EntriesFromForm ==
    ASSUME NEW st, IsStore(st), GapFree(st), NEW next \in Nat,
           next > st.snapshot_index, next <= LastIndex(st) + 1,
           NEW limit \in Nat
    PROVE  \E u \in Nat : Batch(st, next, limit, u)
<1> DEFINE l == LastIndex(st)
           from == {i \in DOMAIN st.log_entries :
                        i >= next /\ i > st.snapshot_index}
           sent == {i \in from : Cardinality({j \in from : j < i}) < limit}
           u == IF next + limit - 1 <= l THEN next + limit - 1 ELSE l
<1>1. /\ st.snapshot_index \in Nat /\ l \in Nat
      /\ DOMAIN st.log_entries = (st.snapshot_index + 1)..l
  BY GapFreeFacts
<1>2. from = next..l
  BY <1>1
<1>3. ASSUME NEW i \in next..l
      PROVE  Cardinality({j \in from : j < i}) = i - next
  <2>1. {j \in from : j < i} = next..(i - 1)
    BY <1>1, <1>2
  <2>2. next \in Int /\ i - 1 \in Int /\ i \in Nat
    BY <1>1
  <2>3. Cardinality(next..(i - 1)) = IF next > i - 1 THEN 0 ELSE (i - 1) - next + 1
    BY <2>2, FS_Interval
  <2>4. Cardinality(next..(i - 1)) = i - next
    BY <1>1, <2>2, <2>3
  <2> QED
    BY <2>1, <2>4, Zenon
<1> HIDE DEF from, l
<1>4. sent = {i \in next..l : i - next < limit}
  BY <1>2, <1>3
<1>5. sent = next..u
  BY <1>1, <1>4
<1>6. EntriesFrom(st, next, limit) = [i \in sent |-> st.log_entries[i]]
  BY DEF EntriesFrom, from
<1>7. u \in Nat /\ u >= next - 1 /\ u <= l /\ (limit >= l => u = l)
  BY <1>1 DEF l
<1> HIDE DEF sent, u
<1> QED
  BY <1>5, <1>6, <1>7 DEF l, Batch

\* The end of an interval is its greatest element.
LEMMA LastSentIs ==
    ASSUME NEW q, NEW u \in Nat, q.prevLogIndex \in Nat, q.prevLogIndex <= u,
           DOMAIN q.entries = (q.prevLogIndex + 1)..u
    PROVE  LastSent(q) = u /\ InOrder(q)
<1> DEFINE S == {q.prevLogIndex} \cup DOMAIN q.entries
<1>1. S \subseteq 0..u /\ S # {} /\ u \in S
  OBVIOUS
<1> HIDE DEF S
<1>2. Max(S) \in S /\ \A y \in S : Max(S) >= y
  BY <1>1, MaxExists
<1>3. Max(S) = u
  BY <1>1, <1>2
<1> QED
  BY <1>3 DEF LastSent, InOrder, S

\* InstallSnapshot of a later snapshot leaves no hole: rows after it stay.
LEMMA InstallGapFree ==
    ASSUME NEW st, IsStore(st), GapFree(st), NEW i \in Index,
           i > st.snapshot_index, NEW term \in Nat, NEW data \in KvTables
    PROVE  LET b == InstallSnapshot(st, i, term, data)
           IN  GapFree(b) /\ b.snapshot_index = i
<1> DEFINE b == InstallSnapshot(st, i, term, data)
           l == LastIndex(st)
           u == IF l >= i THEN l ELSE i
<1>1. /\ st.snapshot_index \in Nat /\ l \in Nat /\ i \in Nat
      /\ DOMAIN st.log_entries = (st.snapshot_index + 1)..l
  BY GapFreeFacts DEF Index
<1>2. IsStore(b)
  BY InstallSnapshotType
<1>3. b.snapshot_index = i /\ b.log_entries = RowsAfter(st, i)
  BY DEF IsStore, InstallSnapshot
<1> HIDE DEF b, l
<1>4. DOMAIN b.log_entries = (i + 1)..u /\ u \in Nat /\ u >= i
  BY <1>1, <1>3 DEF RowsAfter
<1> HIDE DEF u
<1>5. GapFree(b)
  BY <1>2, <1>3, <1>4, GapFreeForm
<1> QED
  BY <1>3, <1>5 DEF b

\* A client's row goes to the end of the log.
LEMMA WrittenGapFree ==
    ASSUME NEW st, IsStore(st), GapFree(st), NEW row \in Row,
           LastIndex(st) + 1 <= MaxIndex
    PROVE  LET i == LastIndex(st) + 1
               b == AppendEntries(st, [j \in {i} |-> row])
           IN  /\ IsStore(b) /\ GapFree(b) /\ LastIndex(b) = i
               /\ b.snapshot_index = st.snapshot_index
               /\ b.snapshot_term = st.snapshot_term
               /\ b.log_entries = [j \in (st.snapshot_index + 1)..i |->
                                    IF j = i THEN row ELSE st.log_entries[j]]
<1> DEFINE l == LastIndex(st)
           i == l + 1
           rows == [j \in {i} |-> row]
           b == AppendEntries(st, rows)
<1>1. /\ st.snapshot_index \in Nat /\ l \in Nat /\ l >= st.snapshot_index
      /\ DOMAIN st.log_entries = (st.snapshot_index + 1)..l
  BY GapFreeFacts
<1>2. IsTable(rows, MaxIndex)
  BY <1>1 DEF IsTable
<1>3. IsStore(b)
  BY <1>2, AppendEntriesType
<1>4. /\ b.snapshot_index = st.snapshot_index
      /\ b.snapshot_term = st.snapshot_term
      /\ b.log_entries = [j \in DOMAIN rows \cup DOMAIN st.log_entries |->
                            IF j \in DOMAIN rows THEN rows[j]
                            ELSE st.log_entries[j]]
  BY DEF IsStore, AppendEntries
<1>5. DOMAIN rows = {i} /\ rows[i] = row
  OBVIOUS
<1> HIDE DEF l, b, rows
<1>6. DOMAIN rows \cup DOMAIN st.log_entries = (st.snapshot_index + 1)..i
  BY <1>1, <1>5
<1>7. \A j \in (st.snapshot_index + 1)..i :
        (IF j \in DOMAIN rows THEN rows[j] ELSE st.log_entries[j]) =
        (IF j = i THEN row ELSE st.log_entries[j])
  BY <1>5
<1>8. b.log_entries = [j \in (st.snapshot_index + 1)..i |->
                            IF j = i THEN row ELSE st.log_entries[j]]
  BY <1>4, <1>6, <1>7
<1>9. GapFree(b) /\ LastIndex(b) = i
  <2>1. DOMAIN b.log_entries = (b.snapshot_index + 1)..i
    BY <1>4, <1>8
  <2>2. i \in Nat /\ i >= b.snapshot_index
    BY <1>1, <1>4
  <2> HIDE DEF i
  <2> QED
    BY <1>3, <2>1, <2>2, GapFreeForm
<1> QED
  BY <1>3, <1>4, <1>8, <1>9 DEF b, rows, l

----------------------------------------------------------------------------
(* Messages                                                                *)

\* q is request o, which may have been given up by its sender.
SameRequest(q, o) ==
    /\ <<q.src, q.dst, q.term>> = <<o.src, o.dst, o.term>>
    /\ <<q.prevLogIndex, q.prevLogTerm>> = <<o.prevLogIndex, o.prevLogTerm>>
    /\ q.entries = o.entries
    /\ q.leaderCommit = o.leaderCommit

\* r answers request q.
AnswerTo(r, q) ==
    /\ <<r.src, r.dst, r.term>> = <<q.src, q.dst, q.term>>
    /\ r.lastSent = LastSent(q)
    /\ r.matchIndex <= LastSent(q)

\* A step that sends nothing new: it only handles, loses or gives up calls.
CallsKept ==
    /\ \A q \in appendReqs' : \E o \in appendReqs : SameRequest(q, o)
    /\ \A r \in appendReps' :
            r \in appendReps \/ \E q \in appendReqs : AnswerTo(r, q)
    /\ \A c \in snapReqs' \cup snapReps' : \E o \in snapReqs \cup snapReps :
            c.src = o.src /\ c.lastIncludedIndex = o.lastIncludedIndex

\* Handling and losing calls sends nothing new.
LEMMA CallsShrink ==
    ASSUME appendReqs' \subseteq appendReqs, appendReps' \subseteq appendReps,
           snapReqs' \subseteq snapReqs, snapReps' \subseteq snapReps
    PROVE  CallsKept
BY DEF CallsKept, SameRequest

\* An answer of AppendEntries is an answer to its request, ...
LEMMA AppendAnswerKept ==
    ASSUME NEW q \in appendReqs, NEW term, NEW success, NEW match,
           match <= LastSent(q), AppendAnswer(q, term, success, match)
    PROVE  CallsKept
<1>1. ASSUME NEW r \in appendReps', r \notin appendReps
      PROVE  AnswerTo(r, q)
  BY <1>1 DEF AppendAnswer, Answers, AnswerTo, LastSent
<1> QED
  BY <1>1 DEF AppendAnswer, snapVars, CallsKept, SameRequest

\* ... one of InstallSnapshot, too.
LEMMA SnapAnswerKept ==
    ASSUME NEW q \in snapReqs, NEW term, SnapAnswer(q, term)
    PROVE  CallsKept
<1>1. ASSUME NEW r \in snapReps', r \notin snapReps
      PROVE  r.src = q.src /\ r.lastIncludedIndex = q.lastIncludedIndex
  BY <1>1 DEF SnapAnswer, Answers
<1>2. appendReqs' = appendReqs /\ appendReps' = appendReps /\ snapReqs' \subseteq snapReqs
  BY DEF SnapAnswer, appendVars
<1> QED
  BY <1>1, <1>2 DEF CallsKept, SameRequest

\* A request that its sender gives up is the same request.
LEMMA WaitingSame ==
    ASSUME TypeOK, NEW b
    PROVE  /\ \A q \in appendReqs : SameRequest([q EXCEPT !.waiting = b], q)
           /\ \A q \in snapReqs :
                LET x == [q EXCEPT !.waiting = b]
                IN  x.src = q.src /\ x.lastIncludedIndex = q.lastIncludedIndex
BY DEF TypeOK, IsAppendReq, SnapReqs, SameRequest

\* Timeouts, losses and restarts send nothing.
LEMMA MisfortuneKept ==
    ASSUME TypeOK, Misfortune
    PROVE  CallsKept
<1>1. ASSUME NEW q \in appendReqs, AppendTimeout(q) PROVE CallsKept
  <2> DEFINE late == [q EXCEPT !.waiting = FALSE]
  <2>1. SameRequest(late, q)
    BY WaitingSame
  <2>2. /\ appendReqs' \subseteq appendReqs \cup {late}
        /\ appendReps' = appendReps /\ snapReqs' = snapReqs /\ snapReps' = snapReps
    BY <1>1 DEF AppendTimeout, snapVars
  <2> HIDE DEF late
  <2> QED
    BY <2>1, <2>2 DEF CallsKept, SameRequest
<1>2. ASSUME NEW q \in snapReqs, SnapTimeout(q) PROVE CallsKept
  <2> DEFINE late == [q EXCEPT !.waiting = FALSE]
  <2>1. late.src = q.src /\ late.lastIncludedIndex = q.lastIncludedIndex
    BY WaitingSame
  <2>2. /\ snapReqs' \subseteq snapReqs \cup {late} /\ snapReps' = snapReps
        /\ appendReqs' = appendReqs /\ appendReps' = appendReps
    BY <1>2 DEF SnapTimeout, appendVars
  <2> HIDE DEF late
  <2> QED
    BY <2>1, <2>2 DEF CallsKept, SameRequest
<1>3. ASSUME NEW s \in Unstable, Restart(s) PROVE CallsKept
  <2>1. ASSUME NEW x \in appendReqs' PROVE \E q \in appendReqs : SameRequest(x, q)
    <3>1. PICK q \in appendReqs : x = [q EXCEPT !.waiting = q.waiting /\ q.src # s]
      BY <1>3, Zenon DEF Restart, Abandon
    <3> QED
      BY <3>1, WaitingSame
  <2>2. ASSUME NEW x \in snapReqs'
        PROVE  \E q \in snapReqs : /\ x.src = q.src
                                   /\ x.lastIncludedIndex = q.lastIncludedIndex
    <3>1. PICK q \in snapReqs : x = [q EXCEPT !.waiting = q.waiting /\ q.src # s]
      BY <1>3, Zenon DEF Restart, Abandon
    <3> QED
      BY <3>1, WaitingSame
  <2>3. appendReps' \subseteq appendReps /\ snapReps' \subseteq snapReps
    BY <1>3 DEF Restart
  <2> QED
    BY <2>1, <2>2, <2>3 DEF CallsKept
<1> QED
  BY <1>1, <1>2, <1>3, CallsShrink
     DEF Misfortune, AppendReplyLost, SnapReplyLost, appendVars, snapVars

----------------------------------------------------------------------------
(* One step of one node                                                    *)

\* What s may do to its log, from n to m: it leaves no hole and uncovers no
\* snapshot; while it leads a term its log does not shrink; and it leads or
\* stands for a term that it was not already done with.
LogMove(n, m, s) ==
    /\ GapFree(m.store)
    /\ m.store.snapshot_index >= n.store.snapshot_index
    /\ PeersInv(m, s)
    /\ FreshInv(m, s, elected')
    /\ m.role = "leader" =>
            \/ /\ n.role = "leader" /\ m.currentTerm = n.currentTerm
               /\ LastIndex(m.store) >= LastIndex(n.store)
            \/ [term |-> m.currentTerm, leader |-> s] \notin elected

\* Such a move keeps the invariant.
LEMMA LogMoveStep ==
    ASSUME TypeOK, TypeOK', ElectionInv, LogInv, CallsKept,
           NEW s \in Server, NEW m, node' = [node EXCEPT ![s] = m],
           LogMove(node[s], m, s), elected \subseteq elected',
           elected' \subseteq elected
                \cup {[term |-> node[s].currentTerm, leader |-> s]}
    PROVE  LogInv'
<1>1. \A t \in Server : node'[t] = IF t = s THEN m ELSE node[t]
  BY DEF TypeOK
<1>2. \A t \in Server : /\ IsStore(node[t].store)
                        /\ LastIndex(node[t].store) \in Nat
                        /\ node[t].store.snapshot_index \in Nat
                        /\ LastIndex(node'[t].store) \in Nat
                        /\ node'[t].store.snapshot_index \in Nat
  BY LastIndexType DEF TypeOK, IsNode, IsStore, Index
<1>3. ASSUME NEW t \in Server
      PROVE  /\ GapFree(node'[t].store) /\ PeersInv(node'[t], t)
             /\ FreshInv(node'[t], t, elected')
  BY <1>1 DEF LogInv, LogMove, FreshInv
<1>4. ASSUME NEW t \in Server, NEW T \in Nat, Leads(t, T)',
             [term |-> T, leader |-> t] \in elected
      PROVE  Leads(t, T) /\ LastIndex(node'[t].store) >= LastIndex(node[t].store)
  BY <1>1, <1>2, <1>4 DEF Leads, LogMove
<1>5. ASSUME NEW q \in appendReqs' PROVE AppendReqInv(q)'
  <2>1. PICK o \in appendReqs : SameRequest(q, o)
    BY DEF CallsKept
  <2>2. /\ AppendReqInv(o) /\ o.src \in Server /\ o.term \in Nat
        /\ [term |-> o.term, leader |-> o.src] \in elected
    BY DEF LogInv, TypeOK, IsAppendReq, ElectionInv, CallsInv
  <2>3. LastSent(q) = LastSent(o) /\ LastSent(o) \in Nat
    <3>1. LastSent(o) \in Nat
      BY LastSentType DEF TypeOK
    <3>2. LastSent(q) = LastSent(o)
      BY <2>1 DEF SameRequest, LastSent
    <3> QED
      BY <3>1, <3>2
  <2>4. Leads(o.src, o.term)' => LastSent(o) <= LastIndex(node'[o.src].store)
    BY <1>2, <1>4, <2>2, <2>3 DEF AppendReqInv
  <2> QED
    BY <2>1, <2>2, <2>3, <2>4 DEF AppendReqInv, SameRequest, Leads
<1>6. ASSUME NEW r \in appendReps' PROVE AppendRepInv(r)'
  <2>1. /\ r.src \in Server /\ r.term \in Nat /\ r.lastSent \in Nat
        /\ r.matchIndex \in Nat
    BY DEF TypeOK, AppendReps, Index
  <2>2. AppendRepInv(r)
    <3>1. CASE r \in appendReps
      BY <3>1 DEF LogInv
    <3>2. ASSUME NEW q \in appendReqs, AnswerTo(r, q) PROVE AppendRepInv(r)
      BY <3>2 DEF LogInv, AppendReqInv, AppendRepInv, AnswerTo, ElectionInv, CallsInv
    <3> QED
      BY <3>1, <3>2 DEF CallsKept
  <2>3. Leads(r.src, r.term)' => r.lastSent <= LastIndex(node'[r.src].store)
    BY <1>2, <1>4, <2>1, <2>2 DEF AppendRepInv
  <2> QED
    BY <2>2, <2>3 DEF AppendRepInv, Leads
<1>7. ASSUME NEW c \in snapReqs' \cup snapReps' PROVE SnapInv(c)'
  <2>1. PICK o \in snapReqs \cup snapReps :
            c.src = o.src /\ c.lastIncludedIndex = o.lastIncludedIndex
    BY DEF CallsKept
  <2>2. o.src \in Server /\ o.lastIncludedIndex \in Nat /\ SnapInv(o)
    BY DEF TypeOK, SnapReqs, SnapReps, Index, LogInv
  <2>3. node'[o.src].store.snapshot_index >= node[o.src].store.snapshot_index
    BY <1>1, <1>2, <2>2 DEF LogMove
  <2> QED
    BY <1>2, <2>1, <2>2, <2>3 DEF SnapInv
<1>8. \A t \in Server : /\ GapFree(node[t].store)' /\ PeersInv(node[t], t)'
                        /\ FreshInv(node[t], t, elected)'
  BY <1>3 DEF GapFree, PeersInv, FreshInv
<1> QED
  BY <1>5, <1>6, <1>7, <1>8 DEF LogInv

\* m has the log of n, and leads or stands for a term only if n did.
Calm(n, m) ==
    /\ SameLog(n.store, m.store)
    /\ \/ m.role = "follower"
       \/ /\ m.role = n.role /\ m.currentTerm = n.currentTerm
          /\ m.nextIndex = n.nextIndex /\ m.matchIndex = n.matchIndex

\* LastIndexAndTerm depends on the log only.
LEMMA SameLogFacts ==
    ASSUME NEW a, NEW b, SameLog(a, b)
    PROVE  /\ LastIndex(b) = LastIndex(a) /\ LastTerm(b) = LastTerm(a)
           /\ GapFree(a) => GapFree(b)
BY DEF SameLog, LastIndex, LastTerm, GapFree

\* Keeping calm is such a move.
LEMMA CalmMove ==
    ASSUME TypeOK, LogInv, NEW s \in Server, NEW m, Calm(node[s], m),
           elected' = elected
    PROVE  LogMove(node[s], m, s)
<1> DEFINE n == node[s]
<1>1. /\ GapFree(n.store) /\ PeersInv(n, s) /\ FreshInv(n, s, elected)
      /\ IsStore(n.store) /\ n.store.snapshot_index \in Nat
      /\ LastIndex(n.store) \in Nat
  BY LastIndexType DEF LogInv, TypeOK, IsNode, IsStore, Index
<1>2. /\ LastIndex(m.store) = LastIndex(n.store) /\ GapFree(m.store)
      /\ m.store.snapshot_index = n.store.snapshot_index
  BY <1>1, SameLogFacts DEF Calm, SameLog
<1>3. PeersInv(m, s) /\ FreshInv(m, s, elected')
  BY <1>1, <1>2 DEF PeersInv, FreshInv, Calm
<1> QED
  BY <1>1, <1>2, <1>3 DEF LogMove, Calm

\* Doing it twice is doing it once.
LEMMA CalmTwice ==
    ASSUME NEW n, NEW m, NEW k, Calm(n, m), Calm(m, k)
    PROVE  Calm(n, k)
BY DEF Calm, SameLog

\* Stepping down is calm, ...
LEMMA StepDownCalm ==
    ASSUME NEW n, IsNode(n), NEW term, NEW leader, NEW f
    PROVE  LET m == stepDownLocked(n, term, leader, f)
           IN  Calm(n, m) /\ m.role = "follower"
<1> DEFINE st == IF term > n.currentTerm /\ f.method # "SaveTermVote"
                 THEN SaveTermVote(n.store, term, Nobody) ELSE n.store
           m == stepDownLocked(n, term, leader, f)
<1>1. SameLog(n.store, st)
  BY DEF IsNode, IsStore, SaveTermVote, SameLog
<1>2. m.store = st /\ m.role = "follower"
  BY DEF IsNode, stepDownLocked
<1> HIDE DEF st, m
<1> QED
  BY <1>1, <1>2 DEF Calm, m

\* ... so is what a candidate's request does before its vote is considered,
LEMMA SeenByVoterCalm ==
    ASSUME NEW n, IsNode(n), NEW q, NEW f
    PROVE  Calm(n, SeenByVoter(n, q, f))
<1>1. Calm(n, n)
  BY DEF Calm, SameLog
<1> QED
  BY <1>1, StepDownCalm DEF SeenByVoter

\* ... and what a leader's does: its receiver is a follower after it.
LEMMA SeenByFollowerCalm ==
    ASSUME NEW n, IsNode(n), NEW q, q.src \in Server, q.term \in Nat, NEW f,
           q.term >= n.currentTerm
    PROVE  LET m == SeenByFollower(n, q, f)
           IN  Calm(n, m) /\ m.role = "follower" /\ m.currentTerm = q.term
<1> DEFINE down == q.term > n.currentTerm \/ n.role # "follower"
           k == stepDownLocked(n, q.term, q.src, f)
           m == IF down THEN k ELSE n
<1>1. n.currentTerm \in Nat /\ (~down => n.currentTerm = q.term)
  BY DEF IsNode
<1>2. IsNode(k) /\ k.currentTerm = q.term /\ Calm(n, k) /\ k.role = "follower"
  <2>1. k.currentTerm = IF q.term > n.currentTerm THEN q.term ELSE n.currentTerm
    BY DEF stepDownLocked, IsNode
  <2>2. IsNode(k)
    BY StepDownType DEF Ids
  <2>3. Calm(n, k) /\ k.role = "follower"
    BY StepDownCalm
  <2> QED
    BY <1>1, <2>1, <2>2, <2>3
<1>3. IsNode(m) /\ m.currentTerm = q.term /\ Calm(n, m) /\ m.role = "follower"
  <2>1. Calm(n, n)
    BY DEF Calm, SameLog
  <2> QED
    BY <1>1, <1>2, <2>1
<1> HIDE DEF m
<1>4. SeenByFollower(n, q, f) = [m EXCEPT !.leaderID = q.src]
  BY DEF SeenByFollower, m
<1>5. LET x == [m EXCEPT !.leaderID = q.src]
      IN  /\ x.role = m.role /\ x.currentTerm = m.currentTerm /\ x.store = m.store
          /\ x.nextIndex = m.nextIndex /\ x.matchIndex = m.matchIndex
  BY <1>3 DEF IsNode
<1> QED
  BY <1>3, <1>4, <1>5 DEF Calm

\* A vote, given or only remembered, is calm.
LEMMA VoteCalm ==
    ASSUME NEW n, IsNode(n), NEW v, NEW w, NEW term
    PROVE  /\ Calm(n, [n EXCEPT !.votedFor = v])
           /\ Calm(n, [n EXCEPT !.votedFor = v,
                                !.store = SaveTermVote(@, term, w)])
           /\ Calm(n, [n EXCEPT !.votes = v])
<1> DEFINE st == SaveTermVote(n.store, term, w)
<1>1. SameLog(n.store, st)
  BY DEF IsNode, IsStore, SaveTermVote, SameLog
<1> HIDE DEF st
<1>2. Calm(n, [n EXCEPT !.votedFor = v, !.store = st])
  BY <1>1 DEF Calm, IsNode
<1>3. Calm(n, [n EXCEPT !.votedFor = v]) /\ Calm(n, [n EXCEPT !.votes = v])
  BY DEF Calm, SameLog, IsNode
<1> QED
  BY <1>2, <1>3 DEF st

\* A new leader believes nothing of its peers' logs but that they end where
\* its own does.
LEMMA BecomeLeaderPeers ==
    ASSUME NEW n, IsNode(n), NEW s \in Server, NEW f, f.method # "LastIndexAndTerm"
    PROVE  LET m == becomeLeaderLocked(n, s, f)
           IN  /\ m.role = "leader" /\ m.currentTerm = n.currentTerm
               /\ m.store = n.store /\ PeersInv(m, s)
               /\ \A p \in Peers(s) : m.matchIndex[p] = 0
<1> DEFINE m == becomeLeaderLocked(n, s, f)
           l == LastIndex(n.store)
<1>1. l \in Nat
  BY LastIndexType DEF IsNode, Index
<1>2. /\ m.role = "leader" /\ m.currentTerm = n.currentTerm
      /\ m.store = n.store
      /\ \A p \in Peers(s) : m.nextIndex[p] = l + 1 /\ m.matchIndex[p] = 0
  BY DEF becomeLeaderLocked, IsNode, Peers
<1> HIDE DEF m
<1>3. PeersInv(m, s)
  BY <1>1, <1>2 DEF PeersInv
<1> QED
  BY <1>2, <1>3 DEF m

\* A step that changes no node and sends nothing keeps the invariant.
LEMMA StillLog ==
    ASSUME TypeOK, TypeOK', ElectionInv, LogInv, CallsKept, node' = node,
           elected' = elected
    PROVE  LogInv'
<1>1. PICK s \in Server : TRUE
  BY RaftConstants
<1>2. node' = [node EXCEPT ![s] = node[s]]
  BY DEF TypeOK
<1>3. Calm(node[s], node[s])
  BY DEF Calm, SameLog
<1> QED
  BY <1>2, <1>3, CalmMove, LogMoveStep

----------------------------------------------------------------------------
(* Steps                                                                   *)

\* Each step of an election keeps the invariant.
LEMMA ElectionStepLog ==
    ASSUME TypeOK, TypeOK', ElectionInv, LogInv, ElectionStep
    PROVE  LogInv'
<1>1. CallsKept
  BY CallsShrink
     DEF ElectionStep, StartElection, StartElectionError, WinAlone,
         RequestVoteStale, RequestVoteGranted, RequestVoteRejected,
         RequestVoteError, VoteReplyStepDown, VoteReplyCounted, VoteAnswer,
         appendVars, snapVars
<1>2. ASSUME NEW s \in Server, NEW m, node' = [node EXCEPT ![s] = m],
             Calm(node[s], m), elected' = elected
      PROVE  LogInv'
  BY <1>1, <1>2, CalmMove, LogMoveStep
<1>3. ASSUME NEW s \in Server, NEW m, node' = [node EXCEPT ![s] = m],
             SameLog(node[s].store, m.store), m.role = "candidate",
             m.currentTerm = node[s].currentTerm + 1, elected' = elected
      PROVE  LogInv'
  <2>1. FreshInv(m, s, elected)
    BY <1>3, NodeFacts, WinnerTerm DEF FreshInv
  <2>2. LogMove(node[s], m, s)
    <3>1. /\ GapFree(m.store)
          /\ m.store.snapshot_index = node[s].store.snapshot_index
          /\ node[s].store.snapshot_index \in Nat
      BY <1>3, SameLogFacts, NodeFacts DEF LogInv, SameLog, IsStore, Index
    <3> QED
      BY <1>3, <2>1, <3>1 DEF LogMove, PeersInv
  <2> QED
    BY <1>1, <1>3, <2>2, LogMoveStep
<1>4. ASSUME NEW s \in Server, StartElection(s)
      PROVE  LogInv'
  <2> DEFINE n == Campaign(node[s], s)
             st == SaveTermVote(n.store, n.currentTerm, s)
             m == [n EXCEPT !.votes = {s}, !.store = st]
  <2>1. node' = [node EXCEPT ![s] = m] /\ elected' = elected
    BY <1>4 DEF StartElection
  <2>2. /\ IsNode(n) /\ n.currentTerm = node[s].currentTerm + 1
        /\ n.role = "candidate" /\ n.store = node[s].store
    BY NodeFacts, CampaignType
  <2>3. SameLog(n.store, st)
    BY <2>2 DEF SaveTermVote, IsNode, IsStore, SameLog
  <2> HIDE DEF n, st
  <2>4. m.role = n.role /\ m.currentTerm = n.currentTerm /\ m.store = st
    BY <2>2 DEF IsNode
  <2> HIDE DEF m
  <2> QED
    BY <1>3, <2>1, <2>2, <2>3, <2>4
<1>5. ASSUME NEW s \in Server, NEW f \in Faults, StartElectionError(s, f)
      PROVE  LogInv'
  <2> DEFINE n == Campaign(node[s], s)
             st == IF f.method = "SaveTermVote" THEN n.store
                   ELSE SaveTermVote(n.store, n.currentTerm, s)
             m == [n EXCEPT !.votes = {}, !.store = st]
  <2>1. node' = [node EXCEPT ![s] = m] /\ elected' = elected
    BY <1>5 DEF StartElectionError
  <2>2. /\ IsNode(n) /\ n.currentTerm = node[s].currentTerm + 1
        /\ n.role = "candidate" /\ n.store = node[s].store
    BY NodeFacts, CampaignType
  <2>3. SameLog(n.store, st)
    BY <2>2 DEF SaveTermVote, IsNode, IsStore, SameLog
  <2> HIDE DEF n, st
  <2>4. m.role = n.role /\ m.currentTerm = n.currentTerm /\ m.store = st
    BY <2>2 DEF IsNode
  <2> HIDE DEF m
  <2> QED
    BY <1>3, <2>1, <2>2, <2>3, <2>4
<1>6. ASSUME NEW s \in Server, NEW m, node' = [node EXCEPT ![s] = m],
             SameLog(node[s].store, m.store), m.role = "leader",
             m.currentTerm = node[s].currentTerm, PeersInv(m, s),
             node[s].role = "candidate",
             elected' = elected \cup
                {[term |-> node[s].currentTerm, leader |-> s]}
      PROVE  LogInv'
  <2>1. [term |-> m.currentTerm, leader |-> s] \notin elected
    BY <1>6 DEF LogInv, FreshInv
  <2>2. /\ GapFree(m.store)
        /\ m.store.snapshot_index = node[s].store.snapshot_index
        /\ node[s].store.snapshot_index \in Nat
    BY <1>6, SameLogFacts, NodeFacts DEF LogInv, SameLog, IsStore, Index
  <2>3. LogMove(node[s], m, s)
    BY <1>6, <2>1, <2>2 DEF LogMove, FreshInv
  <2> QED
    BY <1>1, <1>6, <2>3, LogMoveStep
<1>7. ASSUME NEW s \in Server, WinAlone(s)
      PROVE  LogInv'
  <2> DEFINE m == becomeLeaderLocked(node[s], s, NoFault)
  <2>1. NoFault.method # "LastIndexAndTerm" /\ IsNode(node[s])
    BY NodeFacts DEF NoFault
  <2>2. /\ m.role = "leader" /\ m.currentTerm = node[s].currentTerm
        /\ m.store = node[s].store /\ PeersInv(m, s)
    BY <2>1, BecomeLeaderPeers
  <2>3. SameLog(node[s].store, m.store)
    BY <2>2 DEF SameLog
  <2>4. /\ node' = [node EXCEPT ![s] = m] /\ node[s].role = "candidate"
        /\ elected' = elected \cup
                {[term |-> node[s].currentTerm, leader |-> s]}
    BY <1>7 DEF WinAlone
  <2> HIDE DEF m
  <2> QED
    BY <1>6, <2>2, <2>3, <2>4
<1>8. ASSUME NEW q \in voteReqs
      PROVE  q.src \in Server /\ q.dst \in Server /\ q.term \in Nat
  BY DEF TypeOK, VoteReqs
<1>9. ASSUME NEW q \in voteReqs, NEW f
      PROVE  LET n == SeenByVoter(node[q.dst], q, f)
             IN  IsNode(n) /\ Calm(node[q.dst], n)
  BY <1>8, NodeFacts, SeenByVoterType, SeenByVoterCalm
<1>10. ASSUME NEW q \in voteReqs, RequestVoteStale(q)
       PROVE  LogInv'
  BY <1>1, <1>10, StillLog DEF RequestVoteStale, VoteAnswer
<1>11. ASSUME NEW q \in voteReqs, RequestVoteGranted(q)
       PROVE  LogInv'
  <2> DEFINE n == SeenByVoter(node[q.dst], q, NoFault)
             m == [n EXCEPT !.votedFor = q.src,
                            !.store = SaveTermVote(@, n.currentTerm, q.src)]
  <2>1. node' = [node EXCEPT ![q.dst] = m] /\ elected' = elected
    BY <1>11 DEF RequestVoteGranted, VoteAnswer
  <2>2. Calm(node[q.dst], n) /\ Calm(n, m)
    BY <1>9, VoteCalm
  <2> HIDE DEF n, m
  <2> QED
    BY <1>2, <1>8, <2>1, <2>2, CalmTwice
<1>12. ASSUME NEW q \in voteReqs, NEW f \in Faults, RequestVoteRejected(q, f)
       PROVE  LogInv'
  BY <1>2, <1>8, <1>9, <1>12 DEF RequestVoteRejected, VoteAnswer
<1>13. ASSUME NEW q \in voteReqs, NEW f \in Faults, RequestVoteError(q, f)
       PROVE  LogInv'
  <2>0. PICK g \in {f, NoFault} :
            LET n == SeenByVoter(node[q.dst], q, g)
            IN  \/ node' = [node EXCEPT ![q.dst] = n]
                \/ node' = [node EXCEPT ![q.dst] = [n EXCEPT !.votedFor = q.src]]
    BY <1>13 DEF RequestVoteError
  <2> DEFINE n == SeenByVoter(node[q.dst], q, g)
             m == [n EXCEPT !.votedFor = q.src]
  <2>1. /\ node' \in {[node EXCEPT ![q.dst] = n], [node EXCEPT ![q.dst] = m]}
        /\ elected' = elected
    BY <1>13, <2>0 DEF RequestVoteError
  <2>2. Calm(node[q.dst], n) /\ Calm(n, m)
    BY <1>9, VoteCalm
  <2> HIDE DEF n, m
  <2> QED
    BY <1>2, <1>8, <2>1, <2>2, CalmTwice
<1>14. ASSUME NEW r \in voteReps
       PROVE  r.src \in Server /\ r.dst \in Server
  BY DEF TypeOK, VoteReps
<1>15. ASSUME NEW r \in voteReps, NEW f \in Faults, VoteReplyStepDown(r, f)
       PROVE  LogInv'
  <2>1. Calm(node[r.src], stepDownLocked(node[r.src], r.rterm, Nobody, f))
    BY <1>14, NodeFacts, StepDownCalm
  <2> QED
    BY <1>2, <1>14, <1>15, <2>1 DEF VoteReplyStepDown
<1>16. ASSUME NEW r \in voteReps, NEW f \in Faults, VoteReplyCounted(r, f)
       PROVE  LogInv'
  <2> DEFINE s == r.src
             n == [node[s] EXCEPT !.votes = @ \cup {r.dst}]
             won == Cardinality(n.votes) >= Majority
             b == becomeLeaderLocked(n, s, f)
  <2>1. s \in Server /\ r.dst \in Server /\ IsNode(node[s])
    BY <1>14, NodeFacts
  <2>2. /\ IsNode(n) /\ n.role = node[s].role
        /\ n.currentTerm = node[s].currentTerm
    <3> HIDE DEF s
    <3> QED
      BY <2>1 DEF IsNode
  <2>3. Calm(node[s], n)
    BY <2>1, VoteCalm
  <2>4. /\ node' = [node EXCEPT ![s] = IF won THEN b ELSE n]
        /\ node[s].role = "candidate"
        /\ elected' = elected \cup {[term |-> t, leader |-> s] :
                    t \in IF won /\ f.method # "LastIndexAndTerm"
                          THEN {n.currentTerm} ELSE {}}
    BY <1>16 DEF VoteReplyCounted, VoteCounts
  <2>5. CASE won /\ f.method # "LastIndexAndTerm"
    <3>1. /\ node' = [node EXCEPT ![s] = b]
          /\ elected' = elected \cup
                {[term |-> node[s].currentTerm, leader |-> s]}
      BY <2>2, <2>4, <2>5
    <3>2. f.method # "LastIndexAndTerm" /\ node[s].role = "candidate"
      BY <2>4, <2>5
    <3> HIDE DEF n, won, s
    <3>3. /\ b.role = "leader" /\ b.currentTerm = n.currentTerm
          /\ b.store = n.store /\ PeersInv(b, s)
      BY <2>1, <2>2, <3>2, BecomeLeaderPeers
    <3>4. SameLog(node[s].store, b.store)
      BY <2>3, <3>3 DEF Calm
    <3> HIDE DEF b
    <3> QED
      BY <1>6, <2>1, <2>2, <3>1, <3>2, <3>3, <3>4
  <2>6. CASE ~(won /\ f.method # "LastIndexAndTerm")
    <3>1. elected' = elected /\ node' = [node EXCEPT ![s] = IF won THEN b ELSE n]
      BY <2>4, <2>6
    <3> HIDE DEF won, n, s
    <3>2. won => b = [n EXCEPT !.votes = {}]
      BY <2>6 DEF becomeLeaderLocked
    <3>3. Calm(n, [n EXCEPT !.votes = {}])
      BY <2>2, VoteCalm
    <3>4. Calm(node[s], [n EXCEPT !.votes = {}])
      BY <2>3, <3>3, CalmTwice
    <3> QED
      BY <1>2, <2>1, <2>3, <3>1, <3>2, <3>4
  <2> QED
    BY <2>5, <2>6
<1> QED
  BY <1>4, <1>5, <1>7, <1>10, <1>11, <1>12, <1>13, <1>15, <1>16 DEF ElectionStep

\* Committing and applying keep a node's log and its view of its peers sound.
LEMMA RestSound ==
    ASSUME NEW n, IsNode(n), NEW m, IsNode(m), NEW s \in Server, Rest(n, m, s),
           GapFree(n.store), PeersInv(n, s)
    PROVE  /\ GapFree(m.store) /\ PeersInv(m, s)
           /\ LastIndex(m.store) = LastIndex(n.store)
           /\ m.store.snapshot_index >= n.store.snapshot_index
<1>1. IsStore(n.store) /\ IsStore(m.store)
  BY DEF IsNode
<1>2. /\ GapFree(m.store) /\ LastIndex(m.store) = LastIndex(n.store)
      /\ m.store.snapshot_index >= n.store.snapshot_index
  BY <1>1, CompactedGapFree DEF Rest
<1> QED
  BY <1>2 DEF Rest, PeersInv

\* n after it has learnt how far the log of p matches.
Learnt(n, p, match) == [n EXCEPT !.matchIndex[p] = match,
                                 !.nextIndex[p]  = match + 1]

\* A leader may learn of a peer what is within its own log.
LEMMA LearntPeer ==
    ASSUME NEW n, IsNode(n), NEW s \in Server, GapFree(n.store), PeersInv(n, s),
           NEW p \in Server, NEW match \in Index,
           n.role = "leader" /\ p # s => match <= LastIndex(n.store)
    PROVE  LET k == Learnt(n, p, match)
           IN  /\ IsNode(k) /\ k.role = n.role /\ k.currentTerm = n.currentTerm
               /\ k.store = n.store /\ PeersInv(k, s)
<1> DEFINE k == [n EXCEPT !.matchIndex[p] = match, !.nextIndex[p]  = match + 1]
           l == LastIndex(n.store)
<1>1. l \in Nat /\ match \in Nat /\ match + 1 \in 0..(MaxIndex + 1)
  BY LastIndexType, RaftConstants DEF IsNode, Index
<1>2. /\ IsNode(k) /\ k.role = n.role /\ k.currentTerm = n.currentTerm
      /\ k.store = n.store
  BY <1>1 DEF IsNode
<1>3. ASSUME NEW c \in Server
      PROVE  /\ k.matchIndex[c] = IF c = p THEN match ELSE n.matchIndex[c]
             /\ k.nextIndex[c] = IF c = p THEN match + 1 ELSE n.nextIndex[c]
  BY DEF IsNode
<1>4. k.role = "leader" => \A c \in Peers(s) : /\ k.nextIndex[c] \in 1..(l + 1)
                                               /\ k.matchIndex[c] <= l
  <2> SUFFICES ASSUME k.role = "leader", NEW c \in Peers(s)
               PROVE  k.nextIndex[c] \in 1..(l + 1) /\ k.matchIndex[c] <= l
    OBVIOUS
  <2>1. n.role = "leader" /\ c \in Server /\ (c = p => match <= l)
    BY <1>2 DEF Peers
  <2>2. n.nextIndex[c] \in 1..(l + 1) /\ n.matchIndex[c] <= l
    BY <2>1 DEF PeersInv
  <2> HIDE DEF l, k
  <2> QED
    BY <1>1, <1>3, <2>1, <2>2
<1> HIDE DEF k
<1>5. PeersInv(k, s)
  BY <1>2, <1>4 DEF PeersInv
<1> QED
  BY <1>2, <1>5 DEF k, Learnt

\* A new request keeps the invariant if it is in order itself.
LEMMA SendLog ==
    ASSUME TypeOK, LogInv, node' = node, elected' = elected,
           appendReps' = appendReps, snapReps' = snapReps,
           \A q \in appendReqs' : q \in appendReqs \/ AppendReqInv(q),
           \A c \in snapReqs' : c \in snapReqs \/ SnapInv(c)
    PROVE  LogInv'
<1>1. \A s \in Server : /\ GapFree(node[s].store)' /\ PeersInv(node[s], s)'
                        /\ FreshInv(node[s], s, elected)'
  BY DEF LogInv, GapFree, PeersInv, FreshInv
<1>2. \A q \in appendReqs' : AppendReqInv(q)'
  BY DEF LogInv, AppendReqInv, Leads
<1>3. \A r \in appendReps' : AppendRepInv(r)'
  BY DEF LogInv, AppendRepInv, Leads
<1>4. \A c \in snapReqs' \cup snapReps' : SnapInv(c)'
  BY DEF LogInv, SnapInv
<1> QED
  BY <1>1, <1>2, <1>3, <1>4 DEF LogInv

\* Each step of a leader keeps the invariant.
LEMMA LeaderStepLog ==
    ASSUME TypeOK, TypeOK', ElectionInv, LogInv, LeaderStep
    PROVE  LogInv'
<1>1. ASSUME NEW s \in Server
      PROVE  /\ IsNode(node[s]) /\ IsStore(node[s].store)
             /\ GapFree(node[s].store) /\ PeersInv(node[s], s)
             /\ FreshInv(node[s], s, elected)
             /\ node[s].store.snapshot_index \in Nat
             /\ LastIndex(node[s].store) \in Nat
             /\ LastIndex(node[s].store) >= node[s].store.snapshot_index
  BY NodeFacts, GapFreeFacts DEF LogInv
<1>2. ASSUME NEW s \in Server, NEW p \in Peers(s), NEW w, SendAppend(s, p, w)
      PROVE  LogInv'
  <2> DEFINE n == node[s]
             next == n.nextIndex[p]
             q == [src |-> s, dst |-> p, worker |-> w, term |-> n.currentTerm,
                   prevLogIndex |-> next - 1,
                   prevLogTerm  |-> TermAt(n.store, next - 1),
                   entries      |-> EntriesFrom(n.store, next, AppendBatchSize),
                   leaderCommit |-> n.commitIndex,
                   waiting      |-> TRUE]
  <2>1. /\ next > n.store.snapshot_index /\ n.role = "leader"
    BY <1>2 DEF SendAppend
  <2>2. next \in 1..(LastIndex(n.store) + 1) /\ next \in Nat
    BY <1>1, <2>1 DEF PeersInv
  <2>3. PICK u \in Nat : /\ u >= next - 1 /\ u <= LastIndex(n.store)
                         /\ EntriesFrom(n.store, next, AppendBatchSize) =
                                [i \in next..u |-> n.store.log_entries[i]]
    <3>1. /\ IsStore(n.store) /\ GapFree(n.store)
          /\ next <= LastIndex(n.store) + 1
      BY <1>1, <2>2
    <3>2. AppendBatchSize \in Nat
      BY RaftConstants
    <3> HIDE DEF next, n
    <3>3. \E u \in Nat : Batch(n.store, next, AppendBatchSize, u)
      BY <2>1, <2>2, <3>1, <3>2, EntriesFromForm
    <3> QED
      BY <3>3 DEF Batch
  <2>4. q.prevLogIndex = next - 1 /\ q.entries = [i \in next..u |-> n.store.log_entries[i]]
    BY <2>3
  <2>5. q.src = s
    OBVIOUS
  <2> HIDE DEF q, n
  <2>6. /\ q.prevLogIndex \in Nat /\ q.prevLogIndex <= u
        /\ DOMAIN q.entries = (q.prevLogIndex + 1)..u
    <3>1. next - 1 \in Nat /\ next - 1 <= u /\ (next - 1) + 1 = next
      BY <2>2, <2>3
    <3> HIDE DEF next
    <3> QED
      BY <2>4, <3>1
  <2>7. LastSent(q) = u /\ InOrder(q)
    BY <2>6, LastSentIs
  <2>8. AppendReqInv(q)
    BY <2>3, <2>5, <2>7 DEF AppendReqInv, InOrder, n
  <2>9. appendReqs' = appendReqs \cup {q}
    BY <1>2 DEF SendAppend, q, n
  <2>10. /\ node' = node /\ elected' = elected /\ appendReps' = appendReps
         /\ snapReqs' = snapReqs /\ snapReps' = snapReps
    BY <1>2 DEF SendAppend, snapVars
  <2> QED
    BY <2>8, <2>9, <2>10, SendLog
<1>3. ASSUME NEW s \in Server, NEW p \in Peers(s), NEW w, SendSnapshot(s, p, w)
      PROVE  LogInv'
  <2> DEFINE n == node[s]
             q == [src |-> s, dst |-> p, worker |-> w, term |-> n.currentTerm,
                   lastIncludedIndex |-> n.store.snapshot_index,
                   lastIncludedTerm  |-> n.store.snapshot_term,
                   data              |-> n.store.snapshot_data,
                   waiting           |-> TRUE]
  <2>1. /\ snapReqs' = snapReqs \cup {q} /\ appendReqs' = appendReqs
        /\ node' = node /\ elected' = elected /\ appendReps' = appendReps
        /\ snapReps' = snapReps
    BY <1>3 DEF SendSnapshot, appendVars
  <2>2. SnapInv(q)
    BY <1>1 DEF SnapInv
  <2> HIDE DEF q
  <2> QED
    BY <2>1, <2>2, SendLog
<1>4. ASSUME NEW r \in appendReps \cup snapReps
      PROVE  r.src \in Server /\ r.dst \in Server /\ r.rterm \in Nat
  BY DEF TypeOK, AppendReps, SnapReps
<1>5. ASSUME NEW r \in appendReps \cup snapReps, NEW f,
             node' = [node EXCEPT ![r.src] =
                                stepDownLocked(@, r.rterm, Nobody, f)],
             elected' = elected, CallsKept
      PROVE  LogInv'
  <2>1. Calm(node[r.src], stepDownLocked(node[r.src], r.rterm, Nobody, f))
    BY <1>1, <1>4, StepDownCalm
  <2> QED
    BY <1>4, <1>5, <2>1, CalmMove, LogMoveStep
<1>6. ASSUME NEW r \in appendReps, NEW f \in Faults, AppendReplyStepDown(r, f)
      PROVE  LogInv'
  <2>1. CallsKept
    BY <1>6, CallsShrink DEF AppendReplyStepDown, snapVars
  <2> QED
    BY <1>5, <1>6, <2>1 DEF AppendReplyStepDown
<1>7. ASSUME NEW r \in snapReps, NEW f \in Faults, SnapReplyStepDown(r, f)
      PROVE  LogInv'
  <2>1. CallsKept
    BY <1>7, CallsShrink DEF SnapReplyStepDown, appendVars
  <2> QED
    BY <1>5, <1>7, <2>1 DEF SnapReplyStepDown
<1>8. ASSUME NEW s \in Server, NEW k, NEW m, IsNode(k), IsNode(m),
             Rest(k, m, s), GapFree(k.store), PeersInv(k, s),
             k.role = node[s].role, k.currentTerm = node[s].currentTerm,
             LastIndex(k.store) >= LastIndex(node[s].store),
             k.store.snapshot_index = node[s].store.snapshot_index,
             node' = [node EXCEPT ![s] = m], elected' = elected, CallsKept
      PROVE  LogInv'
  <2>1. /\ GapFree(m.store) /\ PeersInv(m, s)
        /\ LastIndex(m.store) = LastIndex(k.store)
        /\ m.store.snapshot_index >= k.store.snapshot_index
    BY <1>8, RestSound
  <2>2. m.role = node[s].role /\ m.currentTerm = node[s].currentTerm
    BY <1>8 DEF Rest
  <2>3. FreshInv(m, s, elected')
    BY <1>1, <1>8, <2>2 DEF FreshInv
  <2>4. LogMove(node[s], m, s)
    BY <1>8, <2>1, <2>2, <2>3 DEF LogMove
  <2> QED
    BY <1>8, <2>4, LogMoveStep
<1>9. ASSUME NEW s \in Server, NEW p \in Server, NEW match \in Index,
             node[s].role = "leader" /\ p # s =>
                match <= LastIndex(node[s].store),
             NEW f, elected' = elected, CallsKept,
             node' = [node EXCEPT ![s] =
                        advanceCommitLocked(Learnt(node[s], p, match), s, f)]
      PROVE  LogInv'
  <2> DEFINE k == Learnt(node[s], p, match)
             m == advanceCommitLocked(k, s, f)
  <2>1. /\ IsNode(k) /\ k.role = node[s].role
        /\ k.currentTerm = node[s].currentTerm
        /\ k.store = node[s].store /\ PeersInv(k, s)
    BY <1>1, <1>9, LearntPeer
  <2> HIDE DEF k
  <2>2. IsNode(m) /\ Rest(k, m, s)
    BY <2>1, AdvanceCommitType, AdvanceRest
  <2>3. node' = [node EXCEPT ![s] = m]
    BY <1>9 DEF k
  <2>4. elected' = elected /\ CallsKept
    BY <1>9
  <2> HIDE DEF m
  <2>5. /\ GapFree(k.store) /\ LastIndex(k.store) >= LastIndex(node[s].store)
        /\ k.store.snapshot_index = node[s].store.snapshot_index
    BY <1>1, <2>1
  <2> QED
    BY <1>8, <2>1, <2>2, <2>3, <2>4, <2>5
<1>10. ASSUME NEW r \in appendReps, NEW f \in Faults, AppendReplySuccess(r, f)
       PROVE  LogInv'
  <2> DEFINE s == r.src
             p == r.dst
             n == node[s]
             S == {r.matchIndex, r.lastSent, n.matchIndex[p]}
             match == Max(S)
  <2>1. CallsKept /\ elected' = elected
    BY <1>10, CallsShrink DEF AppendReplySuccess, snapVars
  <2>2. /\ n.role = "leader" /\ Leads(s, r.term)
        /\ node' = [node EXCEPT ![s] =
                            advanceCommitLocked(Learnt(n, p, match), s, f)]
    BY <1>10 DEF AppendReplySuccess, SameLeadership, Leads, Learnt
  <2>3. /\ S \subseteq 0..MaxIndex /\ MaxIndex \in Nat /\ S # {}
        /\ s \in Server /\ p \in Server
    BY <1>1, <1>4, RaftConstants DEF TypeOK, AppendReps, IsNode, Index
  <2>4. match \in S
    <3> HIDE DEF S
    <3> QED
      BY <2>3, MaxExists
  <2>5. match \in Index
    BY <2>3, <2>4, Zenon DEF Index
  <2>6. p # s => \A x \in S : x <= LastIndex(n.store)
    <3>1. r.matchIndex \in Nat /\ r.lastSent \in Nat
      BY DEF TypeOK, AppendReps, Index
    <3>2. Leads(r.src, r.term)
      BY <2>2
    <3>3. r.matchIndex <= r.lastSent /\ r.lastSent <= LastIndex(n.store)
      BY <3>2 DEF LogInv, AppendRepInv
    <3>4. p # s => n.matchIndex[p] <= LastIndex(n.store)
      BY <1>1, <2>2, <2>3 DEF PeersInv, Peers
    <3> QED
      BY <1>1, <2>3, <3>1, <3>3, <3>4
  <2>7. p # s => match <= LastIndex(n.store)
    BY <2>4, <2>6, Zenon
  <2> HIDE DEF match, S, n
  <2> QED
    BY <1>9, <2>1, <2>2, <2>3, <2>5, <2>7 DEF n
<1>11. ASSUME NEW r \in appendReps, AppendReplyFailure(r)
       PROVE  LogInv'
  <2> DEFINE s == r.src
             p == r.dst
             n == node[s]
             x == n.nextIndex[p]
             y == IF x > 1 THEN x - 1 ELSE x
             k == [n EXCEPT !.nextIndex[p] = y]
  <2>1. CallsKept /\ elected' = elected
    BY <1>11, CallsShrink DEF AppendReplyFailure, snapVars
  <2>2. s \in Server /\ p \in Server
    BY <1>4
  <2>3. node' = [node EXCEPT ![s] = k]
    BY <1>11 DEF AppendReplyFailure
  <2>4. x \in 0..(MaxIndex + 1) /\ MaxIndex \in Nat
    BY <1>1, <2>2, RaftConstants DEF IsNode
  <2>5. y \in 0..(MaxIndex + 1)
    BY <2>4
  <2>6. p # s /\ n.role = "leader" => y \in 1..(LastIndex(n.store) + 1)
    <3>1. p # s /\ n.role = "leader" => x \in 1..(LastIndex(n.store) + 1)
      BY <1>1, <2>2 DEF PeersInv, Peers
    <3> QED
      BY <1>1, <2>2, <2>4, <3>1
  <2>7. /\ IsNode(k) /\ k.role = n.role /\ k.currentTerm = n.currentTerm
        /\ k.store = n.store /\ k.matchIndex = n.matchIndex
        /\ \A c \in Server : k.nextIndex[c] = IF c = p THEN y ELSE n.nextIndex[c]
    <3>1. IsNode(n)
      BY <1>1, <2>2
    <3> HIDE DEF y, s, p, n
    <3> QED
      BY <2>2, <2>5, <3>1 DEF IsNode
  <2>8. PeersInv(k, s)
    <3>1. PeersInv(n, s)
      BY <1>1, <2>2
    <3> HIDE DEF k, y, s, p, n
    <3> QED
      BY <2>2, <2>6, <2>7, <3>1 DEF PeersInv, Peers
  <2>9. Rest(k, k, s)
    BY DEF Rest, Compacted, SameLog
  <2>10. /\ GapFree(k.store) /\ LastIndex(k.store) >= LastIndex(node[s].store)
         /\ k.store.snapshot_index = node[s].store.snapshot_index
    BY <1>1, <2>2, <2>7
  <2> HIDE DEF k, y, s, p
  <2> QED
    BY <1>8, <2>1, <2>2, <2>3, <2>7, <2>8, <2>9, <2>10
<1>12. ASSUME NEW r \in snapReps, NEW f \in Faults, SnapReplySuccess(r, f)
       PROVE  LogInv'
  <2> DEFINE s == r.src
             n == node[s]
  <2>1. CallsKept /\ elected' = elected
    BY <1>12, CallsShrink DEF SnapReplySuccess, appendVars
  <2>2. /\ s \in Server /\ r.dst \in Server /\ r.lastIncludedIndex \in Index
        /\ r.lastIncludedIndex \in Nat
    BY DEF TypeOK, SnapReps, Index
  <2>3. r.lastIncludedIndex <= LastIndex(n.store)
    BY <1>1, <2>2 DEF LogInv, SnapInv
  <2>4. node' = [node EXCEPT ![s] =
                advanceCommitLocked(Learnt(n, r.dst, r.lastIncludedIndex), s, f)]
    BY <1>12 DEF SnapReplySuccess, Learnt
  <2> QED
    BY <1>9, <2>1, <2>2, <2>3, <2>4
<1>13. ASSUME NEW s \in Server, NEW cmd \in Command, NEW f \in Faults,
              Write(s, cmd, f)
       PROVE  LogInv'
  <2> DEFINE n == node[s]
             index == LastIndex(n.store) + 1
             row == [term |-> n.currentTerm, cmd |-> cmd]
             st == AppendEntries(n.store, [i \in {index} |-> row])
             k == [n EXCEPT !.store = st, !.matchIndex[s] = index]
             m == IF Majority = 1 THEN advanceCommitLocked(k, s, f) ELSE k
  <2>1. CallsKept /\ elected' = elected
    BY <1>13, CallsShrink DEF Write, appendVars, snapVars
  <2>2. /\ node' = [node EXCEPT ![s] = m] /\ index <= MaxIndex
    BY <1>13 DEF Write
  <2>3. row \in Row
    BY <1>1 DEF Row, IsNode
  <2>4. /\ IsStore(st) /\ GapFree(st) /\ LastIndex(st) = index
        /\ st.snapshot_index = n.store.snapshot_index
    <3> HIDE DEF row
    <3> QED
      BY <1>1, <2>2, <2>3, WrittenGapFree
  <2>5. IsNode(k)
    BY <1>1, <2>2, WrittenNodeType
  <2> HIDE DEF st
  <2>6. /\ k.role = n.role /\ k.currentTerm = n.currentTerm
        /\ k.store = st /\ k.nextIndex = n.nextIndex
        /\ \A p \in Peers(s) : k.matchIndex[p] = n.matchIndex[p]
    BY <1>1 DEF IsNode, Peers
  <2> HIDE DEF k
  <2>7. PeersInv(k, s)
    <3> SUFFICES ASSUME k.role = "leader", NEW p \in Peers(s)
                 PROVE  /\ k.nextIndex[p] \in 1..(LastIndex(k.store) + 1)
                        /\ k.matchIndex[p] <= LastIndex(k.store)
      BY DEF PeersInv
    <3>1. /\ n.nextIndex[p] \in 1..(LastIndex(n.store) + 1)
          /\ n.matchIndex[p] <= LastIndex(n.store)
      BY <1>1, <2>6 DEF PeersInv
    <3>2. p \in Server /\ n.matchIndex[p] \in Nat
      BY <1>1 DEF Peers, IsNode, Index
    <3> QED
      BY <1>1, <2>4, <2>6, <3>1, <3>2
  <2>8. IsNode(m) /\ Rest(k, m, s)
    <3>1. Rest(k, k, s)
      BY DEF Rest, Compacted, SameLog
    <3> QED
      BY <2>5, <3>1, AdvanceCommitType, AdvanceRest
  <2> HIDE DEF m
  <2>9. LastIndex(k.store) >= LastIndex(n.store)
    BY <1>1, <2>4, <2>6
  <2> HIDE DEF index, n
  <2> QED
    BY <1>8, <2>1, <2>2, <2>4, <2>5, <2>6, <2>7, <2>8, <2>9 DEF n
<1> QED
  BY <1>2, <1>3, <1>6, <1>7, <1>10, <1>11, <1>12, <1>13 DEF LeaderStep

\* A node with another store is the same otherwise.
LEMMA StoreSet ==
    ASSUME NEW n, IsNode(n), NEW st, IsStore(st)
    PROVE  LET m == [n EXCEPT !.store = st]
           IN  /\ IsNode(m) /\ m.store = st /\ m.role = n.role
               /\ m.currentTerm = n.currentTerm
               /\ m.nextIndex = n.nextIndex /\ m.matchIndex = n.matchIndex
               /\ m.commitIndex = n.commitIndex
               /\ m.lastApplied = n.lastApplied /\ m.applied = n.applied
BY DEF IsNode

\* Each step of a follower keeps the invariant.
LEMMA FollowerStepLog ==
    ASSUME TypeOK, TypeOK', ElectionInv, LogInv, FollowerStep
    PROVE  LogInv'
<1>1. ASSUME NEW s \in Server
      PROVE  /\ IsNode(node[s]) /\ GapFree(node[s].store)
             /\ node[s].store.snapshot_index \in Nat
  BY NodeFacts, GapFreeFacts DEF LogInv
<1>2. ASSUME NEW q \in appendReqs \cup snapReqs
      PROVE  q.src \in Server /\ q.dst \in Server /\ q.term \in Nat
  BY DEF TypeOK, IsAppendReq, SnapReqs
<1>3. ASSUME NEW q \in appendReqs \cup snapReqs, NEW f,
             q.term >= node[q.dst].currentTerm
      PROVE  LET n == SeenByFollower(node[q.dst], q, f)
             IN  /\ IsNode(n) /\ IsStore(n.store) /\ GapFree(n.store)
                 /\ Calm(node[q.dst], n) /\ n.role = "follower"
                 /\ n.store.snapshot_index = node[q.dst].store.snapshot_index
  <2> DEFINE n == SeenByFollower(node[q.dst], q, f)
  <2>1. IsNode(n) /\ Calm(node[q.dst], n) /\ n.role = "follower"
    BY <1>1, <1>2, <1>3, SeenByFollowerType, SeenByFollowerCalm
  <2> HIDE DEF n
  <2>2. /\ GapFree(n.store) /\ IsStore(n.store)
        /\ n.store.snapshot_index = node[q.dst].store.snapshot_index
    BY <1>1, <1>2, <2>1, SameLogFacts DEF Calm, SameLog, IsNode
  <2> QED
    BY <2>1, <2>2 DEF n
<1>4. ASSUME NEW s \in Server, NEW m, node' = [node EXCEPT ![s] = m],
             m.role = "follower", GapFree(m.store),
             m.store.snapshot_index >= node[s].store.snapshot_index,
             elected' = elected, CallsKept
      PROVE  LogInv'
  <2>1. LogMove(node[s], m, s)
    BY <1>4 DEF LogMove, PeersInv, FreshInv
  <2> QED
    BY <1>4, <2>1, LogMoveStep
<1>5. ASSUME NEW q \in appendReqs \cup snapReqs, NEW f,
             q.term >= node[q.dst].currentTerm,
             node' = [node EXCEPT ![q.dst] = SeenByFollower(node[q.dst], q, f)],
             elected' = elected, CallsKept
      PROVE  LogInv'
  <2> DEFINE n == SeenByFollower(node[q.dst], q, f)
  <2>1. /\ GapFree(n.store) /\ n.role = "follower"
        /\ n.store.snapshot_index >= node[q.dst].store.snapshot_index
    BY <1>1, <1>2, <1>3, <1>5
  <2>2. node' = [node EXCEPT ![q.dst] = n] /\ elected' = elected /\ CallsKept
    BY <1>5
  <2> HIDE DEF n
  <2> QED
    BY <1>2, <1>4, <2>1, <2>2
<1>6. ASSUME NEW q \in appendReqs
      PROVE  IsAppendReq(q) /\ InOrder(q) /\ 0 <= LastSent(q)
  BY LastSentType DEF TypeOK, LogInv, AppendReqInv, InOrder
<1>7. ASSUME NEW q \in appendReqs, AppendStale(q)
      PROVE  LogInv'
  <2> DEFINE t == node[q.dst].currentTerm
  <2>1. AppendAnswer(q, t, FALSE, 0)
    BY <1>7 DEF AppendStale
  <2> HIDE DEF t
  <2>2. CallsKept
    BY <1>6, <2>1, AppendAnswerKept
  <2> QED
    BY <1>7, <2>2, StillLog DEF AppendStale, AppendAnswer
<1>8. ASSUME NEW q \in appendReqs, NEW f \in Faults, AppendRefused(q, f)
      PROVE  LogInv'
  <2> DEFINE t == SeenByFollower(node[q.dst], q, f).currentTerm
  <2>1. AppendAnswer(q, t, FALSE, 0)
    BY <1>8 DEF AppendRefused
  <2> HIDE DEF t
  <2>2. CallsKept
    BY <1>6, <2>1, AppendAnswerKept
  <2> QED
    BY <1>5, <1>8, <2>2 DEF AppendRefused, AppendAnswer
<1>9. ASSUME NEW q \in appendReqs, NEW f \in Faults, AppendAccepted(q, f)
      PROVE  LogInv'
  <2> DEFINE s == q.dst
             n == SeenByFollower(node[s], q, f)
             st == Merged(n.store, q)
             m == [n EXCEPT !.store = st]
             k == FollowCommit(m, s, q, f)
  <2>1. /\ q.term >= node[s].currentTerm /\ PrevMatches(n.store, q)
        /\ node' = [node EXCEPT ![s] = k]
        /\ AppendAnswer(q, n.currentTerm, TRUE, MatchedUpTo(m.store, q))
    BY <1>9 DEF AppendAccepted
  <2>2. CallsKept /\ elected' = elected
    <3>1. MatchedUpTo(m.store, q) <= LastSent(q)
      BY <1>6, LastSentType
    <3> HIDE DEF m, n
    <3> QED
      BY <2>1, <3>1, AppendAnswerKept DEF AppendAnswer
  <2>3. /\ IsNode(n) /\ IsStore(n.store) /\ GapFree(n.store)
        /\ n.role = "follower" /\ s \in Server
        /\ n.store.snapshot_index = node[s].store.snapshot_index
    BY <1>2, <1>3, <2>1
  <2> HIDE DEF n, s
  <2>4. /\ IsStore(st) /\ GapFree(st)
        /\ st.snapshot_index = n.store.snapshot_index
    BY <1>6, <2>1, <2>3, MergedType, MergedGapFree, MergedForm
  <2> HIDE DEF st
  <2>5. IsNode(m) /\ m.store = st /\ m.role = n.role
    BY <2>3, <2>4, StoreSet
  <2> HIDE DEF m
  <2>6. IsNode(k) /\ Rest(m, k, s)
    BY <1>6, <2>3, <2>5, FollowCommitType, FollowCommitRest
  <2> HIDE DEF k
  <2>7. k.role = "follower"
    BY <2>3, <2>5, <2>6 DEF Rest
  <2>8. PeersInv(m, s)
    BY <2>3, <2>5 DEF PeersInv
  <2>9. /\ GapFree(k.store)
        /\ k.store.snapshot_index >= node[s].store.snapshot_index
    BY <2>3, <2>4, <2>5, <2>6, <2>8, RestSound
  <2> QED
    BY <1>4, <2>1, <2>2, <2>3, <2>7, <2>9
<1>10. ASSUME NEW q \in appendReqs, NEW f \in Faults, AppendError(q, f)
       PROVE  LogInv'
  <2> DEFINE s == q.dst
             n == SeenByFollower(node[s], q, f)
  <2>1. /\ q.term >= node[s].currentTerm
        /\ f.method # "SnapshotIndexTerm" => PrevMatches(n.store, q)
        /\ elected' = elected
    BY <1>10 DEF AppendError
  <2>2. CallsKept
    BY <1>10, CallsShrink DEF AppendError, snapVars
  <2>3. /\ IsNode(n) /\ IsStore(n.store) /\ GapFree(n.store)
        /\ n.role = "follower" /\ s \in Server
        /\ n.store.snapshot_index = node[s].store.snapshot_index
        /\ node[s].store.snapshot_index \in Nat
    BY <1>1, <1>2, <1>3, <2>1
  <2>4. ASSUME NEW st, IsStore(st), GapFree(st),
               st.snapshot_index = n.store.snapshot_index,
               node' = [node EXCEPT ![s] = [n EXCEPT !.store = st]]
        PROVE  LogInv'
    <3> DEFINE m == [n EXCEPT !.store = st]
    <3>1. node' = [node EXCEPT ![s] = m]
      BY <2>4
    <3> HIDE DEF n, s
    <3>2. m.store = st /\ m.role = n.role
      BY <2>3, <2>4, StoreSet
    <3> HIDE DEF m
    <3>3. m.store.snapshot_index >= node[s].store.snapshot_index
      BY <2>3, <2>4, <3>2
    <3>4. GapFree(m.store) /\ m.role = "follower"
      BY <2>3, <2>4, <3>2
    <3> QED
      BY <1>4, <2>1, <2>2, <2>3, <3>1, <3>3, <3>4
  <2>5. CASE f.method \in {"SnapshotIndexTerm", "DeleteFrom"}
    <3>1. node' = [node EXCEPT ![s] = n]
      BY <1>10, <2>5 DEF AppendError
    <3> QED
      BY <1>5, <2>1, <2>2, <3>1
  <2>6. CASE f.method = "AppendEntries"
    <3>1. node' = [node EXCEPT ![s] = [n EXCEPT !.store = Truncated(n.store, q)]]
      BY <1>10, <2>6 DEF AppendError
    <3> HIDE DEF n, s
    <3>2. /\ IsStore(Truncated(n.store, q)) /\ GapFree(Truncated(n.store, q))
          /\ Truncated(n.store, q).snapshot_index = n.store.snapshot_index
      BY <1>6, <2>1, <2>3, <2>6, TruncatedType, MergedGapFree, MergedForm
    <3> QED
      BY <2>4, <3>1, <3>2
  <2>7. CASE f.method = "LastIndexAndTerm"
    <3>1. node' = [node EXCEPT ![s] = [n EXCEPT !.store = Merged(n.store, q)]]
      BY <1>10, <2>7 DEF AppendError
    <3> HIDE DEF n, s
    <3>2. /\ IsStore(Merged(n.store, q)) /\ GapFree(Merged(n.store, q))
          /\ Merged(n.store, q).snapshot_index = n.store.snapshot_index
      BY <1>6, <2>1, <2>3, <2>7, MergedType, MergedGapFree, MergedForm
    <3> QED
      BY <2>4, <3>1, <3>2
  <2> QED
    BY <1>10, <2>5, <2>6, <2>7 DEF AppendError
<1>11. ASSUME NEW q \in snapReqs, SnapshotStale(q)
       PROVE  LogInv'
  BY <1>11, SnapAnswerKept, StillLog DEF SnapshotStale, SnapAnswer
<1>12. ASSUME NEW q \in snapReqs, NEW f \in Faults, SnapshotIgnored(q, f)
       PROVE  LogInv'
  BY <1>5, <1>12, SnapAnswerKept DEF SnapshotIgnored, SnapAnswer
<1>13. ASSUME NEW q \in snapReqs, NEW f \in Faults, SnapshotInstalled(q, f)
       PROVE  LogInv'
  <2> DEFINE s == q.dst
             n == SeenByFollower(node[s], q, f)
             st == InstallSnapshot(n.store, q.lastIncludedIndex,
                                   q.lastIncludedTerm, q.data)
             C == Max({n.commitIndex, q.lastIncludedIndex})
             A == Max({n.lastApplied, q.lastIncludedIndex})
             m == [n EXCEPT !.store = st, !.commitIndex = C, !.lastApplied = A]
  <2>1. /\ q.term >= node[s].currentTerm
        /\ q.lastIncludedIndex > n.store.snapshot_index
        /\ node' = [node EXCEPT ![s] = m] /\ elected' = elected
        /\ SnapAnswer(q, n.currentTerm)
    BY <1>13 DEF SnapshotInstalled, SnapAnswer
  <2>2. CallsKept
    BY <2>1, SnapAnswerKept
  <2>3. /\ IsNode(n) /\ IsStore(n.store) /\ GapFree(n.store)
        /\ n.role = "follower" /\ s \in Server
        /\ n.store.snapshot_index = node[s].store.snapshot_index
        /\ node[s].store.snapshot_index \in Nat
    BY <1>1, <1>2, <1>3, <2>1
  <2>4. /\ q.lastIncludedIndex \in Index /\ q.lastIncludedTerm \in Nat
        /\ q.data \in KvTables /\ q.lastIncludedIndex \in Nat
    BY DEF TypeOK, SnapReqs, Index
  <2> HIDE DEF n, s, C, A
  <2>5. GapFree(st) /\ st.snapshot_index = q.lastIncludedIndex
    BY <2>1, <2>3, <2>4, InstallGapFree
  <2> HIDE DEF st
  <2>6. m.store = st /\ m.role = "follower"
    BY <2>3 DEF IsNode
  <2> HIDE DEF m
  <2>7. m.store.snapshot_index >= node[s].store.snapshot_index
    BY <2>1, <2>3, <2>4, <2>5, <2>6
  <2> QED
    BY <1>4, <2>1, <2>2, <2>3, <2>5, <2>6, <2>7
<1>14. ASSUME NEW q \in snapReqs, NEW f \in Faults, SnapshotError(q, f)
       PROVE  LogInv'
  <2>1. CallsKept
    BY <1>14, CallsShrink DEF SnapshotError, appendVars
  <2> QED
    BY <1>5, <1>14, <2>1 DEF SnapshotError
<1> QED
  BY <1>7, <1>8, <1>9, <1>10, <1>11, <1>12, <1>13, <1>14 DEF FollowerStep

\* So do timeouts, losses and restarts: a restarted node has the log it had.
LEMMA MisfortuneLog ==
    ASSUME TypeOK, TypeOK', ElectionInv, LogInv, Misfortune
    PROVE  LogInv'
<1>1. CallsKept
  BY MisfortuneKept
<1>2. ASSUME node' = node, elected' = elected
      PROVE  LogInv'
  BY <1>1, <1>2, StillLog
<1>3. ASSUME NEW s \in Unstable, Restart(s)
      PROVE  LogInv'
  <2> DEFINE st == node[s].store
             m == [role        |-> "follower",
                   currentTerm |-> st.current_term,
                   votedFor    |-> st.voted_for,
                   leaderID    |-> Nobody,
                   commitIndex |-> st.last_applied,
                   lastApplied |-> st.last_applied,
                   nextIndex   |-> [p \in Server |-> 0],
                   matchIndex  |-> [p \in Server |-> 0],
                   votes       |-> {},
                   store       |-> st,
                   applied     |-> node[s].applied]
  <2>1. node' = [node EXCEPT ![s] = m] /\ elected' = elected
    BY <1>3 DEF Restart
  <2>2. s \in Server
    BY RaftConstants
  <2>3. Calm(node[s], m)
    BY DEF Calm, SameLog
  <2> HIDE DEF m
  <2> QED
    BY <1>1, <2>1, <2>2, <2>3, CalmMove, LogMoveStep
<1> QED
  BY <1>2, <1>3 DEF Misfortune, AppendTimeout, AppendReplyLost, SnapTimeout,
                    SnapReplyLost

\* The invariant holds when every log is empty.
LEMMA InitLog == Init => LogInv
<1> SUFFICES ASSUME Init PROVE LogInv
  OBVIOUS
<1>1. \A s \in Server : node[s].store = FreshStore /\ node[s].role = "follower"
  BY DEF Init
<1>2. GapFree(FreshStore)
  <2>1. DOMAIN FreshStore.log_entries = {} /\ FreshStore.snapshot_index = 0
    BY DEF FreshStore
  <2>2. LastIndex(FreshStore) = 0 /\ 0 + 1..0 = {}
    BY <2>1 DEF LastIndex
  <2> QED
    BY <2>1, <2>2 DEF GapFree
<1> QED
  BY <1>1, <1>2 DEF Init, LogInv, PeersInv, FreshInv

\* Every step keeps the invariant.
LEMMA StepLog ==
    TypeOK /\ ElectionInv /\ LogInv /\ [Next]_vars => LogInv'
<1> SUFFICES ASSUME TypeOK, ElectionInv, LogInv, [Next]_vars
             PROVE  LogInv'
  OBVIOUS
<1>1. TypeOK'
  BY StepType
<1>2. CASE Next
  BY <1>1, <1>2, ElectionStepLog, LeaderStepLog, FollowerStepLog, MisfortuneLog
     DEF Next
<1>3. CASE UNCHANGED vars
  <2>1. CallsKept
    BY <1>3, CallsShrink DEF vars, appendVars, snapVars
  <2> QED
    BY <1>1, <1>3, <2>1, StillLog DEF vars
<1> QED
  BY <1>2, <1>3

----------------------------------------------------------------------------
(* Theorems                                                                *)

\* LogInv holds in every reachable state, whatever is lost, late, compacted,
\* restarted or fails.
THEOREM LogInvariant == Spec => [](TypeOK /\ ElectionInv /\ LogInv)
<1>1. Init => LogInv
  BY InitLog
<1> QED
  BY <1>1, StepLog, ElectionsInvariant, PTL DEF Spec

\* No log ever has a hole, neither between its rows nor after its snapshot,
\* and a leader's nextIndex never points outside its log: AppendEntries,
\* InstallSnapshot and compactIfNeededLocked of every node, in any order.
THEOREM LogsHaveNoGap == Spec => []NoLogGap
<1>1. TypeOK /\ LogInv => NoLogGap
  BY DEF LogInv, GapFree, PeersInv, NoLogGap
<1> QED
  BY <1>1, LogInvariant, PTL
=============================================================================
