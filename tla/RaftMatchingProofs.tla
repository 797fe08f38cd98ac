------------------------- MODULE RaftMatchingProofs -------------------------
(***************************************************************************)
(* Logs match (LogMatching), for every cluster whose nodes do not compact  *)
(* their logs: RAFT_SNAPSHOT_THRESHOLD is 0.  (With compaction the code    *)
(* keeps rows of any term behind a snapshot it installs, and a log may go  *)
(* on from a row that its own snapshot contradicts.)                       *)
(*                                                                         *)
(* The inductive invariant MatchInv treats logs and the requests in flight *)
(* alike, as segments: rows, and the index and term they follow.  All      *)
(* segments match, and a leader has every row of its term that there is.   *)
(***************************************************************************)
EXTENDS RaftLogProofs

\* No node compacts its log.
NoCompaction == \A s \in Server : SnapshotThreshold[s] = 0

----------------------------------------------------------------------------
(* The inductive invariant                                                 *)

\* A log and the rows of a request: they follow index lo, of term at.
LogOf(st) == [lo |-> 0, at |-> 0, rows |-> st.log_entries]
RowsOf(q) == [lo |-> q.prevLogIndex, at |-> q.prevLogTerm, rows |-> q.entries]

Segments == {LogOf(node[s].store) : s \in Server}
                \cup {RowsOf(q) : q \in appendReqs}

Common(A, B) == DOMAIN A.rows \cap DOMAIN B.rows

\* Two segments are the same up to i, as far as both reach.
SameUpTo(A, B, i) ==
    /\ \A j \in Common(A, B) : j <= i => A.rows[j] = B.rows[j]
    /\ A.lo \in DOMAIN B.rows => B.rows[A.lo].term = A.at
    /\ B.lo \in DOMAIN A.rows => A.rows[B.lo].term = B.at
    /\ A.lo = B.lo => A.at = B.at

Match(A, B) ==
    \A i \in Common(A, B) :
        A.rows[i].term = B.rows[i].term => SameUpTo(A, B, i)

\* Nothing is compacted, and no snapshot is sent.
Uncompacted ==
    /\ \A s \in Server : /\ node[s].store.snapshot_index = 0
                         /\ node[s].store.snapshot_term = 0
    /\ snapReqs = {} /\ snapReps = {}

\* Rows are written by winners of elections,
Written(A) == \A i \in DOMAIN A.rows : \E e \in elected : e.term = A.rows[i].term

\* ... and a leader in term has all rows of it that there are.
Covers(log, term, A) ==
    \A i \in DOMAIN A.rows :
        A.rows[i].term = term => i \in DOMAIN log /\ log[i] = A.rows[i]

MatchInv ==
    /\ Uncompacted
    /\ \A A, B \in Segments : Match(A, B)
    /\ \A A \in Segments : Written(A)
    /\ \A s \in Server : node[s].role = "leader" =>
            \A A \in Segments :
                Covers(node[s].store.log_entries, node[s].currentTerm, A)

----------------------------------------------------------------------------
(* Segments                                                                *)

\* A has rows from after lo to hi.
Seg(A, hi) == /\ A.lo \in Nat /\ A.at \in Nat /\ hi \in Nat /\ hi >= A.lo
              /\ DOMAIN A.rows = (A.lo + 1)..hi
              /\ \A i \in DOMAIN A.rows : A.rows[i].term \in Nat

\* Matching is symmetric
LEMMA MatchSym == ASSUME NEW A, NEW B, Match(A, B) PROVE Match(B, A)
BY DEF Match, SameUpTo, Common

\* ... and reflexive.
LEMMA MatchSelf == ASSUME NEW A, NEW hi, Seg(A, hi) PROVE Match(A, A)
<1>1. A.lo \notin DOMAIN A.rows
  BY DEF Seg
<1> QED
  BY <1>1 DEF Match, SameUpTo, Common

\* P is a part of A: some rows that follow each other.
Part(P, A) == /\ \/ P.lo = A.lo /\ P.at = A.at
                 \/ P.lo \in DOMAIN A.rows /\ P.at = A.rows[P.lo].term
              /\ \A i \in DOMAIN P.rows : /\ i \in DOMAIN A.rows
                                          /\ P.rows[i] = A.rows[i]

\* What matches the whole matches its parts.
LEMMA PartMatch ==
    ASSUME NEW A, NEW B, NEW P, NEW hi, Seg(P, hi), Part(P, A), Match(A, B)
    PROVE  Match(P, B)
<1> SUFFICES ASSUME NEW i \in Common(P, B), P.rows[i].term = B.rows[i].term
             PROVE  SameUpTo(P, B, i)
  BY DEF Match
<1>1. i \in Common(A, B) /\ SameUpTo(A, B, i)
  BY DEF Match, Common, Part
<1>2. P.lo <= i /\ i \in Nat
  BY DEF Common, Seg
<1>3. ASSUME NEW j \in Common(P, B), j <= i PROVE P.rows[j] = B.rows[j]
  BY <1>1, <1>3 DEF SameUpTo, Common, Part
<1>4. ASSUME P.lo \in DOMAIN B.rows PROVE B.rows[P.lo].term = P.at
  BY <1>1, <1>2, <1>4 DEF SameUpTo, Common, Part
<1>5. ASSUME B.lo \in DOMAIN P.rows PROVE P.rows[B.lo].term = B.at
  BY <1>1, <1>5 DEF SameUpTo, Part
<1>6. ASSUME P.lo = B.lo PROVE P.at = B.at
  BY <1>1, <1>6 DEF SameUpTo, Part
<1> QED
  BY <1>3, <1>4, <1>5, <1>6 DEF SameUpTo

\* M is the log C with the rows of request Q from index d on.
MergeOf(M, C, Q, c, l, d) ==
    /\ Seg(C, c) /\ C.lo = 0 /\ C.at = 0 /\ Seg(Q, l) /\ Seg(M, l)
    /\ M.lo = 0 /\ M.at = 0
    /\ d \in Nat /\ d > Q.lo /\ d <= l /\ d <= c + 1 /\ Q.lo <= c
    /\ Q.lo = 0 => Q.at = 0
    /\ Q.lo # 0 => Q.at = C.rows[Q.lo].term
    /\ \A j \in (Q.lo + 1)..(d - 1) : C.rows[j].term = Q.rows[j].term
    /\ d <= c => C.rows[d].term # Q.rows[d].term
    /\ \A j \in 1..l : M.rows[j] = IF j < d THEN C.rows[j] ELSE Q.rows[j]

\* The merged log is the request where the request has rows, and the old log
\* before them.
LEMMA MergeParts ==
    ASSUME NEW M, NEW C, NEW Q, NEW c, NEW l, NEW d, MergeOf(M, C, Q, c, l, d),
           Match(C, Q)
    PROVE  /\ \A j \in (Q.lo + 1)..l : M.rows[j] = Q.rows[j]
           /\ \A j \in 1..Q.lo : M.rows[j] = C.rows[j]
<1> USE DEF MergeOf
<1>1. Q.lo \in Nat /\ c \in Nat /\ l \in Nat /\ d \in Nat
      /\ DOMAIN C.rows = 1..c /\ DOMAIN Q.rows = (Q.lo + 1)..l
  BY DEF Seg
<1>2. ASSUME NEW j \in (Q.lo + 1)..l PROVE M.rows[j] = Q.rows[j]
  <2>1. CASE j < d
    <3>1. j \in Common(C, Q) /\ C.rows[j].term = Q.rows[j].term /\ j <= j
      BY <1>1, <2>1 DEF Common
    <3>2. C.rows[j] = Q.rows[j]
      BY <3>1 DEF Match, SameUpTo
    <3> QED
      BY <1>1, <2>1, <3>2
  <2>2. CASE ~(j < d)
    BY <1>1, <2>2
  <2> QED
    BY <2>1, <2>2
<1>3. ASSUME NEW j \in 1..Q.lo PROVE M.rows[j] = C.rows[j]
  BY <1>1
<1> QED
  BY <1>2, <1>3

\* What matches the log and the request matches the merged log.
LEMMA MergeMatch ==
    ASSUME NEW M, NEW C, NEW Q, NEW c, NEW l, NEW d, MergeOf(M, C, Q, c, l, d),
           Match(C, Q), NEW B, NEW b, Seg(B, b), Match(C, B), Match(Q, B)
    PROVE  Match(M, B)
<1>1. /\ Q.lo \in Nat /\ c \in Nat /\ l \in Nat /\ B.lo \in Nat /\ b \in Nat
      /\ DOMAIN C.rows = 1..c /\ DOMAIN Q.rows = (Q.lo + 1)..l
      /\ DOMAIN M.rows = 1..l /\ DOMAIN B.rows = (B.lo + 1)..b
      /\ Q.lo <= c /\ M.lo = 0 /\ M.at = 0 /\ C.lo = 0 /\ C.at = 0
      /\ Q.lo = 0 => Q.at = 0
      /\ Q.lo # 0 => Q.at = C.rows[Q.lo].term
  BY DEF MergeOf, Seg
<1>2. /\ \A j \in (Q.lo + 1)..l : M.rows[j] = Q.rows[j]
      /\ \A j \in 1..Q.lo : M.rows[j] = C.rows[j]
  BY MergeParts
<1> SUFFICES ASSUME NEW i \in Common(M, B), M.rows[i].term = B.rows[i].term
             PROVE  SameUpTo(M, B, i)
  BY DEF Match
<1>3. i \in 1..l /\ i \in (B.lo + 1)..b
  BY <1>1 DEF Common
<1>4. CASE i <= Q.lo
  <2>1. i \in Common(C, B) /\ C.rows[i].term = B.rows[i].term
    BY <1>1, <1>2, <1>3, <1>4 DEF Common
  <2>2. SameUpTo(C, B, i)
    BY <2>1 DEF Match
  <2>3. ASSUME NEW j \in Common(M, B), j <= i PROVE M.rows[j] = B.rows[j]
    <3>1. j \in Common(C, B) /\ j \in 1..Q.lo
      BY <1>1, <1>3, <1>4, <2>3 DEF Common
    <3> QED
      BY <1>2, <2>2, <2>3, <3>1 DEF SameUpTo
  <2>4. ASSUME B.lo \in DOMAIN M.rows PROVE M.rows[B.lo].term = B.at
    <3>1. B.lo \in DOMAIN C.rows /\ B.lo \in 1..Q.lo
      BY <1>1, <1>3, <1>4, <2>4
    <3> QED
      BY <1>2, <2>2, <3>1 DEF SameUpTo
  <2> QED
    BY <1>1, <2>2, <2>3, <2>4 DEF SameUpTo
<1>5. CASE i > Q.lo
  <2>1. i \in Common(Q, B) /\ Q.rows[i].term = B.rows[i].term
    BY <1>1, <1>2, <1>3, <1>5 DEF Common
  <2>2. SameUpTo(Q, B, i)
    BY <2>1 DEF Match
  <2>3. ASSUME B.lo < Q.lo PROVE SameUpTo(C, B, Q.lo)
    <3>1. Q.lo \in DOMAIN B.rows /\ Q.lo # 0 /\ Q.lo \in Common(C, B)
      BY <1>1, <1>3, <1>5, <2>3 DEF Common
    <3>2. B.rows[Q.lo].term = C.rows[Q.lo].term
      BY <1>1, <2>2, <3>1 DEF SameUpTo
    <3> QED
      BY <3>1, <3>2 DEF Match
  <2>4. ASSUME NEW j \in Common(M, B), j <= i PROVE M.rows[j] = B.rows[j]
    <3>1. j \in 1..l /\ j \in (B.lo + 1)..b
      BY <1>1 DEF Common
    <3>2. CASE j > Q.lo
      <4>1. j \in Common(Q, B) /\ j \in (Q.lo + 1)..l
        BY <1>1, <3>1, <3>2 DEF Common
      <4> QED
        BY <1>2, <2>2, <2>4, <4>1 DEF SameUpTo
    <3>3. CASE j <= Q.lo
      <4>1. j \in Common(C, B) /\ B.lo < Q.lo /\ j \in 1..Q.lo
        BY <1>1, <3>1, <3>3 DEF Common
      <4>2. SameUpTo(C, B, Q.lo)
        BY <2>3, <4>1
      <4> QED
        BY <1>2, <3>3, <4>1, <4>2 DEF SameUpTo
    <3> QED
      BY <1>1, <3>1, <3>2, <3>3
  <2>5. ASSUME B.lo \in DOMAIN M.rows PROVE M.rows[B.lo].term = B.at
    <3>1. B.lo \in 1..l /\ B.lo < i
      BY <1>1, <1>3, <2>5
    <3>2. CASE B.lo > Q.lo
      <4>1. B.lo \in DOMAIN Q.rows /\ B.lo \in (Q.lo + 1)..l
        BY <1>1, <3>1, <3>2
      <4> QED
        BY <1>2, <2>2, <4>1 DEF SameUpTo
    <3>3. CASE B.lo = Q.lo
      <4>1. Q.at = B.at /\ Q.lo # 0 /\ B.lo \in 1..Q.lo
        BY <1>1, <2>2, <3>1, <3>3 DEF SameUpTo
      <4> QED
        BY <1>1, <1>2, <3>3, <4>1
    <3>4. CASE B.lo < Q.lo
      <4>1. SameUpTo(C, B, Q.lo) /\ B.lo \in DOMAIN C.rows /\ B.lo \in 1..Q.lo
        BY <1>1, <2>3, <3>1, <3>4
      <4> QED
        BY <1>2, <4>1 DEF SameUpTo
    <3> QED
      BY <1>1, <3>2, <3>3, <3>4
  <2>6. ASSUME B.lo = 0 PROVE B.at = 0
    <3>1. CASE Q.lo = 0
      BY <1>1, <2>2, <2>6, <3>1 DEF SameUpTo
    <3>2. CASE Q.lo # 0
      <4>1. SameUpTo(C, B, Q.lo)
        BY <1>1, <2>3, <2>6, <3>2
      <4> QED
        BY <1>1, <2>6, <4>1 DEF SameUpTo
    <3> QED
      BY <3>1, <3>2
  <2>7. M.lo \notin DOMAIN B.rows
    BY <1>1
  <2> QED
    BY <1>1, <2>4, <2>5, <2>6, <2>7 DEF SameUpTo
<1> QED
  BY <1>1, <1>3, <1>4, <1>5

\* M is the log C with one more row at its end.
AppendOf(M, C, c, row) ==
    /\ Seg(C, c) /\ Seg(M, c + 1) /\ M.lo = C.lo /\ M.at = C.at
    /\ \A j \in (C.lo + 1)..(c + 1) :
            M.rows[j] = IF j = c + 1 THEN row ELSE C.rows[j]

\* What matches a log and has no row of the same index and term as a new row
\* of the log matches the log with that row.
LEMMA AppendMatch ==
    ASSUME NEW M, NEW C, NEW c, NEW row, AppendOf(M, C, c, row),
           NEW B, NEW b, Seg(B, b), Match(C, B),
           c + 1 \in DOMAIN B.rows => B.rows[c + 1].term # row.term
    PROVE  Match(M, B)
<1>1. /\ C.lo \in Nat /\ c \in Nat /\ c >= C.lo /\ B.lo \in Nat /\ b \in Nat
      /\ DOMAIN C.rows = (C.lo + 1)..c /\ DOMAIN M.rows = (C.lo + 1)..(c + 1)
      /\ DOMAIN B.rows = (B.lo + 1)..b /\ M.lo = C.lo /\ M.at = C.at
      /\ \A j \in (C.lo + 1)..c : M.rows[j] = C.rows[j]
      /\ M.rows[c + 1] = row
  <2>1. /\ C.lo \in Nat /\ c \in Nat /\ c >= C.lo /\ B.lo \in Nat /\ b \in Nat
        /\ DOMAIN C.rows = (C.lo + 1)..c /\ M.lo = C.lo /\ M.at = C.at
        /\ DOMAIN B.rows = (B.lo + 1)..b
    BY DEF AppendOf, Seg
  <2>2. DOMAIN M.rows = (C.lo + 1)..(c + 1)
    BY DEF AppendOf, Seg
  <2>3. \A j \in (C.lo + 1)..(c + 1) :
            M.rows[j] = IF j = c + 1 THEN row ELSE C.rows[j]
    BY DEF AppendOf
  <2> QED
    BY <2>1, <2>2, <2>3
<1> SUFFICES ASSUME NEW i \in Common(M, B), M.rows[i].term = B.rows[i].term
             PROVE  SameUpTo(M, B, i)
  BY DEF Match
<1>2. i \in (C.lo + 1)..c /\ i \in (B.lo + 1)..b
  BY <1>1 DEF Common
<1>3. SameUpTo(C, B, i)
  BY <1>1, <1>2 DEF Common, Match
<1>4. ASSUME NEW j \in Common(M, B), j <= i PROVE M.rows[j] = B.rows[j]
  <2>1. j \in Common(C, B) /\ j \in (C.lo + 1)..c
    BY <1>1, <1>2, <1>4 DEF Common
  <2> QED
    BY <1>1, <1>3, <1>4, <2>1 DEF SameUpTo
<1>5. ASSUME B.lo \in DOMAIN M.rows PROVE M.rows[B.lo].term = B.at
  <2>1. B.lo \in (C.lo + 1)..c
    BY <1>1, <1>2, <1>5
  <2> QED
    BY <1>1, <1>3, <2>1 DEF SameUpTo
<1> QED
  BY <1>1, <1>3, <1>4, <1>5 DEF SameUpTo

\* The log of a store that has compacted nothing is a segment,
LEMMA LogSeg ==
    ASSUME NEW st, IsStore(st), GapFree(st), st.snapshot_index = 0
    PROVE  Seg(LogOf(st), LastIndex(st))
<1>1. /\ LastIndex(st) \in Nat
      /\ DOMAIN st.log_entries = 1..LastIndex(st)
  BY GapFreeFacts
<1>2. \A i \in DOMAIN st.log_entries : st.log_entries[i].term \in Nat
  BY DEF IsStore, IsTable, Row
<1> QED
  BY <1>1, <1>2 DEF Seg, LogOf

\* ... and so are the rows of a request.
LEMMA RowsSeg ==
    ASSUME NEW q, IsAppendReq(q), InOrder(q)
    PROVE  Seg(RowsOf(q), LastSent(q))
<1>1. /\ LastSent(q) \in Nat /\ q.prevLogIndex <= LastSent(q)
      /\ q.prevLogIndex \in Nat /\ q.prevLogTerm \in Nat
  BY LastSentType DEF IsAppendReq, Index
<1>2. \A i \in DOMAIN q.entries : q.entries[i].term \in Nat
  BY DEF IsAppendReq, IsTable, Row
<1> QED
  BY <1>1, <1>2 DEF Seg, RowsOf, InOrder

\* All that Segments collects are segments.
LEMMA SegmentShape ==
    ASSUME TypeOK, LogInv, Uncompacted, NEW A \in Segments
    PROVE  \E hi : Seg(A, hi)
<1>1. ASSUME NEW s \in Server PROVE \E hi : Seg(LogOf(node[s].store), hi)
  <2>1. /\ IsStore(node[s].store) /\ GapFree(node[s].store)
        /\ node[s].store.snapshot_index = 0
    BY DEF TypeOK, IsNode, LogInv, Uncompacted
  <2> QED
    BY <2>1, LogSeg
<1>2. ASSUME NEW q \in appendReqs PROVE \E hi : Seg(RowsOf(q), hi)
  BY RowsSeg DEF TypeOK, LogInv, AppendReqInv, InOrder
<1> QED
  BY <1>1, <1>2 DEF Segments

----------------------------------------------------------------------------
(* The four kinds of steps                                                 *)

\* Node s becomes m, and nothing new is sent.
Turns(s, m) == /\ node' = [node EXCEPT ![s] = m]
               /\ CallsKept

\* No answer of success is new.
NoNewSuccess == \A r \in appendReps' : r.success => r \in appendReps

\* Leader s, from n to m, learns of a peer's log only from an answer.
Counts(n, m, s) ==
    \A p \in Peers(s) :
        \/ m.matchIndex[p] = n.matchIndex[p]
        \/ \E r \in appendReps :
                /\ r.success /\ r.src = s /\ r.dst = p
                /\ r.term = n.currentTerm /\ m.matchIndex[p] = r.lastSent

\* (1) The log of s stays; if s leads then it did, or it has just been elected.
\* Only elections concern candidates.
LogStays(s, m) ==
    /\ Turns(s, m) /\ NoNewSuccess
    /\ SameLog(node[s].store, m.store)
    /\ m.role = "leader" =>
            \/ /\ node[s].role = "leader" /\ m.currentTerm = node[s].currentTerm
               /\ Counts(node[s], m, s)
            \/ ElectionStep /\ [term |-> m.currentTerm, leader |-> s] \notin elected
    /\ m.role = "candidate" => m = node[s] \/ ElectionStep

\* (2) A leader sends rows.
Sends(s, p, w) == p \in Peers(s) /\ SendAppend(s, p, w)

\* (3) A follower merges the rows of a request, or has no time to.
Merges(q, m, st) ==
    /\ Turns(q.dst, m)
    /\ q.term >= node[q.dst].currentTerm /\ m.currentTerm = q.term
    /\ m.role = "follower"
    /\ IsStore(st) /\ SameLog(node[q.dst].store, st)
    /\ PrevMatches(st, q)
    /\ \/ SameLog(Truncated(st, q), m.store) /\ NoNewSuccess
       \/ /\ SameLog(Merged(st, q), m.store)
          /\ \A r \in appendReps' :
                r.success => r \in appendReps \/ AnswerTo(r, q)

\* (4) A leader appends the row of a client.
Appends(s, m, row) ==
    /\ Turns(s, m)
    /\ node[s].role = "leader" /\ m.role = "leader"
    /\ m.currentTerm = node[s].currentTerm /\ row.term = node[s].currentTerm
    /\ row \in Row /\ NoNewSuccess
    /\ \A p \in Peers(s) : m.matchIndex[p] = node[s].matchIndex[p]
    /\ LastIndex(node[s].store) + 1 <= MaxIndex
    /\ SameLog(AppendEntries(node[s].store,
                             [i \in {LastIndex(node[s].store) + 1} |-> row]),
               m.store)

RowStep ==
    \/ \E s \in Server : \E m : LogStays(s, m)
    \/ \E s \in Server : \E p, w : Sends(s, p, w)
    \/ \E q \in appendReqs : \E m, st : Merges(q, m, st)
    \/ \E s \in Server : \E m, row : Appends(s, m, row)

\* Without compaction, committing and applying leave the log as it is.
LEMMA RestSame ==
    ASSUME NoCompaction, NEW n, NEW m, NEW s \in Server, Rest(n, m, s)
    PROVE  SameLog(n.store, m.store) /\ m.role = n.role
           /\ m.currentTerm = n.currentTerm /\ m.matchIndex = n.matchIndex
BY DEF NoCompaction, Rest, Compacted

\* A step that changes no node is one of the first kind.
LEMMA IdleStep ==
    ASSUME TypeOK, node' = node, CallsKept, NoNewSuccess
    PROVE  RowStep
<1>1. PICK s \in Server : TRUE
  BY RaftConstants
<1>2. LogStays(s, node[s])
  BY DEF LogStays, Turns, SameLog, TypeOK, Counts
<1> QED
  BY <1>2 DEF RowStep

\* So is a calm one.
LEMMA CalmStep ==
    ASSUME NEW s \in Server, NEW m, node' = [node EXCEPT ![s] = m],
           Calm(node[s], m), CallsKept, NoNewSuccess,
           m.role # "candidate" \/ ElectionStep
    PROVE  RowStep
<1>1. LogStays(s, m)
  BY DEF LogStays, Turns, Calm, Counts
<1> QED
  BY <1>1 DEF RowStep

\* Elections touch no log.
LEMMA ElectionRows ==
    ASSUME TypeOK, ElectionInv, LogInv, ElectionStep
    PROVE  RowStep
<1>1. CallsKept /\ NoNewSuccess /\ ElectionStep
  BY CallsShrink
     DEF NoNewSuccess, ElectionStep, StartElection, StartElectionError, WinAlone,
         RequestVoteStale, RequestVoteGranted, RequestVoteRejected,
         RequestVoteError, VoteReplyStepDown, VoteReplyCounted, VoteAnswer,
         appendVars, snapVars
<1>2. ASSUME NEW s \in Server, NEW m, node' = [node EXCEPT ![s] = m],
             SameLog(node[s].store, m.store), m.role = "candidate"
      PROVE  RowStep
  BY <1>1, <1>2 DEF RowStep, LogStays, Turns
<1>3. ASSUME NEW s \in Server, NEW m, node' = [node EXCEPT ![s] = m],
             SameLog(node[s].store, m.store),
             m.currentTerm = node[s].currentTerm, node[s].role = "candidate"
      PROVE  RowStep
  <2>1. [term |-> m.currentTerm, leader |-> s] \notin elected
    BY <1>3 DEF LogInv, FreshInv
  <2> QED
    BY <1>1, <1>3, <2>1 DEF RowStep, LogStays, Turns
<1>4. ASSUME NEW s \in Server, StartElection(s)
      PROVE  RowStep
  <2> DEFINE n == Campaign(node[s], s)
             st == SaveTermVote(n.store, n.currentTerm, s)
             m == [n EXCEPT !.votes = {s}, !.store = st]
  <2>1. node' = [node EXCEPT ![s] = m]
    BY <1>4 DEF StartElection
  <2>2. IsNode(n) /\ n.role = "candidate" /\ n.store = node[s].store
    BY NodeFacts, CampaignType
  <2>3. SameLog(n.store, st)
    BY <2>2 DEF SaveTermVote, IsNode, IsStore, SameLog
  <2> HIDE DEF n, st
  <2>4. m.role = n.role /\ m.store = st
    BY <2>2 DEF IsNode
  <2> HIDE DEF m
  <2> QED
    BY <1>2, <2>1, <2>2, <2>3, <2>4
<1>5. ASSUME NEW s \in Server, NEW f \in Faults, StartElectionError(s, f)
      PROVE  RowStep
  <2> DEFINE n == Campaign(node[s], s)
             st == IF f.method = "SaveTermVote" THEN n.store
                   ELSE SaveTermVote(n.store, n.currentTerm, s)
             m == [n EXCEPT !.votes = {}, !.store = st]
  <2>1. node' = [node EXCEPT ![s] = m]
    BY <1>5 DEF StartElectionError
  <2>2. IsNode(n) /\ n.role = "candidate" /\ n.store = node[s].store
    BY NodeFacts, CampaignType
  <2>3. SameLog(n.store, st)
    BY <2>2 DEF SaveTermVote, IsNode, IsStore, SameLog
  <2> HIDE DEF n, st
  <2>4. m.role = n.role /\ m.store = st
    BY <2>2 DEF IsNode
  <2> HIDE DEF m
  <2> QED
    BY <1>2, <2>1, <2>2, <2>3, <2>4
<1>6. ASSUME NEW s \in Server, NEW n, IsNode(n), NEW f
      PROVE  LET b == becomeLeaderLocked(n, s, f)
             IN  b.store = n.store /\ b.currentTerm = n.currentTerm
  BY <1>6 DEF becomeLeaderLocked, IsNode
<1>7. ASSUME NEW s \in Server, WinAlone(s)
      PROVE  RowStep
  <2> DEFINE m == becomeLeaderLocked(node[s], s, NoFault)
  <2>1. node' = [node EXCEPT ![s] = m] /\ node[s].role = "candidate"
    BY <1>7 DEF WinAlone
  <2>2. m.store = node[s].store /\ m.currentTerm = node[s].currentTerm
    BY <1>6, NodeFacts
  <2> HIDE DEF m
  <2> QED
    BY <1>3, <2>1, <2>2 DEF SameLog
<1>8. ASSUME NEW q \in voteReqs
      PROVE  q.src \in Server /\ q.dst \in Server /\ q.term \in Nat
  BY DEF TypeOK, VoteReqs
<1>9. ASSUME NEW q \in voteReqs, NEW f
      PROVE  LET n == SeenByVoter(node[q.dst], q, f)
             IN  IsNode(n) /\ Calm(node[q.dst], n)
  BY <1>8, NodeFacts, SeenByVoterType, SeenByVoterCalm
<1>10. ASSUME NEW q \in voteReqs, RequestVoteStale(q)
       PROVE  RowStep
  BY <1>1, <1>10, IdleStep DEF RequestVoteStale
<1>11. ASSUME NEW q \in voteReqs, RequestVoteGranted(q)
       PROVE  RowStep
  <2> DEFINE n == SeenByVoter(node[q.dst], q, NoFault)
             m == [n EXCEPT !.votedFor = q.src,
                            !.store = SaveTermVote(@, n.currentTerm, q.src)]
  <2>1. node' = [node EXCEPT ![q.dst] = m]
    BY <1>11 DEF RequestVoteGranted
  <2>2. Calm(node[q.dst], n) /\ Calm(n, m)
    BY <1>9, VoteCalm
  <2> HIDE DEF n, m
  <2> QED
    BY <1>1, <1>8, <2>1, <2>2, CalmTwice, CalmStep
<1>12. ASSUME NEW q \in voteReqs, NEW f \in Faults, RequestVoteRejected(q, f)
       PROVE  RowStep
  BY <1>1, <1>8, <1>9, <1>12, CalmStep DEF RequestVoteRejected
<1>13. ASSUME NEW q \in voteReqs, NEW f \in Faults, RequestVoteError(q, f)
       PROVE  RowStep
  <2>0. PICK g \in {f, NoFault} :
            LET n == SeenByVoter(node[q.dst], q, g)
            IN  \/ node' = [node EXCEPT ![q.dst] = n]
                \/ node' = [node EXCEPT ![q.dst] = [n EXCEPT !.votedFor = q.src]]
    BY <1>13 DEF RequestVoteError
  <2> DEFINE n == SeenByVoter(node[q.dst], q, g)
             m == [n EXCEPT !.votedFor = q.src]
  <2>1. node' \in {[node EXCEPT ![q.dst] = n], [node EXCEPT ![q.dst] = m]}
    BY <2>0
  <2>2. Calm(node[q.dst], n) /\ Calm(n, m)
    BY <1>9, VoteCalm
  <2> HIDE DEF n, m
  <2> QED
    BY <1>1, <1>8, <2>1, <2>2, CalmTwice, CalmStep
<1>14. ASSUME NEW r \in voteReps
       PROVE  r.src \in Server /\ r.dst \in Server
  BY DEF TypeOK, VoteReps
<1>15. ASSUME NEW r \in voteReps, NEW f \in Faults, VoteReplyStepDown(r, f)
       PROVE  RowStep
  <2>1. Calm(node[r.src], stepDownLocked(node[r.src], r.rterm, Nobody, f))
    BY <1>14, NodeFacts, StepDownCalm
  <2> QED
    BY <1>1, <1>14, <1>15, <2>1, CalmStep DEF VoteReplyStepDown
<1>16. ASSUME NEW r \in voteReps, NEW f \in Faults, VoteReplyCounted(r, f)
       PROVE  RowStep
  <2> DEFINE s == r.src
             n == [node[s] EXCEPT !.votes = @ \cup {r.dst}]
             won == Cardinality(n.votes) >= Majority
             m == IF won THEN becomeLeaderLocked(n, s, f) ELSE n
  <2>1. s \in Server /\ r.dst \in Server /\ IsNode(node[s])
    BY <1>14, NodeFacts
  <2>2. /\ IsNode(n) /\ n.currentTerm = node[s].currentTerm
        /\ n.store = node[s].store
    <3> HIDE DEF s
    <3> QED
      BY <2>1 DEF IsNode
  <2>3. node' = [node EXCEPT ![s] = m] /\ node[s].role = "candidate"
    BY <1>16 DEF VoteReplyCounted, VoteCounts
  <2> HIDE DEF won, n, s
  <2>4. m.store = n.store /\ m.currentTerm = n.currentTerm
    BY <1>6, <2>1, <2>2
  <2> HIDE DEF m
  <2> QED
    BY <1>3, <2>1, <2>2, <2>3, <2>4 DEF SameLog
<1> QED
  BY <1>4, <1>5, <1>7, <1>10, <1>11, <1>12, <1>13, <1>15, <1>16 DEF ElectionStep

\* What a leader learns of a peer is not its log.
LEMMA LearntCalm ==
    ASSUME NEW n, IsNode(n), NEW p \in Server, NEW match
    PROVE  LET k == Learnt(n, p, match)
           IN  /\ k.store = n.store /\ k.role = n.role
               /\ k.currentTerm = n.currentTerm
               /\ \A x \in Server : k.matchIndex[x] = IF x = p THEN match
                                                     ELSE n.matchIndex[x]
BY DEF Learnt, IsNode

\* The match of an answer of success is what the answer says, or what the
\* leader knew.
LEMMA LearntMatch ==
    ASSUME NEW a \in Nat, NEW b \in Nat, NEW c \in Nat, a <= b
    PROVE  Max({a, b, c}) \in {b, c}
<1> DEFINE S == {a, b, c}
<1>1. S \subseteq 0..(a + b + c) /\ S # {} /\ a + b + c \in Nat
  OBVIOUS
<1>2. a \in S /\ b \in S /\ \A x \in S : x = a \/ x = b \/ x = c
  OBVIOUS
<1> HIDE DEF S
<1>3. Max(S) \in S /\ \A y \in S : Max(S) >= y
  BY <1>1, MaxExists
<1>4. Max(S) >= b /\ (Max(S) = a \/ Max(S) = b \/ Max(S) = c)
  BY <1>2, <1>3, Zenon
<1>5. Max(S) = b \/ Max(S) = c
  BY <1>4
<1> QED
  BY <1>5, Zenon DEF S

\* A leader sends, appends, or leaves the logs alone.
LEMMA LeaderRows ==
    ASSUME NoCompaction, TypeOK, ElectionInv, LogInv, Uncompacted, LeaderStep
    PROVE  RowStep
<1>1. ASSUME NEW s \in Server
      PROVE  IsNode(node[s]) /\ PeersInv(node[s], s)
  BY NodeFacts DEF LogInv
<1>2. ASSUME NEW s \in Server, NEW p \in Peers(s), NEW w, SendAppend(s, p, w)
      PROVE  RowStep
  BY <1>2 DEF RowStep, Sends
<1>3. ASSUME NEW s \in Server, NEW p \in Peers(s), NEW w
      PROVE  ~SendSnapshot(s, p, w)
  <2> SUFFICES ASSUME SendSnapshot(s, p, w) PROVE FALSE
    OBVIOUS
  <2>1. node[s].role = "leader" /\ node[s].nextIndex[p] <= 0
    BY DEF SendSnapshot, Uncompacted
  <2>2. node[s].nextIndex[p] \in 1..(LastIndex(node[s].store) + 1)
    BY <1>1, <2>1 DEF PeersInv
  <2>3. LastIndex(node[s].store) \in Nat
    BY <1>1, LastIndexType DEF IsNode, Index
  <2> QED
    BY <2>1, <2>2, <2>3
<1>4. ASSUME NEW r \in appendReps
      PROVE  r.src \in Server /\ r.dst \in Server
  BY DEF TypeOK, AppendReps
<1>5. ASSUME NEW r \in appendReps, NEW f \in Faults, AppendReplyStepDown(r, f)
      PROVE  RowStep
  <2>1. CallsKept
    BY <1>5, CallsShrink DEF AppendReplyStepDown, snapVars
  <2> DEFINE m == stepDownLocked(node[r.src], r.rterm, Nobody, f)
  <2>2. Calm(node[r.src], m) /\ m.role = "follower"
    BY <1>1, <1>4, StepDownCalm
  <2>3. node' = [node EXCEPT ![r.src] = m] /\ NoNewSuccess
    BY <1>5 DEF AppendReplyStepDown, NoNewSuccess
  <2> HIDE DEF m
  <2> QED
    BY <1>4, <2>1, <2>2, <2>3, CalmStep
<1>6. ASSUME NEW r \in appendReps, NEW f \in Faults, AppendReplySuccess(r, f)
      PROVE  RowStep
  <2> DEFINE s == r.src
             n == node[s]
             match == Max({r.matchIndex, r.lastSent, n.matchIndex[r.dst]})
             k == Learnt(n, r.dst, match)
             m == advanceCommitLocked(k, s, f)
  <2>1. CallsKept
    BY <1>6, CallsShrink DEF AppendReplySuccess, snapVars
  <2>2. /\ n.role = "leader" /\ node' = [node EXCEPT ![s] = m]
        /\ r.success /\ n.currentTerm = r.term /\ NoNewSuccess
    BY <1>6 DEF AppendReplySuccess, SameLeadership, Learnt, NoNewSuccess
  <2>3. IsNode(k)
    BY <1>1, <1>4, MatchedNodeType DEF TypeOK, Learnt
  <2>4. IsNode(n) /\ s \in Server /\ r.dst \in Server
    BY <1>1, <1>4
  <2>5. match \in {r.lastSent, n.matchIndex[r.dst]}
    <3>1. /\ r.matchIndex \in Nat /\ r.lastSent \in Nat
          /\ r.matchIndex <= r.lastSent
      <4>1. r \in AppendReps /\ AppendRepInv(r) /\ MaxIndex \in Nat
        BY RaftConstants DEF TypeOK, LogInv
      <4> QED
        BY <4>1 DEF AppendReps, Index, AppendRepInv
    <3>2. n.matchIndex[r.dst] \in Nat
      BY <2>4 DEF IsNode, Index
    <3> QED
      BY <3>1, <3>2, LearntMatch
  <2> HIDE DEF n, match
  <2>6. /\ k.store = n.store /\ k.role = n.role /\ k.currentTerm = n.currentTerm
        /\ \A x \in Server : k.matchIndex[x] = IF x = r.dst THEN match
                                              ELSE n.matchIndex[x]
    BY <2>4, LearntCalm
  <2> HIDE DEF k
  <2>7. /\ SameLog(k.store, m.store) /\ m.role = k.role
        /\ m.currentTerm = k.currentTerm /\ m.matchIndex = k.matchIndex
    BY <2>3, <2>4, AdvanceRest, RestSame
  <2> HIDE DEF m
  <2>8. Counts(n, m, s)
    <3>1. ASSUME NEW p \in Peers(s), m.matchIndex[p] # n.matchIndex[p]
          PROVE  p = r.dst /\ m.matchIndex[p] = r.lastSent
      BY <2>5, <2>6, <2>7, <3>1 DEF Peers
    <3> QED
      BY <2>2, <3>1 DEF Counts
  <2> HIDE DEF s
  <2>9. LogStays(s, m)
    BY <2>1, <2>2, <2>6, <2>7, <2>8 DEF LogStays, Turns, n
  <2> QED
    BY <2>4, <2>9 DEF RowStep
<1>7. ASSUME NEW r \in appendReps, AppendReplyFailure(r)
      PROVE  RowStep
  <2> DEFINE s == r.src
             n == node[s]
             x == n.nextIndex[r.dst]
             y == IF x > 1 THEN x - 1 ELSE x
             k == [n EXCEPT !.nextIndex[r.dst] = y]
  <2>1. CallsKept
    BY <1>7, CallsShrink DEF AppendReplyFailure, snapVars
  <2>2. node' = [node EXCEPT ![s] = k] /\ n.role = "leader" /\ NoNewSuccess
    BY <1>7 DEF AppendReplyFailure, SameLeadership, NoNewSuccess
  <2>3. IsNode(n) /\ s \in Server
    BY <1>1, <1>4
  <2> HIDE DEF n, s, y
  <2>4. /\ k.store = n.store /\ k.role = n.role
        /\ k.currentTerm = n.currentTerm /\ k.matchIndex = n.matchIndex
    BY <2>3 DEF IsNode
  <2> HIDE DEF k
  <2>5. LogStays(s, k)
    BY <2>1, <2>2, <2>4 DEF LogStays, Turns, SameLog, Counts, n
  <2> QED
    BY <2>3, <2>5 DEF RowStep
<1>8. ASSUME NEW s \in Server, NEW cmd \in Command, NEW f \in Faults,
             Write(s, cmd, f)
      PROVE  RowStep
  <2> DEFINE n == node[s]
             index == LastIndex(n.store) + 1
             row == [term |-> n.currentTerm, cmd |-> cmd]
             st == AppendEntries(n.store, [i \in {index} |-> row])
             k == [n EXCEPT !.store = st, !.matchIndex[s] = index]
             m == IF Majority = 1 THEN advanceCommitLocked(k, s, f) ELSE k
  <2>1. CallsKept
    BY <1>8, CallsShrink DEF Write, appendVars, snapVars
  <2>2. /\ node' = [node EXCEPT ![s] = m] /\ index <= MaxIndex
        /\ n.role = "leader" /\ NoNewSuccess
    BY <1>8 DEF Write, NoNewSuccess, appendVars
  <2>3. row \in Row /\ row.term = n.currentTerm /\ IsNode(n)
    BY <1>1 DEF Row, IsNode
  <2>4. IsNode(k)
    BY <1>1, <2>2, WrittenNodeType
  <2> HIDE DEF st, n
  <2>5. /\ k.role = n.role /\ k.currentTerm = n.currentTerm /\ k.store = st
        /\ \A p \in Peers(s) : k.matchIndex[p] = n.matchIndex[p]
    BY <2>3 DEF IsNode, Peers
  <2> HIDE DEF k
  <2>6. /\ SameLog(k.store, m.store) /\ m.role = k.role
        /\ m.currentTerm = k.currentTerm /\ m.matchIndex = k.matchIndex
    <3>1. Rest(k, k, s)
      BY DEF Rest, Compacted, SameLog
    <3>2. Rest(k, m, s)
      BY <2>4, <3>1, AdvanceRest
    <3> HIDE DEF m
    <3> QED
      BY <3>2, RestSame
  <2> HIDE DEF m, row
  <2>7. SameLog(st, m.store)
    BY <2>5, <2>6
  <2>8. Appends(s, m, row)
    BY <2>1, <2>2, <2>3, <2>5, <2>6, <2>7 DEF Appends, Turns, n, st
  <2> QED
    BY <2>8 DEF RowStep
<1>9. snapReps = {}
  BY DEF Uncompacted
<1> QED
  BY <1>2, <1>3, <1>5, <1>6, <1>7, <1>8, <1>9 DEF LeaderStep

\* A refusal is no success, ...
LEMMA RefusalNoSuccess ==
    ASSUME NEW q, NEW term, AppendAnswer(q, term, FALSE, 0)
    PROVE  NoNewSuccess
BY DEF AppendAnswer, Answers, NoNewSuccess

\* ... and an answer is to its request.
LEMMA AnswerSuccess ==
    ASSUME NEW q, NEW term, NEW success, NEW match, match <= LastSent(q),
           AppendAnswer(q, term, success, match)
    PROVE  \A r \in appendReps' : r \in appendReps \/ AnswerTo(r, q)
BY DEF AppendAnswer, Answers, AnswerTo, LastSent

\* A follower merges, or leaves the logs alone.
LEMMA FollowerRows ==
    ASSUME NoCompaction, TypeOK, ElectionInv, LogInv, Uncompacted, FollowerStep
    PROVE  RowStep
<1>1. ASSUME NEW q \in appendReqs
      PROVE  /\ q.src \in Server /\ q.dst \in Server /\ q.term \in Nat
             /\ IsAppendReq(q) /\ 0 <= LastSent(q)
  BY LastSentType DEF TypeOK, IsAppendReq
<1>2. ASSUME NEW q \in appendReqs, NEW f, q.term >= node[q.dst].currentTerm
      PROVE  LET n == SeenByFollower(node[q.dst], q, f)
             IN  /\ IsNode(n) /\ IsStore(n.store) /\ Calm(node[q.dst], n)
                 /\ n.role = "follower" /\ n.currentTerm = q.term
  <2> DEFINE n == SeenByFollower(node[q.dst], q, f)
  <2>1. IsNode(n) /\ Calm(node[q.dst], n) /\ n.role = "follower"
        /\ n.currentTerm = q.term
    BY <1>1, <1>2, NodeFacts, SeenByFollowerType, SeenByFollowerCalm
  <2>2. IsStore(n.store)
    BY <2>1 DEF IsNode
  <2> QED
    BY <2>1, <2>2
<1>3. ASSUME NEW q \in appendReqs, NEW f, q.term >= node[q.dst].currentTerm,
             node' = [node EXCEPT ![q.dst] = SeenByFollower(node[q.dst], q, f)],
             CallsKept, NoNewSuccess
      PROVE  RowStep
  <2> DEFINE n == SeenByFollower(node[q.dst], q, f)
  <2>1. /\ Calm(node[q.dst], n) /\ node' = [node EXCEPT ![q.dst] = n] /\ CallsKept
        /\ n.role = "follower" /\ NoNewSuccess
    BY <1>2, <1>3
  <2> HIDE DEF n
  <2> QED
    BY <1>1, <2>1, CalmStep
<1>4. ASSUME NEW q \in appendReqs, AppendStale(q)
      PROVE  RowStep
  <2> DEFINE t == node[q.dst].currentTerm
  <2>1. AppendAnswer(q, t, FALSE, 0) /\ node' = node
    BY <1>4 DEF AppendStale
  <2> HIDE DEF t
  <2>2. CallsKept /\ NoNewSuccess
    BY <1>1, <2>1, AppendAnswerKept, RefusalNoSuccess
  <2> QED
    BY <2>1, <2>2, IdleStep
<1>5. ASSUME NEW q \in appendReqs, NEW f \in Faults, AppendRefused(q, f)
      PROVE  RowStep
  <2> DEFINE t == SeenByFollower(node[q.dst], q, f).currentTerm
  <2>1. AppendAnswer(q, t, FALSE, 0)
    BY <1>5 DEF AppendRefused
  <2> HIDE DEF t
  <2>2. CallsKept /\ NoNewSuccess
    BY <1>1, <2>1, AppendAnswerKept, RefusalNoSuccess
  <2> QED
    BY <1>3, <1>5, <2>2 DEF AppendRefused
<1>6. ASSUME NEW q \in appendReqs, NEW f, NEW b, NEW m,
             q.term >= node[q.dst].currentTerm, CallsKept,
             PrevMatches(SeenByFollower(node[q.dst], q, f).store, q),
             b \in {Truncated(SeenByFollower(node[q.dst], q, f).store, q),
                    Merged(SeenByFollower(node[q.dst], q, f).store, q)},
             SameLog(b, m.store), m.role = "follower", m.currentTerm = q.term,
             \/ NoNewSuccess
             \/ /\ b = Merged(SeenByFollower(node[q.dst], q, f).store, q)
                /\ \A r \in appendReps' : r \in appendReps \/ AnswerTo(r, q),
             node' = [node EXCEPT ![q.dst] = m]
      PROVE  RowStep
  <2> DEFINE st == SeenByFollower(node[q.dst], q, f).store
  <2>1. IsStore(st) /\ SameLog(node[q.dst].store, st)
    BY <1>2, <1>6 DEF Calm
  <2>2. /\ PrevMatches(st, q) /\ b \in {Truncated(st, q), Merged(st, q)}
        /\ \/ NoNewSuccess
           \/ /\ b = Merged(st, q)
              /\ \A r \in appendReps' : r \in appendReps \/ AnswerTo(r, q)
    BY <1>6
  <2> HIDE DEF st
  <2>3. Merges(q, m, st)
    BY <1>6, <2>1, <2>2 DEF Merges, Turns, NoNewSuccess
  <2> QED
    BY <2>3 DEF RowStep
<1>7. ASSUME NEW q \in appendReqs, NEW f \in Faults, AppendAccepted(q, f)
      PROVE  RowStep
  <2> DEFINE s == q.dst
             n == SeenByFollower(node[s], q, f)
             st == Merged(n.store, q)
             m == [n EXCEPT !.store = st]
             k == FollowCommit(m, s, q, f)
  <2>1. /\ q.term >= node[s].currentTerm /\ PrevMatches(n.store, q)
        /\ node' = [node EXCEPT ![s] = k]
        /\ AppendAnswer(q, n.currentTerm, TRUE, MatchedUpTo(m.store, q))
    BY <1>7 DEF AppendAccepted
  <2>2. /\ CallsKept
        /\ \A r \in appendReps' : r \in appendReps \/ AnswerTo(r, q)
    <3>1. MatchedUpTo(m.store, q) <= LastSent(q)
      BY <1>1, LastSentType
    <3> HIDE DEF m, n
    <3> QED
      BY <2>1, <3>1, AppendAnswerKept, AnswerSuccess
  <2>3. /\ IsNode(n) /\ IsStore(n.store) /\ n.role = "follower"
        /\ n.currentTerm = q.term /\ s \in Server
    BY <1>1, <1>2, <2>1
  <2> HIDE DEF n
  <2>4. IsStore(st)
    BY <1>1, <2>3, MergedType
  <2> HIDE DEF st
  <2>5. /\ IsNode(m) /\ m.store = st /\ m.role = n.role
        /\ m.currentTerm = n.currentTerm
    BY <2>3, <2>4, StoreSet
  <2> HIDE DEF m
  <2>6. SameLog(m.store, k.store) /\ k.role = m.role /\ k.currentTerm = m.currentTerm
    BY <1>1, <2>3, <2>5, FollowCommitRest, RestSame
  <2> HIDE DEF k
  <2>7. /\ SameLog(st, k.store) /\ k.role = "follower" /\ k.currentTerm = q.term
        /\ st \in {Truncated(n.store, q), Merged(n.store, q)}
        /\ st = Merged(n.store, q)
    BY <2>3, <2>5, <2>6 DEF st
  <2> QED
    BY <1>6, <2>1, <2>2, <2>7 DEF n
<1>8. ASSUME NEW q \in appendReqs, NEW f \in Faults, AppendError(q, f)
      PROVE  RowStep
  <2> DEFINE s == q.dst
             n == SeenByFollower(node[s], q, f)
  <2>1. /\ q.term >= node[s].currentTerm
        /\ f.method # "SnapshotIndexTerm" => PrevMatches(n.store, q)
    BY <1>8 DEF AppendError
  <2>2. CallsKept /\ NoNewSuccess
    BY <1>8, CallsShrink DEF AppendError, NoNewSuccess, snapVars
  <2>3. /\ IsNode(n) /\ IsStore(n.store) /\ n.role = "follower"
        /\ n.currentTerm = q.term
    BY <1>2, <2>1
  <2>4. ASSUME NEW b \in {Truncated(n.store, q), Merged(n.store, q)}, IsStore(b),
               node' = [node EXCEPT ![s] = [n EXCEPT !.store = b]],
               PrevMatches(n.store, q)
        PROVE  RowStep
    <3> DEFINE m == [n EXCEPT !.store = b]
    <3>1. m.store = b /\ m.role = "follower" /\ m.currentTerm = q.term
      <4> HIDE DEF n
      <4> QED
        BY <2>3, <2>4, StoreSet
    <3>2. node' = [node EXCEPT ![s] = m] /\ PrevMatches(n.store, q)
      BY <2>4
    <3> HIDE DEF m
    <3>3. SameLog(b, m.store)
      BY <3>1 DEF SameLog
    <3> QED
      BY <1>6, <2>1, <2>2, <2>4, <3>1, <3>2, <3>3
  <2>5. CASE f.method \in {"SnapshotIndexTerm", "DeleteFrom"}
    <3>1. node' = [node EXCEPT ![s] = n]
      BY <1>8, <2>5 DEF AppendError
    <3> QED
      BY <1>3, <2>1, <2>2, <3>1
  <2>6. CASE f.method = "AppendEntries"
    <3>1. node' = [node EXCEPT ![s] = [n EXCEPT !.store = Truncated(n.store, q)]]
      BY <1>8, <2>6 DEF AppendError
    <3> HIDE DEF n, s
    <3>2. IsStore(Truncated(n.store, q))
      BY <2>3, TruncatedType
    <3> QED
      BY <2>1, <2>4, <2>6, <3>1, <3>2
  <2>7. CASE f.method = "LastIndexAndTerm"
    <3>1. node' = [node EXCEPT ![s] = [n EXCEPT !.store = Merged(n.store, q)]]
      BY <1>8, <2>7 DEF AppendError
    <3> HIDE DEF n, s
    <3>2. IsStore(Merged(n.store, q))
      BY <1>1, <2>3, MergedType
    <3> QED
      BY <2>1, <2>4, <2>7, <3>1, <3>2
  <2> QED
    BY <1>8, <2>5, <2>6, <2>7 DEF AppendError
<1>9. snapReqs = {}
  BY DEF Uncompacted
<1> QED
  BY <1>4, <1>5, <1>7, <1>8, <1>9 DEF FollowerStep

\* A loss or a restart leaves the logs alone.
LEMMA MisfortuneRows ==
    ASSUME TypeOK, ElectionInv, Misfortune
    PROVE  RowStep
<1>1. CallsKept /\ NoNewSuccess
  <2>1. appendReps' \subseteq appendReps
    BY DEF Misfortune, AppendTimeout, AppendReplyLost, SnapTimeout,
           SnapReplyLost, Restart, appendVars
  <2> QED
    BY <2>1, MisfortuneKept DEF NoNewSuccess
<1>2. ASSUME NEW s \in Unstable, Restart(s)
      PROVE  RowStep
  <2> DEFINE st == node[s].store
             m == [role        |-> "follower",
                   currentTerm |-> st.current_term,
                   votedFor    |-> st.voted_for,
                   leaderID    |-> Nobody,
                   commitIndex |-> st.last_applied,
                   lastApplied |-> st.last_applied,
                   nextIndex   |-> [p \in Server |-> 0],
                   matchIndex  |-> [p \in Server |-> 0],
                   votes       |-> {},
                   store       |-> st,
                   applied     |-> node[s].applied]
  <2>1. node' = [node EXCEPT ![s] = m]
    BY <1>2 DEF Restart
  <2>2. s \in Server
    BY RaftConstants
  <2>3. Calm(node[s], m) /\ m.role = "follower"
    BY DEF Calm, SameLog
  <2> HIDE DEF m
  <2> QED
    BY <1>1, <2>1, <2>2, <2>3, CalmStep
<1> QED
  BY <1>1, <1>2, IdleStep DEF Misfortune, AppendTimeout, AppendReplyLost,
                              SnapTimeout, SnapReplyLost

\* Every step is of one of the four kinds.
LEMMA StepRows ==
    ASSUME NoCompaction, TypeOK, ElectionInv, LogInv, Uncompacted, [Next]_vars
    PROVE  RowStep
<1>1. CASE UNCHANGED vars
  <2>1. CallsKept /\ NoNewSuccess
    BY <1>1, CallsShrink DEF NoNewSuccess, vars, appendVars, snapVars
  <2> QED
    BY <1>1, <2>1, IdleStep DEF vars
<1> QED
  BY <1>1, ElectionRows, LeaderRows, FollowerRows, MisfortuneRows DEF Next

----------------------------------------------------------------------------
(* Each kind keeps the invariant                                           *)

\* Without compaction, no snapshot appears.
LEMMA StillUncompacted ==
    ASSUME Uncompacted, NEW s \in Server, NEW m, TypeOK, Turns(s, m),
           m.store.snapshot_index = 0, m.store.snapshot_term = 0
    PROVE  Uncompacted'
<1>1. \A t \in Server : node'[t] = IF t = s THEN m ELSE node[t]
  BY DEF Turns, TypeOK
<1>2. snapReqs' = {} /\ snapReps' = {}
  BY DEF Turns, CallsKept, Uncompacted
<1> QED
  BY <1>1, <1>2 DEF Uncompacted

\* A step after which N is the only new segment, if any is.
OnlyNew(N) == \A A \in Segments' : A \in Segments \/ A = N

\* The logs and requests after node s became m: only its log may be new.
LEMMA TurnSegments ==
    ASSUME TypeOK, NEW s \in Server, NEW m, Turns(s, m)
    PROVE  OnlyNew(LogOf(m.store))
<1>1. \A t \in Server : node'[t] = IF t = s THEN m ELSE node[t]
  BY DEF Turns, TypeOK
<1>2. ASSUME NEW t \in Server
      PROVE  LogOf(node'[t].store) \in Segments \cup {LogOf(m.store)}
  BY <1>1 DEF Segments
<1>3. ASSUME NEW q \in appendReqs' PROVE RowsOf(q) \in Segments
  <2>1. PICK o \in appendReqs : SameRequest(q, o)
    BY DEF Turns, CallsKept
  <2>2. RowsOf(q) = RowsOf(o)
    BY <2>1 DEF SameRequest, RowsOf
  <2> QED
    BY <2>2 DEF Segments
<1>4. ASSUME NEW A \in Segments' PROVE A \in Segments \/ A = LogOf(m.store)
  <2>1. CASE \E t \in Server : A = LogOf(node'[t].store)
    BY <1>2, <2>1
  <2>2. CASE \E q \in appendReqs' : A = RowsOf(q)
    BY <1>3, <2>2
  <2> QED
    BY <2>1, <2>2 DEF Segments, LogOf, RowsOf
<1> QED
  BY <1>4 DEF OnlyNew

\* All segments still match if the new one matches the old ones.
LEMMA NewSegment ==
    ASSUME TypeOK, LogInv, MatchInv, NEW N, NEW h, Seg(N, h), OnlyNew(N),
           \A B \in Segments : Match(N, B)
    PROVE  (\A A, B \in Segments : Match(A, B))'
<1> SUFFICES ASSUME NEW A \in Segments', NEW B \in Segments' PROVE Match(A, B)
  OBVIOUS
<1>1. A \in Segments /\ B \in Segments => Match(A, B)
  BY DEF MatchInv
<1>2. A = N /\ B \in Segments => Match(A, B)
  OBVIOUS
<1>3. B = N /\ A \in Segments => Match(A, B)
  BY MatchSym
<1>4. A = N /\ B = N => Match(A, B)
  BY MatchSelf
<1> QED
  BY <1>1, <1>2, <1>3, <1>4 DEF OnlyNew

\* All rows still have a writer if those of the new segment do.
LEMMA NewWritten ==
    ASSUME MatchInv, NEW N, OnlyNew(N), elected \subseteq elected', Written(N)
    PROVE  (\A A \in Segments : Written(A))'
<1> SUFFICES ASSUME NEW A \in Segments' PROVE Written(A)'
  OBVIOUS
<1>1. Written(A)
  BY DEF OnlyNew, MatchInv
<1> QED
  BY <1>1 DEF Written

\* A node that has just won a term finds no row of it anywhere.
LEMMA NewLeaderCovers ==
    ASSUME ElectionInv', elected \subseteq elected', NEW t \in Server,
           node'[t].role = "leader",
           [term |-> node'[t].currentTerm, leader |-> t] \notin elected,
           NEW A, Written(A), NEW log
    PROVE  Covers(log, node'[t].currentTerm, A)
<1> DEFINE T == node'[t].currentTerm
<1> SUFFICES ASSUME NEW i \in DOMAIN A.rows, A.rows[i].term = T PROVE FALSE
  BY DEF Covers
<1>1. PICK e \in elected : e.term = T
  BY DEF Written
<1>2. HintInv(node'[t], t, elected')
  BY DEF ElectionInv, HintInv
<1>3. [term |-> T, leader |-> t] \in elected'
  <2>1. node'[t].leaderID = t /\ t # Nobody
    BY <1>2, RaftConstants DEF HintInv
  <2> QED
    BY <1>2, <2>1 DEF HintInv
<1>4. \A a, b \in elected' : a.term = b.term => a = b
  BY DEF ElectionInv, ElectionSafety
<1> QED
  BY <1>1, <1>3, <1>4

\* The segments of the state, with all that MatchInv says of one of them.
LEMMA SegmentFacts ==
    ASSUME TypeOK, LogInv, MatchInv, NEW A \in Segments
    PROVE  /\ \E h : Seg(A, h)
           /\ Written(A)
           /\ \A B \in Segments : Match(A, B)
           /\ \A t \in Server : node[t].role = "leader" =>
                Covers(node[t].store.log_entries, node[t].currentTerm, A)
BY SegmentShape DEF MatchInv

\* A step that changes at most the log of s and adds at most N keeps the
\* invariant, if N matches, is written, and is covered by every leader.
LEMMA KindKept ==
    ASSUME TypeOK, LogInv, MatchInv, ElectionInv', elected \subseteq elected',
           Uncompacted', NEW N, NEW h, Seg(N, h), OnlyNew(N), Written(N),
           \A B \in Segments : Match(N, B),
           \A t \in Server : node'[t].role = "leader" =>
                \/ [term |-> node'[t].currentTerm, leader |-> t] \notin elected
                \/ \A A : A \in Segments \/ A = N =>
                        Covers(node'[t].store.log_entries, node'[t].currentTerm, A)
    PROVE  MatchInv'
<1>1. (\A A, B \in Segments : Match(A, B))'
  BY NewSegment
<1>2. (\A A \in Segments : Written(A))'
  BY NewWritten
<1>3. ASSUME NEW t \in Server, node'[t].role = "leader", NEW A \in Segments'
      PROVE  Covers(node'[t].store.log_entries, node'[t].currentTerm, A)
  <2>1. Written(A) /\ (A \in Segments \/ A = N)
    BY DEF OnlyNew, MatchInv
  <2>2. CASE [term |-> node'[t].currentTerm, leader |-> t] \notin elected
    BY <1>3, <2>1, <2>2, NewLeaderCovers
  <2> QED
    BY <1>3, <2>1, <2>2
<1> QED
  BY <1>1, <1>2, <1>3 DEF MatchInv

\* The first kind changes no segment.
LEMMA LogStaysKept ==
    ASSUME TypeOK, LogInv, MatchInv, ElectionInv', elected \subseteq elected',
           NEW s \in Server, NEW m, LogStays(s, m)
    PROVE  MatchInv'
<1> DEFINE N == LogOf(m.store)
<1>1. \A t \in Server : node'[t] = IF t = s THEN m ELSE node[t]
  BY DEF LogStays, Turns, TypeOK
<1>2. m.store.log_entries = node[s].store.log_entries
  BY DEF LogStays, SameLog
<1>3. N = LogOf(node[s].store) /\ N \in Segments
  BY <1>2 DEF LogOf, Segments
<1>4. Uncompacted'
  <2>1. m.store.snapshot_index = 0 /\ m.store.snapshot_term = 0
    BY DEF LogStays, SameLog, MatchInv, Uncompacted
  <2> QED
    BY <2>1, StillUncompacted DEF LogStays, MatchInv
<1>5. OnlyNew(N)
  BY TurnSegments DEF LogStays
<1>6. ASSUME NEW t \in Server, node'[t].role = "leader"
      PROVE  \/ [term |-> node'[t].currentTerm, leader |-> t] \notin elected
             \/ \A A : A \in Segments \/ A = N =>
                    Covers(node'[t].store.log_entries, node'[t].currentTerm, A)
  <2>1. ASSUME node[t].role = "leader", node'[t].currentTerm = node[t].currentTerm,
               node'[t].store.log_entries = node[t].store.log_entries,
               NEW A, A \in Segments \/ A = N
        PROVE  Covers(node'[t].store.log_entries, node'[t].currentTerm, A)
    BY <1>3, <2>1 DEF MatchInv
  <2>2. CASE t = s
    BY <1>1, <1>2, <1>6, <2>1, <2>2 DEF LogStays
  <2>3. CASE t # s
    BY <1>1, <1>6, <2>1, <2>3
  <2> QED
    BY <2>2, <2>3
<1>7. PICK h : Seg(N, h)
  BY <1>3, SegmentFacts
<1>8. Written(N) /\ \A B \in Segments : Match(N, B)
  BY <1>3, SegmentFacts
<1> HIDE DEF N
<1> QED
  BY <1>4, <1>5, <1>6, <1>7, <1>8, KindKept

\* A part of a segment is written if the segment is, and covered if it is.
LEMMA PartFacts ==
    ASSUME NEW A, NEW P, Part(P, A)
    PROVE  /\ Written(A) => Written(P)
           /\ \A log, term : Covers(log, term, A) => Covers(log, term, P)
BY DEF Part, Written, Covers

\* The term of an index of a log that has compacted nothing.
LEMMA TermOfRow ==
    ASSUME NEW st, st.snapshot_index = 0, NEW i \in Nat
    PROVE  /\ i = 0 => TermAt(st, i) = 0
           /\ i # 0 => TermAt(st, i) = st.log_entries[i].term
           /\ HasTerm(st, i) <=> i = 0 \/ i \in DOMAIN st.log_entries
BY DEF TermAt, HasTerm

\* The request that SendAppend sends.
Request(s, p, w) ==
    [src |-> s, dst |-> p, worker |-> w, term |-> node[s].currentTerm,
     prevLogIndex |-> node[s].nextIndex[p] - 1,
     prevLogTerm  |-> TermAt(node[s].store, node[s].nextIndex[p] - 1),
     entries      |-> EntriesFrom(node[s].store, node[s].nextIndex[p],
                                  AppendBatchSize),
     leaderCommit |-> node[s].commitIndex,
     waiting      |-> TRUE]

\* A request that is sent is a part of the sender's log.
LEMMA SentPart ==
    ASSUME TypeOK, LogInv, Uncompacted, NEW s \in Server, NEW p, NEW w,
           Sends(s, p, w)
    PROVE  /\ \E h : Seg(RowsOf(Request(s, p, w)), h)
           /\ Part(RowsOf(Request(s, p, w)), LogOf(node[s].store))
           /\ LastSent(Request(s, p, w)) <= LastIndex(node[s].store)
           /\ AppendBatchSize >= LastIndex(node[s].store) =>
                LastSent(Request(s, p, w)) = LastIndex(node[s].store)
<1> DEFINE st == node[s].store
           next == node[s].nextIndex[p]
           l == LastIndex(st)
           q == Request(s, p, w)
<1>1. IsStore(st) /\ GapFree(st) /\ st.snapshot_index = 0 /\ IsNode(node[s])
  BY DEF TypeOK, IsNode, LogInv, Uncompacted
<1>2. l \in Nat /\ DOMAIN st.log_entries = 1..l
  BY <1>1, GapFreeFacts
<1>3. next \in 1..(l + 1)
  BY DEF LogInv, PeersInv, Sends, SendAppend
<1>4. next \in Nat /\ next > 0 /\ next <= l + 1 /\ next - 1 \in Nat
  BY <1>2, <1>3
<1>5. AppendBatchSize \in Nat
  BY RaftConstants
<1> HIDE DEF st, next
<1>6. PICK u \in Nat : Batch(st, next, AppendBatchSize, u)
  BY <1>1, <1>4, <1>5, EntriesFromForm
<1>7. /\ q.entries = [i \in next..u |-> st.log_entries[i]]
      /\ q.prevLogIndex = next - 1 /\ q.prevLogTerm = TermAt(st, next - 1)
      /\ u >= next - 1 /\ u <= l /\ (AppendBatchSize >= l => u = l)
  BY <1>6 DEF Batch, Request, st, next
<1> HIDE DEF q
<1>8. DOMAIN q.entries = (q.prevLogIndex + 1)..u
  BY <1>4, <1>7
<1>9. LastSent(q) = u
  BY <1>4, <1>7, <1>8, LastSentIs
<1>10. \A i \in DOMAIN q.entries : /\ i \in DOMAIN st.log_entries
                                   /\ q.entries[i] = st.log_entries[i]
  BY <1>2, <1>3, <1>7
<1>11. \/ q.prevLogIndex = 0 /\ q.prevLogTerm = 0
       \/ /\ q.prevLogIndex \in DOMAIN st.log_entries
          /\ q.prevLogTerm = st.log_entries[q.prevLogIndex].term
  <2>1. q.prevLogIndex \in Nat /\ q.prevLogIndex <= l
    BY <1>2, <1>4, <1>7
  <2>2. q.prevLogTerm = TermAt(st, q.prevLogIndex)
    BY <1>7
  <2>3. /\ q.prevLogIndex = 0 => q.prevLogTerm = 0
        /\ q.prevLogIndex # 0 =>
                q.prevLogTerm = st.log_entries[q.prevLogIndex].term
    BY <1>1, <2>1, <2>2, TermOfRow
  <2> QED
    BY <1>2, <2>1, <2>3
<1>12. Part(RowsOf(q), LogOf(st))
  BY <1>10, <1>11 DEF Part, RowsOf, LogOf
<1>13. Seg(RowsOf(q), u)
  <2>1. \A i \in DOMAIN st.log_entries : st.log_entries[i].term \in Nat
    BY <1>1 DEF IsStore, IsTable, Row
  <2>2. q.prevLogTerm \in Nat
    BY <1>11, <2>1
  <2> QED
    BY <1>4, <1>7, <1>8, <1>10, <2>1, <2>2 DEF Seg, RowsOf
<1> QED
  BY <1>7, <1>9, <1>12, <1>13 DEF q, st

\* The second kind adds a part of a log.
LEMMA SendsKept ==
    ASSUME TypeOK, LogInv, MatchInv, ElectionInv', elected \subseteq elected',
           NEW s \in Server, NEW p, NEW w, Sends(s, p, w)
    PROVE  MatchInv'
<1> DEFINE N == RowsOf(Request(s, p, w))
           C == LogOf(node[s].store)
<1>1. /\ node' = node /\ snapReqs' = snapReqs /\ snapReps' = snapReps
      /\ appendReqs' = appendReqs \cup {Request(s, p, w)}
  BY DEF Sends, SendAppend, Request, snapVars
<1>2. Uncompacted'
  BY <1>1 DEF MatchInv, Uncompacted
<1>3. OnlyNew(N)
  BY <1>1 DEF OnlyNew, Segments
<1>4. (\E h : Seg(N, h)) /\ Part(N, C)
  BY SentPart DEF MatchInv
<1>5. C \in Segments
  BY DEF Segments
<1> HIDE DEF C, N
<1>6. PICK h : Seg(N, h)
  BY <1>4
<1>7. Written(N) /\ \A B \in Segments : Match(N, B)
  BY <1>4, <1>5, <1>6, SegmentFacts, PartFacts, PartMatch
<1>8. ASSUME NEW t \in Server, node'[t].role = "leader",
             NEW A, A \in Segments \/ A = N
      PROVE  Covers(node'[t].store.log_entries, node'[t].currentTerm, A)
  BY <1>1, <1>4, <1>5, <1>8, SegmentFacts, PartFacts
<1> QED
  BY <1>2, <1>3, <1>6, <1>7, <1>8, KindKept

\* What Truncated and Merged leave, without compaction: the log up to d, and
\* then the rows of the request.
LEMMA MergedRows ==
    ASSUME NEW st, IsStore(st), GapFree(st), st.snapshot_index = 0,
           NEW q, IsAppendReq(q), InOrder(q), PrevMatches(st, q),
           Differs(st, q) # {}
    PROVE  \E d \in Nat :
              /\ MergeOf(LogOf(Merged(st, q)), LogOf(st), RowsOf(q),
                         LastIndex(st), LastSent(q), d)
              /\ Seg(LogOf(Truncated(st, q)), d - 1)
              /\ Part(LogOf(Truncated(st, q)), LogOf(st))
<1> DEFINE d == Min(Differs(st, q))
           P == q.prevLogIndex
           l == LastIndex(st)
           L == LastSent(q)
           M == Merged(st, q)
           T == Truncated(st, q)
<1>1. /\ d \in Nat /\ d \in (P + 1)..L /\ d > 0 /\ d <= l + 1
      /\ \A j \in (P + 1)..(d - 1) : j \notin Differs(st, q)
      /\ d \in Differs(st, q)
  BY FirstDifference
<1>2. /\ P \in Nat /\ P <= l /\ l \in Nat /\ L \in Nat
      /\ DOMAIN st.log_entries = 1..l /\ DOMAIN q.entries = (P + 1)..L
  BY PrevInLog, GapFreeFacts, LastSentType DEF InOrder
<1>3. /\ T.log_entries = [i \in 1..(d - 1) |-> st.log_entries[i]]
      /\ M.log_entries = [i \in 1..L |-> IF i < d THEN st.log_entries[i]
                                          ELSE q.entries[i]]
  BY MergedForm
<1>4. /\ P = 0 => q.prevLogTerm = 0
      /\ P # 0 => q.prevLogTerm = st.log_entries[P].term
  BY <1>2, TermOfRow DEF PrevMatches
<1>5. Seg(LogOf(st), l) /\ Seg(RowsOf(q), L)
  BY LogSeg, RowsSeg
<1> HIDE DEF d, T, M
<1>6. ASSUME NEW j \in (P + 1)..(d - 1)
      PROVE  st.log_entries[j].term = q.entries[j].term
  <2>1. j \in Nat /\ j # 0 /\ j \in DOMAIN q.entries /\ j > 0
    BY <1>1, <1>2
  <2>2. j \in Incoming(st, q)
    BY <2>1 DEF Incoming
  <2>3. TermAt(st, j) = q.entries[j].term
    BY <1>1, <2>2 DEF Differs
  <2> QED
    BY <2>1, <2>3, TermOfRow
<1>7. Seg(LogOf(M), L)
  <2>1. DOMAIN M.log_entries = 1..L
    BY <1>3
  <2>2. IsStore(M)
    BY MergedType DEF M
  <2>3. \A i \in DOMAIN M.log_entries : M.log_entries[i].term \in Nat
    BY <2>2 DEF IsStore, IsTable, Row
  <2> QED
    BY <1>2, <2>1, <2>3 DEF Seg, LogOf
<1>8. Seg(LogOf(T), d - 1)
  <2>1. DOMAIN T.log_entries = 1..(d - 1)
    BY <1>3
  <2>2. IsStore(T)
    BY TruncatedType DEF T
  <2>3. \A i \in DOMAIN T.log_entries : T.log_entries[i].term \in Nat
    BY <2>2 DEF IsStore, IsTable, Row
  <2>4. d - 1 \in Nat
    BY <1>1
  <2> QED
    BY <2>1, <2>3, <2>4 DEF Seg, LogOf
<1>9. Part(LogOf(T), LogOf(st))
  <2>1. \A i \in DOMAIN T.log_entries : /\ i \in DOMAIN st.log_entries
                                        /\ T.log_entries[i] = st.log_entries[i]
    BY <1>1, <1>2, <1>3
  <2> QED
    BY <2>1 DEF Part, LogOf
<1>10. MergeOf(LogOf(M), LogOf(st), RowsOf(q), l, L, d)
  <2>1. d > P /\ d <= L /\ d <= l + 1 /\ P <= l
    BY <1>1, <1>2
  <2>0. d <= l => st.log_entries[d].term # q.entries[d].term
    <3>1. d # 0 /\ d \in Nat
      BY <1>1
    <3>2. HasTerm(st, d) => TermAt(st, d) # q.entries[d].term
      BY <1>1 DEF Differs
    <3>3. /\ TermAt(st, d) = st.log_entries[d].term
          /\ d \in DOMAIN st.log_entries => HasTerm(st, d)
      BY <3>1, TermOfRow
    <3> QED
      BY <1>1, <1>2, <3>1, <3>2, <3>3
  <2>2. \A j \in 1..L : M.log_entries[j] = IF j < d THEN st.log_entries[j]
                                           ELSE q.entries[j]
    BY <1>3
  <2> HIDE DEF P, l, L
  <2>3. /\ LogOf(M).lo = 0 /\ LogOf(M).at = 0 /\ LogOf(M).rows = M.log_entries
        /\ LogOf(st).lo = 0 /\ LogOf(st).at = 0
        /\ LogOf(st).rows = st.log_entries
        /\ RowsOf(q).lo = P /\ RowsOf(q).at = q.prevLogTerm
        /\ RowsOf(q).rows = q.entries
    BY DEF LogOf, RowsOf, P
  <2> QED
    BY <1>1, <1>4, <1>5, <1>6, <1>7, <2>0, <2>1, <2>2, <2>3 DEF MergeOf, P, l, L
<1> QED
  BY <1>1, <1>8, <1>9, <1>10 DEF M, T

\* A merged log is written, and covered, if the log and the request are.
LEMMA MergeFacts ==
    ASSUME NEW M, NEW C, NEW Q, NEW c, NEW l, NEW d, MergeOf(M, C, Q, c, l, d),
           Match(C, Q)
    PROVE  /\ Written(C) /\ Written(Q) => Written(M)
           /\ \A log, term : Covers(log, term, C) /\ Covers(log, term, Q)
                                => Covers(log, term, M)
<1>1. ASSUME NEW i \in DOMAIN M.rows
      PROVE  \/ i \in DOMAIN C.rows /\ M.rows[i] = C.rows[i]
             \/ i \in DOMAIN Q.rows /\ M.rows[i] = Q.rows[i]
  <2>1. /\ Q.lo \in Nat /\ c \in Nat /\ l \in Nat /\ Q.lo <= c
        /\ DOMAIN C.rows = 1..c /\ DOMAIN Q.rows = (Q.lo + 1)..l
        /\ DOMAIN M.rows = 1..l
    BY DEF MergeOf, Seg
  <2>2. i \in 1..Q.lo \/ i \in (Q.lo + 1)..l
    BY <2>1
  <2> QED
    BY <2>1, <2>2, MergeParts
<1> QED
  BY <1>1 DEF Written, Covers

\* Request Q follows a row of log C.
Follows(C, Q, c) == /\ Q.lo <= c
                    /\ Q.lo = 0 => Q.at = 0
                    /\ Q.lo # 0 => Q.at = C.rows[Q.lo].term

\* The rows of Q are in C already, as far as terms tell.
Known(Q, C) == \A j \in DOMAIN Q.rows : /\ j \in DOMAIN C.rows
                                        /\ C.rows[j].term = Q.rows[j].term

\* The log that a follower has after the third kind: the old one, which has
\* all rows of the request; the old one up to where the request differs, with
\* no success to tell of; or the old one merged with the request.
LEMMA MergesLog ==
    ASSUME TypeOK, LogInv, Uncompacted, NEW q \in appendReqs, NEW m, NEW st,
           Merges(q, m, st)
    PROVE  LET N == LogOf(m.store)
               C == LogOf(node[q.dst].store)
           IN  /\ m.store.snapshot_index = 0 /\ m.store.snapshot_term = 0
               /\ Follows(C, RowsOf(q), LastIndex(node[q.dst].store))
               /\ \/ N = C /\ Known(RowsOf(q), C)
                  \/ /\ NoNewSuccess /\ Part(N, C)
                     /\ \E d \in Nat : \E M :
                          /\ Seg(N, d - 1)
                          /\ MergeOf(M, C, RowsOf(q), LastIndex(node[q.dst].store),
                                     LastSent(q), d)
                  \/ \E d \in Nat :
                        MergeOf(N, C, RowsOf(q), LastIndex(node[q.dst].store),
                                LastSent(q), d)
<1> DEFINE o == node[q.dst].store
<1>1. q.dst \in Server /\ IsAppendReq(q) /\ InOrder(q)
  BY DEF TypeOK, IsAppendReq, LogInv, AppendReqInv, InOrder
<1>2. IsStore(o) /\ GapFree(o) /\ o.snapshot_index = 0 /\ o.snapshot_term = 0
  BY <1>1 DEF TypeOK, IsNode, LogInv, Uncompacted
<1>3. IsStore(st) /\ SameLog(o, st) /\ PrevMatches(st, q)
  BY DEF Merges
<1>4. PICK b \in {Truncated(st, q), Merged(st, q)} :
            SameLog(b, m.store) /\ (NoNewSuccess \/ b = Merged(st, q))
  <2>1. \/ SameLog(Truncated(st, q), m.store) /\ NoNewSuccess
        \/ SameLog(Merged(st, q), m.store)
    BY DEF Merges
  <2> QED
    BY <2>1
<1> HIDE DEF o
<1>5. /\ st.snapshot_index = 0 /\ st.snapshot_term = 0 /\ LogOf(st) = LogOf(o)
      /\ LastIndex(st) = LastIndex(o) /\ GapFree(st)
  BY <1>2, <1>3 DEF SameLog, GapFree, LastIndex, LogOf
<1>6. /\ b.snapshot_index = 0 /\ b.snapshot_term = 0
      /\ Differs(st, q) = {} => b.log_entries = st.log_entries
  <2>1. /\ Truncated(st, q).snapshot_index = 0
        /\ Truncated(st, q).snapshot_term = 0
        /\ Merged(st, q).snapshot_index = 0
        /\ Merged(st, q).snapshot_term = 0
    BY <1>1, <1>3, <1>5, MergedForm
  <2>2. Differs(st, q) = {} =>
            /\ Truncated(st, q).log_entries = st.log_entries
            /\ Merged(st, q).log_entries = st.log_entries
    BY <1>1, <1>3, <1>5, MergedForm
  <2> QED
    BY <2>1, <2>2
<1>7. LogOf(m.store) = LogOf(b)
  BY <1>4 DEF SameLog, LogOf
<1>8. m.store.snapshot_index = 0 /\ m.store.snapshot_term = 0
  BY <1>4, <1>6 DEF SameLog
<1>11. Follows(LogOf(o), RowsOf(q), LastIndex(o))
  <2>1. q.prevLogIndex \in Nat /\ q.prevLogIndex <= LastIndex(st)
    BY <1>1, <1>3, <1>5, PrevInLog
  <2>2. /\ q.prevLogIndex = 0 => q.prevLogTerm = 0
        /\ q.prevLogIndex # 0 =>
                q.prevLogTerm = st.log_entries[q.prevLogIndex].term
    BY <1>3, <1>5, <2>1, TermOfRow DEF PrevMatches
  <2>3. LogOf(o).rows = st.log_entries
    BY <1>3 DEF LogOf, SameLog
  <2> QED
    BY <1>5, <2>1, <2>2, <2>3 DEF Follows, RowsOf
<1>9. CASE Differs(st, q) = {}
  <2>1. ASSUME NEW j \in DOMAIN q.entries
        PROVE  j \in DOMAIN st.log_entries
               /\ st.log_entries[j].term = q.entries[j].term
    <3>1. j \in Nat /\ j # 0 /\ j > 0
      <4>1. /\ DOMAIN q.entries = (q.prevLogIndex + 1)..LastSent(q)
            /\ q.prevLogIndex \in Nat /\ LastSent(q) \in Nat
        BY <1>1, LastSentType DEF InOrder, IsAppendReq, Index
      <4> QED
        BY <4>1
    <3>2. HasTerm(st, j) /\ TermAt(st, j) = q.entries[j].term
      BY <1>5, <1>9, <3>1 DEF Differs, Incoming
    <3> QED
      BY <1>5, <3>1, <3>2, TermOfRow
  <2>2. Known(RowsOf(q), LogOf(o))
    BY <1>5, <2>1 DEF Known, RowsOf, LogOf
  <2> QED
    BY <1>5, <1>6, <1>7, <1>8, <1>9, <1>11, <2>2 DEF LogOf, o
<1>10. CASE Differs(st, q) # {}
  <2>1. PICK d \in Nat :
              /\ MergeOf(LogOf(Merged(st, q)), LogOf(st), RowsOf(q),
                         LastIndex(st), LastSent(q), d)
              /\ Seg(LogOf(Truncated(st, q)), d - 1)
              /\ Part(LogOf(Truncated(st, q)), LogOf(st))
    BY <1>1, <1>3, <1>5, <1>10, MergedRows
  <2>2. CASE b = Merged(st, q)
    BY <1>5, <1>7, <1>8, <1>11, <2>1, <2>2 DEF o
  <2>3. CASE b = Truncated(st, q)
    <3>1. CASE NoNewSuccess
      BY <1>5, <1>7, <1>8, <1>11, <2>1, <2>3, <3>1 DEF o
    <3>2. CASE b = Merged(st, q)
      BY <2>2, <3>2
    <3> QED
      BY <1>4, <3>1, <3>2
  <2> QED
    BY <1>4, <2>2, <2>3
<1> QED
  BY <1>9, <1>10

\* The third kind replaces a log by a part of it, or by a merger.
LEMMA MergesKept ==
    ASSUME TypeOK, LogInv, MatchInv, ElectionInv', elected \subseteq elected',
           NEW q \in appendReqs, NEW m, NEW st, Merges(q, m, st)
    PROVE  MatchInv'
<1> DEFINE N == LogOf(m.store)
           C == LogOf(node[q.dst].store)
           Q == RowsOf(q)
           c == LastIndex(node[q.dst].store)
           l == LastSent(q)
<1>1. q.dst \in Server
  BY DEF TypeOK, IsAppendReq
<1>2. /\ m.store.snapshot_index = 0 /\ m.store.snapshot_term = 0
      /\ \/ N = C
         \/ Part(N, C) /\ \E d \in Nat : Seg(N, d - 1)
         \/ \E d \in Nat : MergeOf(N, C, Q, c, l, d)
  BY MergesLog DEF MatchInv
<1>3. Uncompacted' /\ OnlyNew(N)
  BY <1>1, <1>2, StillUncompacted, TurnSegments DEF Merges, MatchInv
<1>4. \A t \in Server : node'[t] = IF t = q.dst THEN m ELSE node[t]
  BY <1>1 DEF Merges, Turns, TypeOK
<1>5. C \in Segments /\ Q \in Segments
  BY <1>1 DEF Segments
<1> HIDE DEF C, N, Q, c, l
<1>6. ASSUME NEW h, Seg(N, h), Written(N), \A B \in Segments : Match(N, B),
             \A log, term : Covers(log, term, C) /\ Covers(log, term, Q)
                                => Covers(log, term, N)
      PROVE  MatchInv'
  <2>1. ASSUME NEW t \in Server, node'[t].role = "leader",
               NEW A, A \in Segments \/ A = N
        PROVE  Covers(node'[t].store.log_entries, node'[t].currentTerm, A)
    <3>1. t # q.dst
      BY <1>4, <2>1 DEF Merges
    <3>2. node'[t] = node[t]
      BY <1>4, <3>1
    <3> QED
      BY <1>5, <1>6, <2>1, <3>2, SegmentFacts
  <2> QED
    BY <1>3, <1>6, <2>1, KindKept
<1>7. CASE N = C
  <2>1. PICK h : Seg(N, h)
    BY <1>5, <1>7, SegmentFacts
  <2> QED
    BY <1>5, <1>6, <1>7, <2>1, SegmentFacts
<1>8. CASE Part(N, C) /\ \E d \in Nat : Seg(N, d - 1)
  <2>1. PICK h : Seg(N, h)
    BY <1>8
  <2> QED
    BY <1>5, <1>6, <1>8, <2>1, SegmentFacts, PartFacts, PartMatch
<1>9. ASSUME NEW d \in Nat, MergeOf(N, C, Q, c, l, d)
      PROVE  MatchInv'
  <2>1. Seg(N, l)
    BY <1>9 DEF MergeOf
  <2>2. Match(C, Q) /\ Written(C) /\ Written(Q)
    BY <1>5, SegmentFacts
  <2>3. ASSUME NEW B \in Segments PROVE Match(N, B)
    <3>1. PICK b : Seg(B, b)
      BY SegmentFacts
    <3>2. Match(C, B) /\ Match(Q, B)
      BY <1>5, SegmentFacts
    <3> QED
      BY <1>9, <2>2, <3>1, <3>2, MergeMatch
  <2> QED
    BY <1>6, <1>9, <2>1, <2>2, <2>3, MergeFacts
<1> QED
  BY <1>2, <1>7, <1>8, <1>9

\* The log that a leader has after the fourth kind: the old one and the row.
LEMMA AppendsLog ==
    ASSUME TypeOK, LogInv, Uncompacted, NEW s \in Server, NEW m, NEW row,
           Appends(s, m, row)
    PROVE  LET N == LogOf(m.store)
               C == LogOf(node[s].store)
               l == LastIndex(node[s].store)
           IN  /\ m.store.snapshot_index = 0 /\ m.store.snapshot_term = 0
               /\ AppendOf(N, C, l, row)
               /\ DOMAIN N.rows = 1..(l + 1) /\ N.rows[l + 1] = row
               /\ \A j \in 1..l : j # l + 1 /\ N.rows[j] = C.rows[j]
<1> DEFINE o == node[s].store
           C == LogOf(o)
           N == LogOf(m.store)
           l == LastIndex(o)
           B0 == AppendEntries(o, [j \in {l + 1} |-> row])
<1>1. row \in Row /\ l + 1 <= MaxIndex /\ SameLog(B0, m.store)
  BY DEF Appends
<1>2. /\ IsStore(o) /\ GapFree(o) /\ o.snapshot_index = 0 /\ o.snapshot_term = 0
  BY DEF TypeOK, IsNode, LogInv, Uncompacted
<1>3. l \in Nat /\ DOMAIN o.log_entries = 1..l
  BY <1>2, GapFreeFacts
<1>4. /\ m.store.snapshot_index = 0 /\ m.store.snapshot_term = 0
      /\ m.store.log_entries = [j \in 1..(l + 1) |->
                                    IF j = l + 1 THEN row ELSE o.log_entries[j]]
  <2>1. /\ B0.snapshot_index = 0 /\ B0.snapshot_term = 0
        /\ B0.log_entries = [j \in 1..(l + 1) |->
                                IF j = l + 1 THEN row ELSE o.log_entries[j]]
    <3> HIDE DEF o
    <3>1. /\ B0.snapshot_index = o.snapshot_index
          /\ B0.snapshot_term = o.snapshot_term
          /\ B0.log_entries = [j \in (o.snapshot_index + 1)..(l + 1) |->
                                IF j = l + 1 THEN row ELSE o.log_entries[j]]
      <4>1. IsStore(o) /\ GapFree(o) /\ LastIndex(o) + 1 <= MaxIndex /\ row \in Row
        BY <1>1, <1>2
      <4> QED
        BY <4>1, WrittenGapFree
    <3>2. o.snapshot_index + 1 = 1
      BY <1>2
    <3> HIDE DEF B0, l
    <3> QED
      BY <1>2, <3>1, <3>2
  <2> HIDE DEF B0, o
  <2> QED
    BY <1>1, <2>1 DEF SameLog
<1>5. Seg(C, l)
  BY <1>2, LogSeg
<1> HIDE DEF o, l, B0
<1>6. /\ DOMAIN N.rows = 1..(l + 1) /\ N.rows[l + 1] = row
      /\ N.lo = 0 /\ N.at = 0 /\ C.lo = 0 /\ C.at = 0
      /\ \A j \in 1..l : j # l + 1 /\ N.rows[j] = C.rows[j]
  BY <1>3, <1>4 DEF LogOf
<1>7. row.term \in Nat
  BY <1>1 DEF Row
<1> HIDE DEF C, N
<1>8. Seg(N, l + 1)
  <2>1. \A j \in 1..l : N.rows[j].term \in Nat
    BY <1>3, <1>5, <1>6 DEF Seg
  <2> QED
    BY <1>3, <1>6, <1>7, <2>1 DEF Seg
<1>9. AppendOf(N, C, l, row)
  BY <1>3, <1>5, <1>6, <1>8 DEF AppendOf
<1> QED
  BY <1>4, <1>6, <1>9 DEF N, C, l, o

\* The fourth kind adds a row that nobody else has: the leader covers all
\* rows of its term, and leads it alone.
LEMMA AppendsKept ==
    ASSUME TypeOK, ElectionInv, LogInv, MatchInv, ElectionInv',
           elected \subseteq elected', NEW s \in Server, NEW m, NEW row,
           Appends(s, m, row)
    PROVE  MatchInv'
<1> DEFINE o == node[s].store
           C == LogOf(o)
           N == LogOf(m.store)
           l == LastIndex(o)
           T == node[s].currentTerm
<1>1. /\ node[s].role = "leader" /\ m.role = "leader" /\ m.currentTerm = T
      /\ row.term = T /\ row \in Row /\ Turns(s, m)
  BY DEF Appends
<1>2. /\ IsStore(o) /\ GapFree(o) /\ o.snapshot_index = 0 /\ o.snapshot_term = 0
  BY DEF TypeOK, IsNode, LogInv, MatchInv, Uncompacted
<1>3. l \in Nat /\ DOMAIN o.log_entries = 1..l
  BY <1>2, GapFreeFacts
<1>4. /\ m.store.snapshot_index = 0 /\ m.store.snapshot_term = 0
      /\ AppendOf(N, C, l, row)
      /\ DOMAIN N.rows = 1..(l + 1) /\ N.rows[l + 1] = row
      /\ \A j \in 1..l : j # l + 1 /\ N.rows[j] = C.rows[j]
  BY AppendsLog DEF MatchInv
<1>5. Seg(C, l) /\ C \in Segments
  BY <1>2, LogSeg DEF Segments
<1>6. Uncompacted' /\ OnlyNew(N)
  BY <1>1, <1>4, StillUncompacted, TurnSegments DEF MatchInv
<1>7. \A t \in Server : node'[t] = IF t = s THEN m ELSE node[t]
  BY <1>1 DEF Turns, TypeOK
<1>8. T \in Nat /\ [term |-> T, leader |-> s] \in elected
  <2>1. HintInv(node[s], s, elected) /\ s # Nobody /\ IsNode(node[s])
    BY NodeFacts, RaftConstants
  <2> QED
    BY <1>1, <2>1 DEF HintInv, IsNode
<1> HIDE DEF o, l, T
<1>9. /\ DOMAIN N.rows = 1..(l + 1) /\ N.rows[l + 1] = row
      /\ DOMAIN C.rows = 1..l
      /\ \A j \in 1..l : j # l + 1 /\ N.rows[j] = C.rows[j]
      /\ C.rows = o.log_entries /\ N.rows = m.store.log_entries
  BY <1>3, <1>4 DEF LogOf
<1> HIDE DEF C, N
<1>10. AppendOf(N, C, l, row)
  BY <1>4 DEF N, C, l, o
<1>11. ASSUME NEW B \in Segments PROVE Match(N, B)
  <2>1. PICK b : Seg(B, b)
    BY SegmentFacts
  <2>2. Match(C, B)
    BY <1>5, SegmentFacts
  <2>3. Covers(C.rows, T, B)
    BY <1>1, <1>9, SegmentFacts DEF o, T
  <2>4. l + 1 \in DOMAIN B.rows => B.rows[l + 1].term # row.term
    BY <1>1, <1>3, <1>9, <2>3 DEF Covers
  <2> QED
    BY <1>10, <2>1, <2>2, <2>4, AppendMatch
<1>12. Written(N)
  <2>1. Written(C)
    BY <1>5, SegmentFacts
  <2>2. ASSUME NEW i \in DOMAIN N.rows
        PROVE  \E e \in elected : e.term = N.rows[i].term
    <3>1. CASE i = l + 1
      BY <1>1, <1>8, <1>9, <3>1
    <3>2. CASE i # l + 1
      <4>1. i \in 1..l
        BY <1>3, <1>9, <3>2
      <4> QED
        BY <1>9, <2>1, <4>1 DEF Written
    <3> QED
      BY <3>1, <3>2
  <2> QED
    BY <2>2 DEF Written
<1>13. ASSUME NEW t \in Server, node'[t].role = "leader",
              NEW A, A \in Segments \/ A = N
       PROVE  Covers(node'[t].store.log_entries, node'[t].currentTerm, A)
  <2>1. CASE t = s
    <3>1. node'[t].store.log_entries = N.rows /\ node'[t].currentTerm = T
      BY <1>1, <1>7, <1>9, <2>1
    <3>2. CASE A = N
      BY <3>1, <3>2 DEF Covers
    <3>3. CASE A \in Segments
      <4>1. Covers(C.rows, T, A)
        BY <1>1, <1>9, <3>3, SegmentFacts DEF o, T
      <4>2. \A i \in DOMAIN C.rows : i \in DOMAIN N.rows /\ N.rows[i] = C.rows[i]
        BY <1>3, <1>9
      <4> QED
        BY <3>1, <4>1, <4>2 DEF Covers
    <3> QED
      BY <1>13, <3>2, <3>3
  <2>2. CASE t # s
    <3>1. node'[t] = node[t] /\ node[t].role = "leader"
      BY <1>7, <1>13, <2>2
    <3>2. [term |-> node[t].currentTerm, leader |-> t] \in elected
      <4>1. HintInv(node[t], t, elected) /\ t # Nobody
        BY NodeFacts, RaftConstants
      <4> QED
        BY <3>1, <4>1 DEF HintInv
    <3>3. node[t].currentTerm # T
      BY <1>8, <2>2, <3>2 DEF ElectionInv, ElectionSafety
    <3>4. Covers(node[t].store.log_entries, node[t].currentTerm, C)
      BY <1>5, <3>1, SegmentFacts
    <3>5. CASE A = N
      <4>1. \A i \in DOMAIN N.rows : N.rows[i].term = node[t].currentTerm =>
                i \in 1..l
        BY <1>1, <1>3, <1>9, <3>3
      <4> QED
        BY <1>9, <3>1, <3>4, <3>5, <4>1 DEF Covers
    <3>6. CASE A \in Segments
      BY <3>1, <3>6, SegmentFacts
    <3> QED
      BY <1>13, <3>5, <3>6
  <2> QED
    BY <2>1, <2>2
<1>14. Seg(N, l + 1)
  BY <1>10 DEF AppendOf
<1> QED
  BY <1>6, <1>11, <1>12, <1>13, <1>14, KindKept

\* Nothing is compacted, sent or written at first.
LEMMA InitMatching == Init => MatchInv
<1> SUFFICES ASSUME Init PROVE MatchInv
  OBVIOUS
<1>1. /\ \A s \in Server : /\ node[s].store = FreshStore
                           /\ node[s].role = "follower"
      /\ appendReqs = {} /\ snapReqs = {} /\ snapReps = {}
  BY DEF Init
<1>2. FreshStore.snapshot_index = 0 /\ FreshStore.snapshot_term = 0
      /\ DOMAIN FreshStore.log_entries = {}
  BY DEF FreshStore
<1>3. \A A \in Segments : DOMAIN A.rows = {}
  BY <1>1, <1>2 DEF Segments, LogOf
<1>4. Uncompacted
  BY <1>1, <1>2 DEF Uncompacted
<1>5. \A A, B \in Segments : Match(A, B)
  BY <1>3 DEF Match, Common
<1>6. \A A \in Segments : Written(A)
  BY <1>3 DEF Written
<1> QED
  BY <1>1, <1>4, <1>5, <1>6 DEF MatchInv

\* MatchInv is inductive, relative to what elections and logs keep.
LEMMA StepMatching ==
    NoCompaction /\ TypeOK /\ ElectionInv /\ LogInv /\ MatchInv /\ [Next]_vars
        => MatchInv'
<1> SUFFICES ASSUME NoCompaction, TypeOK, ElectionInv, LogInv, MatchInv,
                    [Next]_vars
             PROVE  MatchInv'
  OBVIOUS
<1>1. RowStep
  BY StepRows DEF MatchInv
<1>2. ElectionInv' /\ elected \subseteq elected'
  BY StepInv, ElectedGrows DEF StepKept
<1> QED
  BY <1>1, <1>2, LogStaysKept, SendsKept, MergesKept, AppendsKept DEF RowStep

----------------------------------------------------------------------------
(* The theorems                                                            *)

\* All that is known of a cluster that compacts nothing.
MatchingInv == TypeOK /\ ElectionInv /\ LogInv /\ MatchInv

\* Logs and the requests in flight match each other, in every cluster whose
\* nodes do not compact their logs.
THEOREM MatchInvariant == NoCompaction => (Spec => []MatchingInv)
<1> SUFFICES ASSUME NoCompaction PROVE Spec => []MatchingInv
  OBVIOUS
<1>1. Init => MatchInv
  BY InitMatching
<1>2. TypeOK /\ ElectionInv /\ LogInv /\ MatchInv /\ [Next]_vars => MatchInv'
  BY StepMatching
<1> QED
  BY <1>1, <1>2, LogInvariant, PTL DEF Spec, MatchingInv

\* Two logs that have a row of the same index and term are the same up to that
\* index (the previous-entry check of AppendEntries), whatever batches, late
\* requests, elections, failed transactions and restarts come, in every
\* cluster whose nodes do not compact their logs.
THEOREM LogsMatch == NoCompaction => (Spec => []LogMatching)
<1> SUFFICES ASSUME NoCompaction PROVE Spec => []LogMatching
  OBVIOUS
<1>1. MatchingInv => LogMatching
  <2> SUFFICES ASSUME MatchInv, NEW s \in Server, NEW t \in Server PROVE
            Match(LogOf(node[s].store), LogOf(node[t].store)) =>
                LET a == node[s].store.log_entries
                    b == node[t].store.log_entries
                IN  \A i \in DOMAIN a \cap DOMAIN b :
                      a[i].term = b[i].term =>
                        \A j \in DOMAIN a \cap DOMAIN b : j <= i => a[j] = b[j]
    BY DEF MatchingInv, MatchInv, LogMatching, Segments
  <2> QED
    BY DEF Match, SameUpTo, Common, LogOf
<1>2. Spec => []MatchingInv
  BY MatchInvariant
<1> QED
  BY <1>1, <1>2, PTL
=============================================================================
