--------------------------- MODULE RaftAckProofs ---------------------------
(***************************************************************************)
(* A leader never believes more of a peer's log than is there              *)
(* (MatchIndexHonest), for every cluster that compacts no logs and whose   *)
(* SaveTermVote does not fail.  (When it does, a node that restarts falls  *)
(* back to an earlier term, takes rows of an earlier leader again, and may *)
(* lose rows that it has acknowledged: run `lostterm'.)                    *)
(*                                                                         *)
(* The inductive invariant AckInv follows an acknowledgement from the      *)
(* follower's log to the answer and from there to the leader's matchIndex: *)
(* what was acknowledged in a term stays in the follower's log for as long *)
(* as the follower stays in that term.                                     *)
(***************************************************************************)
EXTENDS RaftMatchingProofs

\* No store loses a term or a vote.
NoLostTerm == "SaveTermVote" \notin Fault

----------------------------------------------------------------------------
(* The inductive invariant                                                 *)

\* The term in memory is the one on disk.
InTerm(n) == n.store.current_term = n.currentTerm

\* Log b has the rows of log a up to i.
Agree(a, b, i) == \A j \in DOMAIN a : j <= i => j \in DOMAIN b /\ b[j] = a[j]

\* p took the rows of s up to i in term: it has been in that term, and while
\* it is, and s leads, it has them.
Reached(s, p, term, i) ==
    /\ node[p].currentTerm >= term
    /\ Leads(s, term) /\ node[p].currentTerm = term =>
            Agree(node[s].store.log_entries, node[p].store.log_entries, i)

AckInv ==
    /\ \A s \in Server : InTerm(node[s])
    /\ \A q \in appendReqs : Leads(q.src, q.term) =>
            Part(RowsOf(q), LogOf(node[q.src].store))
    /\ \A r \in appendReps : r.success =>
            Reached(r.src, r.dst, r.term, r.lastSent)
    /\ \A s \in Server : node[s].role = "leader" => \A p \in Peers(s) :
            \/ node[s].matchIndex[p] = 0
            \/ Reached(s, p, node[s].currentTerm, node[s].matchIndex[p])

----------------------------------------------------------------------------
(* Terms                                                                   *)

\* Leaving the term and its copy on disk alone keeps them the same; so does
LEMMA SameInTerm ==
    ASSUME NEW n, NEW m, Same(n, m), InTerm(n)
    PROVE  InTerm(m)
BY DEF Same, SameVote, InTerm

\* ... stepping down,
LEMMA StepDownInTerm ==
    ASSUME NEW n, IsNode(n), InTerm(n), NEW term, NEW leader, NEW f,
           f.method # "SaveTermVote"
    PROVE  InTerm(stepDownLocked(n, term, leader, f))
<1> DEFINE st == IF term > n.currentTerm /\ f.method # "SaveTermVote"
                 THEN SaveTermVote(n.store, term, Nobody) ELSE n.store
           t == IF term > n.currentTerm THEN term ELSE n.currentTerm
           m == stepDownLocked(n, term, leader, f)
<1>1. st.current_term = t
  BY DEF IsNode, IsStore, SaveTermVote, InTerm
<1>2. m.store = st /\ m.currentTerm = t
  BY DEF IsNode, stepDownLocked
<1> HIDE DEF st, m, t
<1> QED
  BY <1>1, <1>2 DEF InTerm, m

\* ... seeing a candidate's request,
LEMMA SeenByVoterInTerm ==
    ASSUME NEW n, IsNode(n), InTerm(n), NEW q, NEW f, f.method # "SaveTermVote"
    PROVE  InTerm(SeenByVoter(n, q, f))
BY StepDownInTerm DEF SeenByVoter

\* ... seeing a leader's,
LEMMA SeenByFollowerInTerm ==
    ASSUME NEW n, IsNode(n), InTerm(n), NEW q, q.src \in Server, q.term \in Nat,
           NEW f, f.method # "SaveTermVote"
    PROVE  InTerm(SeenByFollower(n, q, f))
<1> DEFINE k == stepDownLocked(n, q.term, q.src, f)
           m == IF q.term > n.currentTerm \/ n.role # "follower" THEN k ELSE n
<1>1. IsNode(k)
  BY StepDownType DEF Ids
<1>2. InTerm(k)
  BY StepDownInTerm
<1>3. IsNode(m) /\ InTerm(m)
  BY <1>1, <1>2
<1> HIDE DEF m
<1>4. SeenByFollower(n, q, f) = [m EXCEPT !.leaderID = q.src]
  BY DEF SeenByFollower, m
<1>5. LET x == [m EXCEPT !.leaderID = q.src]
      IN  x.currentTerm = m.currentTerm /\ x.store = m.store
  BY <1>3 DEF IsNode
<1> QED
  BY <1>3, <1>4, <1>5 DEF InTerm

\* ... saving a vote in the current term, or losing one,
LEMMA VoteInTerm ==
    ASSUME NEW n, IsNode(n), NEW v, NEW w, NEW u
    PROVE  /\ InTerm([n EXCEPT !.votedFor = v,
                               !.store = SaveTermVote(@, n.currentTerm, w)])
           /\ InTerm([n EXCEPT !.votes = u,
                               !.store = SaveTermVote(@, n.currentTerm, w)])
           /\ InTerm(n) => InTerm([n EXCEPT !.votedFor = v])
           /\ InTerm(n) => InTerm([n EXCEPT !.votes = u])
<1> DEFINE st == SaveTermVote(n.store, n.currentTerm, w)
<1>1. st.current_term = n.currentTerm
  BY DEF IsNode, IsStore, SaveTermVote
<1> HIDE DEF st
<1>2. /\ InTerm([n EXCEPT !.votedFor = v, !.store = st])
      /\ InTerm([n EXCEPT !.votes = u, !.store = st])
  BY <1>1 DEF InTerm, IsNode
<1>3. /\ InTerm(n) => InTerm([n EXCEPT !.votedFor = v])
      /\ InTerm(n) => InTerm([n EXCEPT !.votes = u])
  BY DEF InTerm, IsNode
<1> QED
  BY <1>2, <1>3 DEF st

\* ... and all that only concerns the log.
LEMMA StoreInTerm ==
    ASSUME NEW n, IsNode(n), InTerm(n), NEW st, SameVote(n.store, st)
    PROVE  InTerm([n EXCEPT !.store = st])
BY DEF InTerm, IsNode, SameVote

AllInTerm == \A s \in Server : InTerm(node[s])

\* A step turns one node into another.
LEMMA TurnInTerm ==
    ASSUME TypeOK, AllInTerm, NEW s \in Server, NEW m, InTerm(m),
           node' = [node EXCEPT ![s] = m]
    PROVE  AllInTerm'
<1>1. \A t \in Server : node'[t] = IF t = s THEN m ELSE node[t]
  BY DEF TypeOK
<1> QED
  BY <1>1 DEF AllInTerm

\* Elections save every term they raise.
LEMMA ElectionInTerm ==
    ASSUME NoLostTerm, TypeOK, AllInTerm, ElectionStep
    PROVE  AllInTerm'
<1>1. ASSUME NEW f \in Faults PROVE f.method # "SaveTermVote"
  BY DEF NoLostTerm, Faults, NoFault
<1>2. NoFault \in Faults
  BY DEF Faults
<1>3. \A s \in Server : IsNode(node[s]) /\ InTerm(node[s])
  BY DEF TypeOK, AllInTerm
<1>4. CASE node' = node
  BY <1>4 DEF AllInTerm
<1>5. ASSUME NEW s \in Server, StartElection(s)
      PROVE  AllInTerm'
  <2> DEFINE n == Campaign(node[s], s)
             m == [n EXCEPT !.votes = {s},
                            !.store = SaveTermVote(@, n.currentTerm, s)]
  <2>1. node' = [node EXCEPT ![s] = m]
    BY <1>5 DEF StartElection
  <2>2. IsNode(n)
    BY <1>3, CampaignType
  <2> HIDE DEF n
  <2>3. InTerm(m)
    BY <2>2, VoteInTerm
  <2> HIDE DEF m
  <2> QED
    BY <2>1, <2>3, TurnInTerm
<1>6. ASSUME NEW s \in Server, NEW f \in Faults, StartElectionError(s, f)
      PROVE  AllInTerm'
  <2> DEFINE n == Campaign(node[s], s)
             m == [n EXCEPT !.votes = {},
                            !.store = SaveTermVote(@, n.currentTerm, s)]
  <2>1. node' = [node EXCEPT ![s] = m]
    BY <1>1, <1>6 DEF StartElectionError
  <2>2. IsNode(n)
    BY <1>3, CampaignType
  <2> HIDE DEF n
  <2>3. InTerm(m)
    BY <2>2, VoteInTerm
  <2> HIDE DEF m
  <2> QED
    BY <2>1, <2>3, TurnInTerm
<1>7. ASSUME NEW s \in Server, NEW n, IsNode(n), InTerm(n), NEW f
      PROVE  InTerm(becomeLeaderLocked(n, s, f))
  BY <1>7 DEF becomeLeaderLocked, IsNode, InTerm
<1>8. ASSUME NEW s \in Server, WinAlone(s)
      PROVE  AllInTerm'
  BY <1>3, <1>7, <1>8, TurnInTerm DEF WinAlone
<1>9. ASSUME NEW q \in voteReqs, NEW f, f.method # "SaveTermVote"
      PROVE  LET n == SeenByVoter(node[q.dst], q, f)
             IN  q.dst \in Server /\ IsNode(n) /\ InTerm(n)
  <2>1. q.src \in Server /\ q.dst \in Server /\ q.term \in Nat
    BY DEF TypeOK, VoteReqs
  <2> QED
    BY <1>3, <1>9, <2>1, SeenByVoterType, SeenByVoterInTerm
<1>10. ASSUME NEW q \in voteReqs, RequestVoteGranted(q)
       PROVE  AllInTerm'
  <2> DEFINE n == SeenByVoter(node[q.dst], q, NoFault)
             m == [n EXCEPT !.votedFor = q.src,
                            !.store = SaveTermVote(@, n.currentTerm, q.src)]
  <2>1. node' = [node EXCEPT ![q.dst] = m]
    BY <1>10 DEF RequestVoteGranted
  <2>2. IsNode(n) /\ q.dst \in Server
    BY <1>9 DEF NoFault
  <2> HIDE DEF n
  <2>3. InTerm(m)
    BY <2>2, VoteInTerm
  <2> HIDE DEF m
  <2> QED
    BY <2>1, <2>2, <2>3, TurnInTerm
<1>11. ASSUME NEW q \in voteReqs, NEW f \in Faults, RequestVoteRejected(q, f)
       PROVE  AllInTerm'
  BY <1>1, <1>9, <1>11, TurnInTerm DEF RequestVoteRejected
<1>12. ASSUME NEW q \in voteReqs, NEW f \in Faults, RequestVoteError(q, f)
       PROVE  AllInTerm'
  <2>1. PICK g \in Faults :
            node' = [node EXCEPT ![q.dst] = SeenByVoter(node[q.dst], q, g)]
    BY <1>1, <1>2, <1>12 DEF RequestVoteError
  <2> QED
    BY <1>1, <1>9, <2>1, TurnInTerm
<1>13. ASSUME NEW r \in voteReps, NEW f \in Faults, VoteReplyStepDown(r, f)
       PROVE  AllInTerm'
  <2>1. r.src \in Server
    BY DEF TypeOK, VoteReps
  <2> QED
    BY <1>1, <1>3, <1>13, <2>1, StepDownInTerm, TurnInTerm DEF VoteReplyStepDown
<1>14. ASSUME NEW r \in voteReps, NEW f \in Faults, VoteReplyCounted(r, f)
       PROVE  AllInTerm'
  <2> DEFINE s == r.src
             n == [node[s] EXCEPT !.votes = @ \cup {r.dst}]
             won == Cardinality(n.votes) >= Majority
             m == IF won THEN becomeLeaderLocked(n, s, f) ELSE n
  <2>1. s \in Server /\ r.dst \in Server
    BY DEF TypeOK, VoteReps
  <2>2. node' = [node EXCEPT ![s] = m]
    BY <1>14 DEF VoteReplyCounted
  <2>3. IsNode(node[s]) /\ InTerm(node[s])
    BY <1>3, <2>1
  <2>4. IsNode(n) /\ InTerm(n)
    <3> HIDE DEF s
    <3> QED
      BY <2>1, <2>3 DEF IsNode, InTerm
  <2> HIDE DEF n, won, s
  <2>5. InTerm(m)
    BY <1>7, <2>1, <2>4
  <2> HIDE DEF m
  <2> QED
    BY <2>1, <2>2, <2>5, TurnInTerm
<1> QED
  BY <1>4, <1>5, <1>6, <1>8, <1>10, <1>11, <1>12, <1>13, <1>14
     DEF ElectionStep, RequestVoteStale

\* So do leaders
LEMMA LeaderInTerm ==
    ASSUME NoLostTerm, TypeOK, Uncompacted, AllInTerm, LeaderStep
    PROVE  AllInTerm'
<1>1. ASSUME NEW f \in Faults PROVE f.method # "SaveTermVote"
  BY DEF NoLostTerm, Faults, NoFault
<1>2. \A s \in Server : IsNode(node[s]) /\ InTerm(node[s])
  BY DEF TypeOK, AllInTerm
<1>3. ASSUME NEW r \in appendReps PROVE r.src \in Server /\ r.dst \in Server
  BY DEF TypeOK, AppendReps
<1>4. CASE node' = node
  BY <1>4 DEF AllInTerm
<1>5. ASSUME NEW r \in appendReps, NEW f \in Faults, AppendReplyStepDown(r, f)
      PROVE  AllInTerm'
  BY <1>1, <1>2, <1>3, <1>5, StepDownInTerm, TurnInTerm DEF AppendReplyStepDown
<1>6. ASSUME NEW r \in appendReps, NEW f \in Faults, AppendReplySuccess(r, f)
      PROVE  AllInTerm'
  <2> DEFINE s == r.src
             match == Max({r.matchIndex, r.lastSent, node[s].matchIndex[r.dst]})
             k == Learnt(node[s], r.dst, match)
             m == advanceCommitLocked(k, s, f)
  <2>1. node' = [node EXCEPT ![s] = m]
    BY <1>6 DEF AppendReplySuccess, Learnt
  <2>2. IsNode(k) /\ s \in Server
    BY <1>2, <1>3, MatchedNodeType DEF TypeOK, Learnt
  <2> HIDE DEF match
  <2>3. InTerm(k)
    BY <1>2, <1>3, LearntCalm DEF InTerm
  <2> HIDE DEF k
  <2>4. InTerm(m)
    BY <2>2, <2>3, AdvanceSame, SameInTerm
  <2> HIDE DEF m, s
  <2> QED
    BY <2>1, <2>2, <2>4, TurnInTerm
<1>7. ASSUME NEW r \in appendReps, AppendReplyFailure(r)
      PROVE  AllInTerm'
  <2> DEFINE s == r.src
             n == node[s]
             x == n.nextIndex[r.dst]
             y == IF x > 1 THEN x - 1 ELSE x
             k == [n EXCEPT !.nextIndex[r.dst] = y]
  <2>1. node' = [node EXCEPT ![s] = k] /\ s \in Server
    BY <1>3, <1>7 DEF AppendReplyFailure
  <2>2. IsNode(n) /\ InTerm(n)
    BY <1>2, <1>3
  <2> HIDE DEF n, y, s
  <2>3. InTerm(k)
    BY <2>2 DEF IsNode, InTerm
  <2> HIDE DEF k
  <2> QED
    BY <2>1, <2>3, TurnInTerm
<1>8. ASSUME NEW s \in Server, NEW cmd \in Command, NEW f \in Faults,
             Write(s, cmd, f)
      PROVE  AllInTerm'
  <2> DEFINE n == node[s]
             index == LastIndex(n.store) + 1
             row == [term |-> n.currentTerm, cmd |-> cmd]
             st == AppendEntries(n.store, [i \in {index} |-> row])
             k == [n EXCEPT !.store = st, !.matchIndex[s] = index]
             m == IF Majority = 1 THEN advanceCommitLocked(k, s, f) ELSE k
  <2>1. node' = [node EXCEPT ![s] = m] /\ index <= MaxIndex
    BY <1>8 DEF Write
  <2>2. IsNode(k) /\ IsNode(n) /\ InTerm(n)
    BY <1>2, <2>1, WrittenNodeType
  <2>3. SameVote(n.store, st)
    <3> HIDE DEF n
    <3> QED
      BY <2>2 DEF IsNode, IsStore, AppendEntries, SameVote
  <2> HIDE DEF st, n
  <2>4. InTerm(k)
    BY <2>2, <2>3 DEF IsNode, InTerm, SameVote
  <2> HIDE DEF k
  <2>5. InTerm(m)
    BY <2>2, <2>4, AdvanceSame, SameInTerm
  <2> HIDE DEF m
  <2> QED
    BY <2>1, <2>5, TurnInTerm
<1>9. snapReps = {}
  BY DEF Uncompacted
<1> QED
  BY <1>4, <1>5, <1>6, <1>7, <1>8, <1>9
     DEF LeaderStep, SendAppend, SendSnapshot

\* ... and followers,
LEMMA FollowerInTerm ==
    ASSUME NoLostTerm, TypeOK, Uncompacted, AllInTerm, FollowerStep
    PROVE  AllInTerm'
<1>1. ASSUME NEW f \in Faults PROVE f.method # "SaveTermVote"
  BY DEF NoLostTerm, Faults, NoFault
<1>3. ASSUME NEW q \in appendReqs, NEW f \in Faults
      PROVE  LET n == SeenByFollower(node[q.dst], q, f)
             IN  q.dst \in Server /\ IsAppendReq(q) /\ IsNode(n) /\ InTerm(n)
  <2>1. q.src \in Server /\ q.dst \in Server /\ q.term \in Nat /\ IsAppendReq(q)
    BY DEF TypeOK, IsAppendReq
  <2>2. IsNode(node[q.dst]) /\ InTerm(node[q.dst])
    BY <2>1 DEF TypeOK, AllInTerm
  <2> QED
    BY <1>1, <2>1, <2>2, SeenByFollowerType, SeenByFollowerInTerm
<1>4. CASE node' = node
  BY <1>4 DEF AllInTerm
<1>5. ASSUME NEW q \in appendReqs, NEW f \in Faults, AppendRefused(q, f)
      PROVE  AllInTerm'
  BY <1>3, <1>5, TurnInTerm DEF AppendRefused
<1>6. ASSUME NEW q \in appendReqs, NEW f \in Faults,
             NEW st, st \in {Truncated(SeenByFollower(node[q.dst], q, f).store, q),
                             Merged(SeenByFollower(node[q.dst], q, f).store, q)}
      PROVE  LET m == [SeenByFollower(node[q.dst], q, f) EXCEPT !.store = st]
             IN  IsNode(m) /\ InTerm(m)
  <2> DEFINE n == SeenByFollower(node[q.dst], q, f)
  <2>1. IsNode(n) /\ InTerm(n) /\ IsAppendReq(q)
    BY <1>3
  <2> HIDE DEF n
  <2>2. IsStore(n.store)
    BY <2>1 DEF IsNode
  <2>3. IsStore(st) /\ SameVote(n.store, st)
    BY <1>6, <2>1, <2>2, MergeSame, TruncatedType, MergedType DEF n
  <2>4. IsNode([n EXCEPT !.store = st])
    BY <2>1, <2>3 DEF IsNode
  <2> QED
    BY <2>1, <2>3, <2>4, StoreInTerm DEF n
<1>7. ASSUME NEW q \in appendReqs, NEW f \in Faults, AppendAccepted(q, f)
      PROVE  AllInTerm'
  <2> DEFINE n == SeenByFollower(node[q.dst], q, f)
             k == [n EXCEPT !.store = Merged(@, q)]
             m == FollowCommit(k, q.dst, q, f)
  <2>1. node' = [node EXCEPT ![q.dst] = m]
    BY <1>7 DEF AppendAccepted
  <2>2. IsNode(k) /\ InTerm(k) /\ IsAppendReq(q) /\ q.dst \in Server
    BY <1>3, <1>6
  <2> HIDE DEF k
  <2>3. InTerm(m)
    BY <2>2, FollowCommitSame, SameInTerm
  <2> HIDE DEF m
  <2> QED
    BY <2>1, <2>2, <2>3, TurnInTerm
<1>8. ASSUME NEW q \in appendReqs, NEW f \in Faults, AppendError(q, f)
      PROVE  AllInTerm'
  <2> DEFINE n == SeenByFollower(node[q.dst], q, f)
             a == [n EXCEPT !.store = Truncated(@, q)]
             b == [n EXCEPT !.store = Merged(@, q)]
  <2>1. \E x \in {n, a, b} : node' = [node EXCEPT ![q.dst] = x]
    BY <1>8 DEF AppendError
  <2>2. q.dst \in Server /\ InTerm(n) /\ InTerm(a) /\ InTerm(b)
    BY <1>3, <1>6
  <2> HIDE DEF n, a, b
  <2> QED
    BY <2>1, <2>2, TurnInTerm
<1>9. snapReqs = {}
  BY DEF Uncompacted
<1> QED
  BY <1>4, <1>5, <1>7, <1>8, <1>9 DEF FollowerStep, AppendStale

\* ... and a node that restarts is in the term it was in.
LEMMA StepInTerm ==
    ASSUME NoLostTerm, TypeOK, Uncompacted, AllInTerm, [Next]_vars
    PROVE  AllInTerm'
<1>1. CASE node' = node
  BY <1>1 DEF AllInTerm
<1>2. ASSUME NEW s \in Unstable, Restart(s) PROVE AllInTerm'
  <2> DEFINE st == node[s].store
             m == [role        |-> "follower",
                   currentTerm |-> st.current_term,
                   votedFor    |-> st.voted_for,
                   leaderID    |-> Nobody,
                   commitIndex |-> st.last_applied,
                   lastApplied |-> st.last_applied,
                   nextIndex   |-> [p \in Server |-> 0],
                   matchIndex  |-> [p \in Server |-> 0],
                   votes       |-> {},
                   store       |-> st,
                   applied     |-> node[s].applied]
  <2>1. node' = [node EXCEPT ![s] = m] /\ InTerm(m)
    BY <1>2 DEF Restart, InTerm
  <2>2. s \in Server
    BY RaftConstants
  <2> HIDE DEF m
  <2> QED
    BY <2>1, <2>2, TurnInTerm
<1> QED
  BY <1>1, <1>2, ElectionInTerm, LeaderInTerm, FollowerInTerm
     DEF Next, vars, Misfortune, AppendTimeout, AppendReplyLost, SnapTimeout,
         SnapReplyLost

\* Terms in memory only grow.
LEMMA TermsGrow ==
    ASSUME AllInTerm, AllInTerm', DisksKept
    PROVE  \A s \in Server : node'[s].currentTerm >= node[s].currentTerm
BY DEF AllInTerm, InTerm, DisksKept, DiskKept

----------------------------------------------------------------------------
(* Acknowledged rows                                                       *)

\* A node that leads a term it had won before the step led it before, and has
\* kept all rows of its log.
LEMMA LeaderStays ==
    ASSUME TypeOK, LogInv, MatchInv, RowStep, NEW s \in Server, NEW term,
           Leads(s, term)', [term |-> term, leader |-> s] \in elected
    PROVE  /\ Leads(s, term)
           /\ Agree(node'[s].store.log_entries, node[s].store.log_entries,
                    LastIndex(node[s].store))
           /\ Agree(node[s].store.log_entries, node'[s].store.log_entries,
                    LastIndex(node[s].store))
<1> DEFINE n == node[s]
           l == LastIndex(n.store)
<1>1. node'[s].role = "leader" /\ node'[s].currentTerm = term
  BY DEF Leads
<1>2. CASE node'[s].store.log_entries = n.store.log_entries /\ Leads(s, term)
  BY <1>2 DEF Agree
<1>3. ASSUME node'[s] = node[s]
      PROVE  node'[s].store.log_entries = n.store.log_entries /\ Leads(s, term)
  BY <1>1, <1>3 DEF Leads
<1>4. ASSUME NEW t \in Server, NEW m, LogStays(t, m)
      PROVE  node'[s].store.log_entries = n.store.log_entries /\ Leads(s, term)
  <2>1. \A x \in Server : node'[x] = IF x = t THEN m ELSE node[x]
    BY <1>4 DEF LogStays, Turns, TypeOK
  <2>2. CASE s # t
    BY <1>3, <2>1, <2>2
  <2>3. CASE s = t
    BY <1>1, <1>4, <2>1, <2>3 DEF LogStays, Leads, SameLog
  <2> QED
    BY <2>2, <2>3
<1>5. ASSUME NEW t \in Server, NEW p, NEW w, Sends(t, p, w)
      PROVE  node'[s].store.log_entries = n.store.log_entries /\ Leads(s, term)
  BY <1>3, <1>5 DEF Sends, SendAppend
<1>6. ASSUME NEW q \in appendReqs, NEW m, NEW st, Merges(q, m, st)
      PROVE  node'[s].store.log_entries = n.store.log_entries /\ Leads(s, term)
  <2>1. q.dst \in Server
    BY DEF TypeOK, IsAppendReq
  <2>2. \A x \in Server : node'[x] = IF x = q.dst THEN m ELSE node[x]
    BY <1>6, <2>1 DEF Merges, Turns, TypeOK
  <2>3. s # q.dst
    BY <1>1, <1>6, <2>2 DEF Merges
  <2> QED
    BY <1>3, <2>2, <2>3
<1>7. ASSUME NEW t \in Server, NEW m, NEW row, Appends(t, m, row), s # t
      PROVE  node'[s].store.log_entries = n.store.log_entries /\ Leads(s, term)
  <2>1. \A x \in Server : node'[x] = IF x = t THEN m ELSE node[x]
    BY <1>7 DEF Appends, Turns, TypeOK
  <2> QED
    BY <1>3, <1>7, <2>1
<1>8. ASSUME NEW m, NEW row, Appends(s, m, row)
      PROVE  /\ Leads(s, term)
             /\ Agree(node'[s].store.log_entries, n.store.log_entries, l)
             /\ Agree(n.store.log_entries, node'[s].store.log_entries, l)
  <2>1. \A x \in Server : node'[x] = IF x = s THEN m ELSE node[x]
    BY <1>8 DEF Appends, Turns, TypeOK
  <2>2. Leads(s, term)
    BY <1>1, <1>8, <2>1 DEF Appends, Leads
  <2>3. l \in Nat /\ DOMAIN n.store.log_entries = 1..l
    <3>1. IsStore(n.store) /\ GapFree(n.store) /\ n.store.snapshot_index = 0
      BY DEF TypeOK, IsNode, LogInv, MatchInv, Uncompacted
    <3> QED
      BY <3>1, GapFreeFacts
  <2>4. node'[s].store.log_entries =
            AppendEntries(n.store, [i \in {l + 1} |-> row]).log_entries
    BY <1>8, <2>1 DEF Appends, SameLog
  <2>5. IsStore(n.store)
    BY DEF TypeOK, IsNode
  <2> HIDE DEF n, l
  <2>6. AppendEntries(n.store, [i \in {l + 1} |-> row]).log_entries =
            [i \in {l + 1} \cup DOMAIN n.store.log_entries |->
                IF i \in {l + 1} THEN row ELSE n.store.log_entries[i]]
    BY <2>5 DEF AppendEntries, IsStore
  <2>7. /\ DOMAIN node'[s].store.log_entries = {l + 1} \cup 1..l
        /\ \A i \in 1..l : node'[s].store.log_entries[i] = n.store.log_entries[i]
    BY <2>3, <2>4, <2>6
  <2> QED
    BY <2>2, <2>3, <2>7 DEF Agree
<1> QED
  BY <1>2, <1>4, <1>5, <1>6, <1>7, <1>8 DEF RowStep

\* A request of the leader deletes nothing that the follower has from it: a row
\* it cuts off differs from the leader's.
LEMMA MergeKeeps ==
    ASSUME NEW A, NEW C, NEW Q, NEW M, NEW c, NEW l, NEW d,
           MergeOf(M, C, Q, c, l, d), Part(Q, A), NEW a, Seg(A, a), A.lo = 0,
           NEW i, Agree(A.rows, C.rows, i), i \in Nat,
           NEW N, N = M \/ (Seg(N, d - 1) /\ N.lo = 0 /\ Part(N, C))
    PROVE  Agree(A.rows, N.rows, i)
<1>1. /\ Q.lo \in Nat /\ c \in Nat /\ l \in Nat /\ d \in Nat /\ a \in Nat
      /\ DOMAIN C.rows = 1..c /\ DOMAIN Q.rows = (Q.lo + 1)..l
      /\ DOMAIN M.rows = 1..l /\ DOMAIN A.rows = 1..a
      /\ d > Q.lo /\ d <= l /\ d <= c + 1
      /\ d <= c => C.rows[d].term # Q.rows[d].term
  BY DEF MergeOf, Seg
<1>2. d \in DOMAIN Q.rows /\ d \in DOMAIN A.rows /\ A.rows[d] = Q.rows[d]
  BY <1>1 DEF Part
<1>3. d > i
  <2> SUFFICES ASSUME d <= i PROVE FALSE
    BY <1>1
  <2>1. d \in DOMAIN C.rows /\ C.rows[d] = A.rows[d]
    BY <1>2 DEF Agree
  <2> QED
    BY <1>1, <1>2, <2>1
<1>4. \A j \in 1..(d - 1) : j \in DOMAIN N.rows /\ N.rows[j] = C.rows[j]
  <2>1. CASE N = M
    <3>1. \A j \in 1..(d - 1) : j \in 1..l /\ j < d
      BY <1>1
    <3>2. \A j \in 1..l : M.rows[j] = IF j < d THEN C.rows[j] ELSE Q.rows[j]
      BY DEF MergeOf
    <3> QED
      BY <1>1, <2>1, <3>1, <3>2
  <2>2. CASE Seg(N, d - 1) /\ N.lo = 0 /\ Part(N, C)
    BY <1>1, <2>2 DEF Seg, Part
  <2> QED
    BY <2>1, <2>2
<1> SUFFICES ASSUME NEW j \in DOMAIN A.rows, j <= i
             PROVE  j \in DOMAIN N.rows /\ N.rows[j] = A.rows[j]
  BY DEF Agree
<1>5. j \in 1..(d - 1)
  BY <1>1, <1>3
<1> QED
  BY <1>4, <1>5 DEF Agree

\* A request that succeeds leaves the follower with the leader's log up to the
\* last row of the request.
LEMMA MergeReaches ==
    ASSUME NEW A, NEW C, NEW Q, NEW N, NEW c, NEW l, NEW a,
           Seg(A, a), A.lo = 0, Seg(C, c), C.lo = 0, Seg(Q, l),
           Part(Q, A), Match(C, A), Match(C, Q), Follows(C, Q, c),
           \/ N = C /\ Known(Q, C)
           \/ \E d \in Nat : MergeOf(N, C, Q, c, l, d)
    PROVE  Agree(A.rows, N.rows, l)
<1>1. /\ Q.lo \in Nat /\ c \in Nat /\ l \in Nat /\ a \in Nat /\ Q.lo <= c
      /\ DOMAIN C.rows = 1..c /\ DOMAIN Q.rows = (Q.lo + 1)..l
      /\ DOMAIN A.rows = 1..a
  BY DEF Seg, Follows
<1>2. ASSUME NEW j \in DOMAIN A.rows, j <= Q.lo
      PROVE  j \in DOMAIN C.rows /\ C.rows[j] = A.rows[j]
  <2>1. Q.lo # 0 /\ j \in 1..c /\ Q.lo \in DOMAIN C.rows
    BY <1>1, <1>2
  <2>2. Q.lo \in DOMAIN A.rows /\ A.rows[Q.lo].term = C.rows[Q.lo].term
    BY <2>1 DEF Follows, Part
  <2>3. SameUpTo(C, A, Q.lo)
    BY <2>1, <2>2 DEF Match, Common
  <2> QED
    BY <1>1, <1>2, <2>1, <2>3 DEF SameUpTo, Common
<1>3. ASSUME NEW j \in DOMAIN A.rows, j <= l, j > Q.lo
      PROVE  j \in DOMAIN Q.rows /\ Q.rows[j] = A.rows[j]
  BY <1>1, <1>3 DEF Part
<1>4. CASE N = C /\ Known(Q, C)
  <2>1. ASSUME NEW j \in DOMAIN A.rows, j <= l, j > Q.lo
        PROVE  j \in DOMAIN C.rows /\ C.rows[j] = A.rows[j]
    <3>1. j \in DOMAIN Q.rows /\ Q.rows[j] = A.rows[j]
      BY <1>3, <2>1
    <3>2. j \in DOMAIN C.rows /\ C.rows[j].term = A.rows[j].term
      BY <1>4, <3>1 DEF Known
    <3>3. SameUpTo(C, A, j)
      BY <3>2 DEF Match, Common
    <3> QED
      BY <1>1, <3>2, <3>3 DEF SameUpTo, Common
  <2> QED
    BY <1>1, <1>2, <1>4, <2>1 DEF Agree
<1>5. ASSUME NEW d \in Nat, MergeOf(N, C, Q, c, l, d)
      PROVE  Agree(A.rows, N.rows, l)
  <2>1. /\ \A j \in (Q.lo + 1)..l : N.rows[j] = Q.rows[j]
        /\ \A j \in 1..Q.lo : N.rows[j] = C.rows[j]
    BY <1>5, MergeParts
  <2>2. DOMAIN N.rows = 1..l /\ Q.lo <= l
    BY <1>5 DEF MergeOf, Seg
  <2>3. ASSUME NEW j \in DOMAIN A.rows, j <= l
        PROVE  j \in DOMAIN N.rows /\ N.rows[j] = A.rows[j]
    <3>1. CASE j <= Q.lo
      <4>1. j \in 1..Q.lo /\ j \in 1..l
        BY <1>1, <2>3, <3>1
      <4> QED
        BY <1>2, <2>1, <2>2, <3>1, <4>1
    <3>2. CASE j > Q.lo
      <4>1. j \in (Q.lo + 1)..l /\ j \in 1..l
        BY <1>1, <2>3, <3>2
      <4> QED
        BY <1>3, <2>1, <2>2, <2>3, <3>2, <4>1
    <3> QED
      BY <1>1, <3>1, <3>2
  <2> QED
    BY <2>3 DEF Agree
<1> QED
  BY <1>4, <1>5

\* A term has one leader, and its requests are that leader's.
LEMMA OneLeader ==
    ASSUME ElectionInv, NEW s \in Server, NEW term, Leads(s, term)
    PROVE  /\ [term |-> term, leader |-> s] \in elected
           /\ \A p \in Server : Leads(p, term) => p = s
           /\ \A q \in appendReqs : q.term = term => q.src = s
<1>1. ASSUME NEW p \in Server, Leads(p, term)
      PROVE  [term |-> term, leader |-> p] \in elected
  <2>1. HintInv(node[p], p, elected) /\ p # Nobody
    BY RaftConstants DEF ElectionInv
  <2> QED
    BY <1>1, <2>1 DEF HintInv, Leads
<1>2. \A x, y \in elected : x.term = y.term => x = y
  BY DEF ElectionInv, ElectionSafety
<1>3. \A q \in appendReqs : [term |-> q.term, leader |-> q.src] \in elected
  BY DEF ElectionInv, CallsInv
<1> QED
  BY <1>1, <1>2, <1>3

\* The log of a node, as a segment.
LEMMA LogFacts ==
    ASSUME TypeOK, LogInv, MatchInv, NEW s \in Server
    PROVE  /\ Seg(LogOf(node[s].store), LastIndex(node[s].store))
           /\ LogOf(node[s].store) \in Segments
           /\ LogOf(node[s].store).lo = 0
           /\ LogOf(node[s].store).rows = node[s].store.log_entries
<1>1. /\ IsStore(node[s].store) /\ GapFree(node[s].store)
      /\ node[s].store.snapshot_index = 0
  BY DEF TypeOK, IsNode, LogInv, MatchInv, Uncompacted
<1> QED
  BY <1>1, LogSeg DEF Segments, LogOf

\* A follower keeps what it has from the leader of its term.
LEMMA FollowerKeeps ==
    ASSUME TypeOK, ElectionInv, LogInv, MatchInv, AckInv, RowStep,
           NEW s \in Server, NEW p \in Server, s # p, NEW term, Leads(s, term),
           node[p].currentTerm = term, node'[p].currentTerm = term,
           NEW i \in Nat,
           Agree(node[s].store.log_entries, node[p].store.log_entries, i)
    PROVE  Agree(node[s].store.log_entries, node'[p].store.log_entries, i)
<1>1. CASE node'[p].store.log_entries = node[p].store.log_entries
  BY <1>1
<1>2. ASSUME NEW t \in Server, NEW m, LogStays(t, m)
      PROVE  node'[p].store.log_entries = node[p].store.log_entries
  <2>1. \A x \in Server : node'[x] = IF x = t THEN m ELSE node[x]
    BY <1>2 DEF LogStays, Turns, TypeOK
  <2> QED
    BY <1>2, <2>1 DEF LogStays, SameLog
<1>3. ASSUME NEW t \in Server, NEW x, NEW w, Sends(t, x, w)
      PROVE  node'[p].store.log_entries = node[p].store.log_entries
  BY <1>3 DEF Sends, SendAppend
<1>4. ASSUME NEW q \in appendReqs, NEW m, NEW st, Merges(q, m, st)
      PROVE  Agree(node[s].store.log_entries, node'[p].store.log_entries, i)
  <2> DEFINE A == LogOf(node[s].store)
             C == LogOf(node[p].store)
             Q == RowsOf(q)
             N == LogOf(m.store)
             c == LastIndex(node[p].store)
             l == LastSent(q)
  <2>1. q.dst \in Server
    BY DEF TypeOK, IsAppendReq
  <2>2. \A x \in Server : node'[x] = IF x = q.dst THEN m ELSE node[x]
    BY <1>4, <2>1 DEF Merges, Turns, TypeOK
  <2>3. CASE p # q.dst
    BY <1>1, <2>2, <2>3
  <2>4. CASE p = q.dst
    <3>1. q.term = term /\ q.src = s
      <4>1. q.term = term
        BY <1>4, <2>2, <2>4 DEF Merges
      <4> QED
        BY <4>1, OneLeader
    <3>2. Part(Q, A)
      BY <3>1 DEF AckInv
    <3>3. \/ N = C
          \/ Part(N, C) /\ \E d \in Nat : \E M : Seg(N, d - 1) /\ MergeOf(M, C, Q, c, l, d)
          \/ \E d \in Nat : MergeOf(N, C, Q, c, l, d)
      BY <1>4, <2>4, MergesLog DEF MatchInv
    <3>4. /\ Seg(A, LastIndex(node[s].store)) /\ A.lo = 0
          /\ A.rows = node[s].store.log_entries
          /\ C.rows = node[p].store.log_entries
      BY LogFacts
    <3>5. N.rows = node'[p].store.log_entries /\ N.lo = 0
      BY <2>2, <2>4 DEF LogOf
    <3>6. Agree(A.rows, C.rows, i)
      BY <3>4
    <3> HIDE DEF A, C, N, Q, c, l
    <3>7. Agree(A.rows, N.rows, i)
      BY <3>2, <3>3, <3>4, <3>5, <3>6, MergeKeeps
    <3> QED
      BY <3>4, <3>5, <3>7
  <2> QED
    BY <2>3, <2>4
<1>5. ASSUME NEW t \in Server, NEW m, NEW row, Appends(t, m, row)
      PROVE  node'[p].store.log_entries = node[p].store.log_entries
  <2>1. \A x \in Server : node'[x] = IF x = t THEN m ELSE node[x]
    BY <1>5 DEF Appends, Turns, TypeOK
  <2>2. p # t
    BY <1>5, OneLeader DEF Appends, Leads
  <2> QED
    BY <2>1, <2>2
<1> QED
  BY <1>1, <1>2, <1>3, <1>4, <1>5 DEF RowStep

\* What p took from s it keeps, in every step.
LEMMA ReachedKept ==
    ASSUME TypeOK, ElectionInv, LogInv, MatchInv, AckInv, RowStep,
           \A x \in Server : node'[x].currentTerm >= node[x].currentTerm,
           TypeOK', NEW s \in Server, NEW p \in Server, NEW term \in Nat,
           NEW i \in Nat, [term |-> term, leader |-> s] \in elected,
           Leads(s, term) => i <= LastIndex(node[s].store),
           Reached(s, p, term, i)
    PROVE  Reached(s, p, term, i)'
<1>1. /\ node[p].currentTerm \in Nat /\ node'[p].currentTerm \in Nat
      /\ node'[p].currentTerm >= node[p].currentTerm
      /\ node[p].currentTerm >= term
  BY DEF TypeOK, IsNode, Reached
<1>2. node'[p].currentTerm >= term
  BY <1>1
<1>3. ASSUME Leads(s, term)', node'[p].currentTerm = term
      PROVE  Agree(node'[s].store.log_entries, node'[p].store.log_entries, i)
  <2>1. CASE p = s
    BY <2>1 DEF Agree
  <2>2. CASE p # s
    <3>1. /\ Leads(s, term)
          /\ Agree(node'[s].store.log_entries, node[s].store.log_entries,
                   LastIndex(node[s].store))
      BY <1>3, LeaderStays
    <3>2. node[p].currentTerm = term
      BY <1>1, <1>3
    <3>3. Agree(node[s].store.log_entries, node[p].store.log_entries, i)
      BY <3>1, <3>2 DEF Reached
    <3>4. Agree(node[s].store.log_entries, node'[p].store.log_entries, i)
      BY <1>3, <2>2, <3>1, <3>2, <3>3, FollowerKeeps
    <3>5. /\ i <= LastIndex(node[s].store) /\ LastIndex(node[s].store) \in Nat
          /\ \A j \in DOMAIN node'[s].store.log_entries : j \in Nat
      <4>1. IsStore(node[s].store) /\ IsStore(node'[s].store)
        BY DEF TypeOK, IsNode
      <4> QED
        BY <3>1, <4>1, LastIndexType DEF IsStore, IsTable, Index
    <3> QED
      BY <3>1, <3>4, <3>5 DEF Agree
  <2> QED
    BY <2>1, <2>2
<1> QED
  BY <1>2, <1>3 DEF Reached, Leads

----------------------------------------------------------------------------
(* Each kind of step keeps the invariant                                   *)

\* s, which stood for its term with the votes of a majority, leads it now and
\* has counted no peer's log yet.
Wins(s) ==
    /\ node[s].role = "candidate"
    /\ node'[s].currentTerm = node[s].currentTerm
    /\ node'[s].store = node[s].store
    /\ \A p \in Peers(s) : node'[s].matchIndex[p] = 0
    /\ \E V \in SUBSET Server : /\ Cardinality(V) >= Majority
                               /\ \A v \in V : Cast(v, node[s].currentTerm, s)

\* That is how an election makes a leader.
LEMMA NewLeaderWins ==
    ASSUME TypeOK, ElectionInv, ElectionStep, NEW s \in Server,
           node'[s].role = "leader",
           [term |-> node'[s].currentTerm, leader |-> s] \notin elected
    PROVE  Wins(s)
<1>1. \A t \in Server : IsNode(node[t])
  BY DEF TypeOK
<1>2. ASSUME node'[s].role = node[s].role,
             node'[s].currentTerm = node[s].currentTerm
      PROVE  FALSE
  <2>1. HintInv(node[s], s, elected) /\ s # Nobody
    BY RaftConstants DEF ElectionInv
  <2> QED
    BY <1>2, <2>1 DEF HintInv
<1>3. ASSUME NEW t \in Server, NEW m, node' = [node EXCEPT ![t] = m],
             t = s => m.role # "leader" \/
                      (m.role = node[s].role /\ m.currentTerm = node[s].currentTerm)
      PROVE  FALSE
  <2>1. node'[s] = IF t = s THEN m ELSE node[s]
    BY <1>3 DEF TypeOK
  <2> QED
    BY <1>2, <1>3, <2>1
<1>4. ASSUME NEW t \in Server, StartElection(t) PROVE FALSE
  <2> DEFINE n == Campaign(node[t], t)
             st == SaveTermVote(n.store, n.currentTerm, t)
             m == [n EXCEPT !.votes = {t}, !.store = st]
  <2>1. node' = [node EXCEPT ![t] = m]
    BY <1>4 DEF StartElection
  <2>2. IsNode(n) /\ n.role = "candidate"
    BY <1>1, CampaignType
  <2> HIDE DEF n, st
  <2>3. m.role = "candidate"
    BY <2>2 DEF IsNode
  <2> HIDE DEF m
  <2> QED
    BY <1>3, <2>1, <2>3
<1>5. ASSUME NEW t \in Server, NEW f \in Faults, StartElectionError(t, f)
      PROVE  FALSE
  <2> DEFINE n == Campaign(node[t], t)
             st == IF f.method = "SaveTermVote" THEN n.store
                   ELSE SaveTermVote(n.store, n.currentTerm, t)
             m == [n EXCEPT !.votes = {}, !.store = st]
  <2>1. node' = [node EXCEPT ![t] = m]
    BY <1>5 DEF StartElectionError
  <2>2. IsNode(n) /\ n.role = "candidate"
    BY <1>1, CampaignType
  <2> HIDE DEF n, st
  <2>3. m.role = "candidate"
    BY <2>2 DEF IsNode
  <2> HIDE DEF m
  <2> QED
    BY <1>3, <2>1, <2>3
<1>6. ASSUME NEW q \in voteReqs, NEW f
      PROVE  LET n == SeenByVoter(node[q.dst], q, f)
             IN  /\ q.dst \in Server /\ IsNode(n)
                 /\ \/ n.role = "follower"
                    \/ n.role = node[q.dst].role
                       /\ n.currentTerm = node[q.dst].currentTerm
  <2>1. q.src \in Server /\ q.dst \in Server /\ q.term \in Nat
    BY DEF TypeOK, VoteReqs
  <2> QED
    BY <1>1, <2>1, SeenByVoterType, SeenByVoterCalm DEF Calm
<1>7. ASSUME NEW q \in voteReqs, RequestVoteGranted(q) PROVE FALSE
  <2> DEFINE n == SeenByVoter(node[q.dst], q, NoFault)
             st == SaveTermVote(n.store, n.currentTerm, q.src)
             m == [n EXCEPT !.votedFor = q.src, !.store = st]
  <2>1. node' = [node EXCEPT ![q.dst] = m]
    BY <1>7 DEF RequestVoteGranted
  <2>2. /\ q.dst \in Server /\ IsNode(n)
        /\ \/ n.role = "follower"
           \/ n.role = node[q.dst].role
              /\ n.currentTerm = node[q.dst].currentTerm
    BY <1>6
  <2> HIDE DEF n, st
  <2>3. m.role = n.role /\ m.currentTerm = n.currentTerm
    BY <2>2 DEF IsNode
  <2> HIDE DEF m
  <2> QED
    BY <1>3, <2>1, <2>2, <2>3
<1>8. ASSUME NEW q \in voteReqs, NEW f \in Faults, RequestVoteRejected(q, f)
      PROVE  FALSE
  BY <1>3, <1>6, <1>8 DEF RequestVoteRejected
<1>9. ASSUME NEW q \in voteReqs, NEW f \in Faults, RequestVoteError(q, f)
      PROVE  FALSE
  <2>0. PICK g \in {f, NoFault} :
            LET n == SeenByVoter(node[q.dst], q, g)
            IN  \/ node' = [node EXCEPT ![q.dst] = n]
                \/ node' = [node EXCEPT ![q.dst] = [n EXCEPT !.votedFor = q.src]]
    BY <1>9 DEF RequestVoteError
  <2> DEFINE n == SeenByVoter(node[q.dst], q, g)
             m == [n EXCEPT !.votedFor = q.src]
  <2>1. \E x \in {n, m} : node' = [node EXCEPT ![q.dst] = x]
    BY <2>0
  <2>2. /\ q.dst \in Server /\ IsNode(n)
        /\ \/ n.role = "follower"
           \/ n.role = node[q.dst].role
              /\ n.currentTerm = node[q.dst].currentTerm
    BY <1>6
  <2> HIDE DEF n
  <2>3. m.role = n.role /\ m.currentTerm = n.currentTerm
    BY <2>2 DEF IsNode
  <2> HIDE DEF m
  <2> QED
    BY <1>3, <2>1, <2>2, <2>3
<1>10. ASSUME NEW q \in voteReqs, RequestVoteStale(q) PROVE FALSE
  BY <1>2, <1>10 DEF RequestVoteStale
<1>11. ASSUME NEW r \in voteReps, NEW f \in Faults, VoteReplyStepDown(r, f)
       PROVE  FALSE
  <2>1. r.src \in Server
    BY DEF TypeOK, VoteReps
  <2>2. stepDownLocked(node[r.src], r.rterm, Nobody, f).role = "follower"
    BY <1>1, <2>1, StepDownCalm
  <2> QED
    BY <1>3, <1>11, <2>1, <2>2 DEF VoteReplyStepDown
<1>12. ASSUME NEW t \in Server, NEW n, IsNode(n), NEW f, NEW V,
              n.store = node[t].store, n.currentTerm = node[t].currentTerm,
              n.role = node[t].role, node[t].role = "candidate",
              V \in SUBSET Server, Cardinality(V) >= Majority,
              \A v \in V : Cast(v, node[t].currentTerm, t),
              node' = [node EXCEPT ![t] = becomeLeaderLocked(n, t, f)]
       PROVE  Wins(s)
  <2> DEFINE m == becomeLeaderLocked(n, t, f)
  <2>1. CASE f.method = "LastIndexAndTerm"
    <3>1. m.role = "candidate"
      BY <1>12, <2>1 DEF becomeLeaderLocked, IsNode
    <3> HIDE DEF m
    <3> QED
      BY <1>3, <1>12, <3>1 DEF m
  <2>2. CASE f.method # "LastIndexAndTerm"
    <3>1. /\ m.role = "leader" /\ m.currentTerm = n.currentTerm
          /\ m.store = n.store /\ \A p \in Peers(t) : m.matchIndex[p] = 0
      BY <1>12, <2>2, BecomeLeaderPeers
    <3>2. node'[s] = IF s = t THEN m ELSE node[s]
      BY <1>12 DEF TypeOK
    <3> HIDE DEF m
    <3>3. s = t
      BY <1>2, <3>2
    <3> QED
      BY <1>12, <3>1, <3>2, <3>3 DEF Wins
  <2> QED
    BY <2>1, <2>2
<1>13. ASSUME NEW t \in Server, WinAlone(t) PROVE Wins(s)
  <2> DEFINE V == {t}
             n == node[t]
  <2>1. /\ Majority = 1 /\ n.role = "candidate" /\ t \in n.votes
        /\ node' = [node EXCEPT ![t] = becomeLeaderLocked(n, t, NoFault)]
    BY <1>13 DEF WinAlone
  <2>2. IsNode(n) /\ V \in SUBSET Server /\ Cardinality(V) >= Majority
    BY <1>1, <2>1, FS_Singleton
  <2>3. \A v \in V : Cast(v, node[t].currentTerm, t)
    BY <2>1 DEF Cast
  <2>4. /\ n.store = node[t].store /\ n.currentTerm = node[t].currentTerm
        /\ n.role = node[t].role /\ node[t].role = "candidate"
    BY <2>1
  <2> HIDE DEF V, n
  <2> QED
    BY <1>12, <2>1, <2>2, <2>3, <2>4
<1>14. ASSUME NEW r \in voteReps, NEW f \in Faults, VoteReplyCounted(r, f)
       PROVE  Wins(s)
  <2> DEFINE t == r.src
             V == node[t].votes \cup {r.dst}
             n == [node[t] EXCEPT !.votes = V]
             won == Cardinality(n.votes) >= Majority
             b == becomeLeaderLocked(n, t, f)
  <2>1. t \in Server /\ r.dst \in Server /\ IsNode(node[t])
    BY <1>1 DEF TypeOK, VoteReps
  <2>2. /\ node' = [node EXCEPT ![t] = IF won THEN b ELSE n]
        /\ VoteCounts(node[t], r)
    BY <1>14 DEF VoteReplyCounted
  <2>3. /\ node[t].role = "candidate" /\ node[t].currentTerm = r.term
        /\ r.granted
    BY <2>2 DEF VoteCounts
  <2>4. \A v \in V : Cast(v, node[t].currentTerm, t)
    BY <2>3 DEF Cast
  <2>5. V \in SUBSET Server
    BY <2>1 DEF IsNode
  <2> HIDE DEF t, V
  <2>6. /\ IsNode(n) /\ n.store = node[t].store /\ n.role = node[t].role
        /\ n.currentTerm = node[t].currentTerm /\ n.votes = V
    BY <2>1, <2>5 DEF IsNode
  <2> HIDE DEF n
  <2>7. CASE won
    BY <1>12, <2>1, <2>2, <2>3, <2>4, <2>5, <2>6, <2>7
  <2>8. CASE ~won
    BY <1>3, <2>1, <2>2, <2>6, <2>8
  <2> QED
    BY <2>7, <2>8
<1> QED
  BY <1>4, <1>5, <1>7, <1>8, <1>9, <1>10, <1>11, <1>13, <1>14 DEF ElectionStep

\* Requests are parts of their senders' logs.
LEMMA RequestsKept ==
    ASSUME TypeOK, ElectionInv, LogInv, MatchInv, AckInv, RowStep,
           NEW q \in appendReqs', Leads(q.src, q.term)', q.src \in Server
    PROVE  Part(RowsOf(q), LogOf(node'[q.src].store))
<1>1. ASSUME NEW o \in appendReqs, SameRequest(q, o)
      PROVE  Part(RowsOf(q), LogOf(node'[q.src].store))
  <2> DEFINE s == q.src
             a == node[s].store.log_entries
             b == node'[s].store.log_entries
  <2>1. /\ q.src = o.src /\ q.term = o.term /\ RowsOf(q) = RowsOf(o)
    BY <1>1 DEF SameRequest, RowsOf
  <2>2. [term |-> q.term, leader |-> s] \in elected
    BY <2>1 DEF ElectionInv, CallsInv
  <2>3. Leads(s, q.term) /\ Agree(a, b, LastIndex(node[s].store))
    BY <2>2, LeaderStays
  <2>4. Part(RowsOf(q), LogOf(node[s].store))
    BY <2>1, <2>3 DEF AckInv
  <2>5. \A j \in DOMAIN a : j <= LastIndex(node[s].store)
    <3>1. Seg(LogOf(node[s].store), LastIndex(node[s].store))
          /\ LogOf(node[s].store).rows = a /\ LogOf(node[s].store).lo = 0
      BY LogFacts
    <3> QED
      BY <3>1 DEF Seg
  <2>6. \A j \in DOMAIN a : j \in DOMAIN b /\ b[j] = a[j]
    BY <2>3, <2>5 DEF Agree
  <2> QED
    BY <2>4, <2>6 DEF Part, LogOf
<1>2. ASSUME NEW s \in Server, NEW p, NEW w, Sends(s, p, w)
      PROVE  Part(RowsOf(q), LogOf(node'[q.src].store))
  <2>1. /\ node' = node
        /\ appendReqs' = appendReqs \cup {Request(s, p, w)}
    BY <1>2 DEF Sends, SendAppend, Request
  <2>2. CASE q \in appendReqs
    BY <1>1, <2>2 DEF SameRequest
  <2>3. CASE q = Request(s, p, w)
    <3>1. Request(s, p, w).src = s
      BY DEF Request
    <3> QED
      BY <1>2, <2>1, <2>3, <3>1, SentPart DEF MatchInv
  <2> QED
    BY <2>1, <2>2, <2>3
<1>3. ASSUME CallsKept
      PROVE  Part(RowsOf(q), LogOf(node'[q.src].store))
  BY <1>1, <1>3 DEF CallsKept
<1> QED
  BY <1>2, <1>3 DEF RowStep, LogStays, Merges, Appends, Turns

\* What a follower acknowledges it has.
LEMMA AnswersKept ==
    ASSUME TypeOK, ElectionInv, LogInv, MatchInv, AckInv, RowStep, TypeOK',
           \A x \in Server : node'[x].currentTerm >= node[x].currentTerm,
           NEW r \in appendReps', r.success
    PROVE  Reached(r.src, r.dst, r.term, r.lastSent)'
<1>1. CASE r \in appendReps
  <2>1. /\ r.src \in Server /\ r.dst \in Server /\ r.term \in Nat
        /\ r.lastSent \in Nat
    BY <1>1, RaftConstants DEF TypeOK, AppendReps, Index
  <2>2. /\ [term |-> r.term, leader |-> r.src] \in elected
        /\ Leads(r.src, r.term) => r.lastSent <= LastIndex(node[r.src].store)
    BY <1>1 DEF LogInv, AppendRepInv
  <2>3. Reached(r.src, r.dst, r.term, r.lastSent)
    BY <1>1 DEF AckInv
  <2> QED
    BY <2>1, <2>2, <2>3, ReachedKept
<1>2. ASSUME NEW q \in appendReqs, NEW m, NEW st, Merges(q, m, st),
             r \notin appendReps
      PROVE  Reached(r.src, r.dst, r.term, r.lastSent)'
  <2> DEFINE s == q.src
             p == q.dst
             A == LogOf(node[s].store)
             C == LogOf(node[p].store)
             Q == RowsOf(q)
             N == LogOf(m.store)
             c == LastIndex(node[p].store)
             l == LastSent(q)
  <2>1. /\ s \in Server /\ p \in Server /\ q.term \in Nat
        /\ IsAppendReq(q) /\ InOrder(q)
    BY DEF TypeOK, IsAppendReq, LogInv, AppendReqInv, InOrder
  <2>2. /\ ~NoNewSuccess
        /\ r.src = s /\ r.dst = p /\ r.term = q.term /\ r.lastSent = l
    BY <1>2 DEF Merges, AnswerTo, NoNewSuccess
  <2>3. \A x \in Server : node'[x] = IF x = p THEN m ELSE node[x]
    BY <1>2, <2>1 DEF Merges, Turns, TypeOK
  <2>4. node'[p].currentTerm = q.term
    BY <1>2, <2>1, <2>3 DEF Merges
  <2>5. s # p /\ [term |-> q.term, leader |-> s] \in elected
    BY DEF ElectionInv, CallsInv
  <2>6. ASSUME Leads(s, q.term)'
        PROVE  Agree(node'[s].store.log_entries, node'[p].store.log_entries, l)
    <3>1. Leads(s, q.term) /\ node'[s] = node[s]
      BY <2>1, <2>3, <2>5, <2>6 DEF Leads
    <3>2. Part(Q, A)
      BY <3>1 DEF AckInv
    <3>3. /\ Follows(C, Q, c)
          /\ \/ N = C /\ Known(Q, C)
             \/ \E d \in Nat : MergeOf(N, C, Q, c, l, d)
      BY <1>2, <2>2, MergesLog DEF MatchInv
    <3>4. /\ Seg(A, LastIndex(node[s].store)) /\ A.lo = 0 /\ A \in Segments
          /\ A.rows = node[s].store.log_entries
          /\ Seg(C, c) /\ C.lo = 0 /\ C \in Segments
      BY <2>1, LogFacts
    <3>5. Seg(Q, l) /\ Q \in Segments
      BY <2>1, RowsSeg DEF Segments
    <3>6. N.rows = node'[p].store.log_entries
      BY <2>1, <2>3 DEF LogOf
    <3>7. Match(C, A) /\ Match(C, Q)
      BY <3>4, <3>5 DEF MatchInv
    <3> HIDE DEF A, C, N, Q, c, l
    <3>8. Agree(A.rows, N.rows, l)
      BY <3>2, <3>3, <3>4, <3>5, <3>7, MergeReaches
    <3> QED
      BY <3>1, <3>4, <3>6, <3>8
  <2> HIDE DEF s, p, l
  <2> QED
    BY <2>1, <2>2, <2>4, <2>6 DEF Reached, Leads
<1>3. CASE NoNewSuccess
  BY <1>1, <1>3 DEF NoNewSuccess
<1>4. ASSUME NEW s \in Server, NEW p, NEW w, Sends(s, p, w)
      PROVE  r \in appendReps
  BY <1>4 DEF Sends, SendAppend
<1> QED
  BY <1>1, <1>2, <1>3, <1>4 DEF RowStep, LogStays, Appends

\* A leader counts on what its peers acknowledged.
LEMMA MatchedKept ==
    ASSUME TypeOK, ElectionInv, LogInv, MatchInv, AckInv, RowStep, TypeOK',
           \A x \in Server : node'[x].currentTerm >= node[x].currentTerm,
           NEW s \in Server, node'[s].role = "leader", NEW p \in Peers(s)
    PROVE  \/ node'[s].matchIndex[p] = 0
           \/ Reached(s, p, node[s].currentTerm, node[s].matchIndex[p])'
<1>0. p \in Server
  BY DEF Peers
<1>1. PICK T \in Nat, i \in Nat :
            T = node[s].currentTerm /\ i = node'[s].matchIndex[p]
  BY <1>0, RaftConstants DEF TypeOK, IsNode, Index
<1>2. ASSUME node[s].role = "leader", node'[s].currentTerm = T,
             i = node[s].matchIndex[p]
      PROVE  i = 0 \/ Reached(s, p, node[s].currentTerm, node[s].matchIndex[p])'
  <2>1. Leads(s, T) /\ [term |-> T, leader |-> s] \in elected
    BY <1>1, <1>2, OneLeader DEF Leads
  <2>2. i <= LastIndex(node[s].store)
    BY <1>2 DEF LogInv, PeersInv
  <2>3. i = 0 \/ Reached(s, p, T, i)
    BY <1>1, <1>2 DEF AckInv
  <2>4. i = 0 \/ Reached(s, p, T, i)'
    BY <1>0, <1>1, <2>1, <2>2, <2>3, ReachedKept
  <2> QED
    BY <1>1, <1>2, <2>4 DEF Reached, Leads
<1>3. ASSUME NEW r \in appendReps, r.success, r.src = s, r.dst = p,
             r.term = T, i = r.lastSent, node'[s].currentTerm = T
      PROVE  Reached(s, p, node[s].currentTerm, node[s].matchIndex[p])'
  <2>1. /\ [term |-> T, leader |-> s] \in elected
        /\ Leads(s, T) => i <= LastIndex(node[s].store)
    BY <1>3 DEF LogInv, AppendRepInv
  <2>2. Reached(s, p, T, i)
    BY <1>3 DEF AckInv
  <2>3. Reached(s, p, T, i)'
    BY <1>0, <1>1, <2>1, <2>2, ReachedKept
  <2> QED
    BY <1>1, <1>3, <2>3 DEF Reached, Leads
<1>4. ASSUME node'[s] = node[s]
      PROVE  i = 0 \/ Reached(s, p, node[s].currentTerm, node[s].matchIndex[p])'
  BY <1>1, <1>2, <1>4
<1>5. ASSUME NEW t \in Server, NEW m, LogStays(t, m)
      PROVE  i = 0 \/ Reached(s, p, node[s].currentTerm, node[s].matchIndex[p])'
  <2>1. \A x \in Server : node'[x] = IF x = t THEN m ELSE node[x]
    BY <1>5 DEF LogStays, Turns, TypeOK
  <2>2. CASE s # t
    BY <1>4, <2>1, <2>2
  <2>3. ASSUME s = t, node[s].role = "leader", m.currentTerm = T,
               Counts(node[s], m, s)
        PROVE  i = 0 \/ Reached(s, p, node[s].currentTerm, node[s].matchIndex[p])'
    <3>1. \/ i = node[s].matchIndex[p]
          \/ \E r \in appendReps : /\ r.success /\ r.src = s /\ r.dst = p
                                    /\ r.term = T /\ i = r.lastSent
      BY <1>1, <2>1, <2>3 DEF Counts
    <3> QED
      BY <1>2, <1>3, <2>1, <2>3, <3>1
  <2>4. ASSUME s = t, ElectionStep,
               [term |-> m.currentTerm, leader |-> s] \notin elected
        PROVE  i = 0
    BY <1>1, <2>1, <2>4, NewLeaderWins DEF Wins
  <2> QED
    BY <1>1, <1>5, <2>1, <2>2, <2>3, <2>4 DEF LogStays
<1>6. ASSUME NEW t \in Server, NEW x, NEW w, Sends(t, x, w)
      PROVE  node'[s] = node[s]
  BY <1>6 DEF Sends, SendAppend
<1>7. ASSUME NEW q \in appendReqs, NEW m, NEW st, Merges(q, m, st)
      PROVE  node'[s] = node[s]
  <2>1. q.dst \in Server
    BY DEF TypeOK, IsAppendReq
  <2>2. \A x \in Server : node'[x] = IF x = q.dst THEN m ELSE node[x]
    BY <1>7, <2>1 DEF Merges, Turns, TypeOK
  <2> QED
    BY <1>7, <2>2 DEF Merges
<1>8. ASSUME NEW t \in Server, NEW m, NEW row, Appends(t, m, row)
      PROVE  i = 0 \/ Reached(s, p, node[s].currentTerm, node[s].matchIndex[p])'
  <2>1. \A x \in Server : node'[x] = IF x = t THEN m ELSE node[x]
    BY <1>8 DEF Appends, Turns, TypeOK
  <2>2. CASE s # t
    BY <1>4, <2>1, <2>2
  <2>3. CASE s = t
    BY <1>1, <1>2, <1>8, <2>1, <2>3 DEF Appends
  <2> QED
    BY <2>2, <2>3
<1> QED
  BY <1>1, <1>4, <1>5, <1>6, <1>7, <1>8 DEF RowStep

\* AckInv is inductive, relative to what elections and logs keep.
LEMMA StepAck ==
    NoCompaction /\ NoLostTerm /\ MatchingInv /\ AckInv /\ [Next]_vars => AckInv'
<1> SUFFICES ASSUME NoCompaction, NoLostTerm, MatchingInv, AckInv, [Next]_vars
             PROVE  AckInv'
  OBVIOUS
<1>1. TypeOK /\ ElectionInv /\ LogInv /\ MatchInv /\ Uncompacted
  BY DEF MatchingInv, MatchInv
<1>2. RowStep /\ TypeOK' /\ DisksKept
  BY <1>1, StepRows, StepInv
<1>3. AllInTerm /\ AllInTerm'
  BY <1>1, StepInTerm DEF AllInTerm, AckInv
<1>4. \A s \in Server : node'[s].currentTerm >= node[s].currentTerm
  BY <1>2, <1>3, TermsGrow
<1>5. ASSUME NEW q \in appendReqs', Leads(q.src, q.term)'
      PROVE  Part(RowsOf(q), LogOf(node'[q.src].store))
  <2>1. q.src \in Server
    BY <1>2 DEF TypeOK, IsAppendReq
  <2> QED
    BY <1>1, <1>2, <1>5, <2>1, RequestsKept
<1>6. ASSUME NEW r \in appendReps', r.success
      PROVE  Reached(r.src, r.dst, r.term, r.lastSent)'
  BY <1>1, <1>2, <1>4, <1>6, AnswersKept
<1>7. ASSUME NEW s \in Server, node'[s].role = "leader", NEW p \in Peers(s)
      PROVE  \/ node'[s].matchIndex[p] = 0
             \/ Reached(s, p, node[s].currentTerm, node[s].matchIndex[p])'
  BY <1>1, <1>2, <1>4, <1>7, MatchedKept
<1> QED
  BY <1>3, <1>5, <1>6, <1>7 DEF AckInv, AllInTerm

\* Nothing is acknowledged at first.
LEMMA InitAck == Init => AckInv
BY DEF Init, AckInv, InTerm, FreshStore

----------------------------------------------------------------------------
(* The theorems                                                            *)

\* AckInv holds in every reachable state of a cluster that compacts nothing
\* and whose stores do not lose a term.
THEOREM AckInvariant ==
    NoCompaction /\ NoLostTerm => (Spec => [](MatchingInv /\ AckInv))
<1> SUFFICES ASSUME NoCompaction, NoLostTerm
             PROVE  Spec => [](MatchingInv /\ AckInv)
  OBVIOUS
<1>1. Init => AckInv
  BY InitAck
<1>2. MatchingInv /\ AckInv /\ [Next]_vars => AckInv'
  BY StepAck
<1>3. Spec => []MatchingInv
  BY MatchInvariant
<1> QED
  BY <1>1, <1>2, <1>3, PTL DEF Spec

\* matchIndex of the leader is never ahead of the peer: while the peer has not
\* seen a later term, it holds every row the leader has counted on, whatever
\* answers are late and whatever the peer's log is truncated for, in every
\* cluster that compacts no logs and whose SaveTermVote does not fail.
THEOREM MatchIndexesHonest ==
    NoCompaction /\ NoLostTerm => (Spec => []MatchIndexHonest)
<1> SUFFICES ASSUME NoCompaction, NoLostTerm PROVE Spec => []MatchIndexHonest
  OBVIOUS
<1>1. MatchingInv /\ AckInv => MatchIndexHonest
  <2> SUFFICES ASSUME MatchingInv, AckInv, NEW s \in Server, NEW p \in Peers(s),
                      node[s].role = "leader",
                      node[p].currentTerm <= node[s].currentTerm,
                      NEW i \in DOMAIN node[s].store.log_entries,
                      i <= node[s].matchIndex[p]
               PROVE  Holds(node[p].store, i, node[s].store.log_entries[i])
    BY DEF MatchIndexHonest
  <2>1. /\ node[p].currentTerm \in Nat /\ node[s].currentTerm \in Nat
        /\ i \in Nat /\ i > 0
    <3>1. /\ p \in Server /\ TypeOK /\ LogInv /\ MatchInv
      BY DEF Peers, MatchingInv
    <3>2. /\ Seg(LogOf(node[s].store), LastIndex(node[s].store))
          /\ LogOf(node[s].store).lo = 0
          /\ LogOf(node[s].store).rows = node[s].store.log_entries
      BY <3>1, LogFacts
    <3>3. /\ DOMAIN node[s].store.log_entries = (0 + 1)..LastIndex(node[s].store)
          /\ LastIndex(node[s].store) \in Nat
      BY <3>2 DEF Seg
    <3>4. node[p].currentTerm \in Nat /\ node[s].currentTerm \in Nat
      BY <3>1 DEF TypeOK, IsNode
    <3> QED
      BY <3>3, <3>4
  <2>2. node[s].matchIndex[p] # 0
    BY <2>1
  <2>3. Reached(s, p, node[s].currentTerm, node[s].matchIndex[p])
    BY <2>2 DEF AckInv
  <2>4. node[p].currentTerm = node[s].currentTerm
    BY <2>1, <2>3 DEF Reached
  <2> QED
    BY <2>3, <2>4 DEF Reached, Leads, Agree, Holds
<1>2. Spec => [](MatchingInv /\ AckInv)
  BY AckInvariant
<1> QED
  BY <1>1, <1>2, PTL
============================================================================
