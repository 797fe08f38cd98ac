-------------------------- MODULE RefinementProofs --------------------------
(***************************************************************************)
(* Raft implements Leadership: whatever votes, failed saves, restarts and  *)
(* heartbeats go on, each step elects the winner of a new term, makes one  *)
(* node name a later winner than before, makes it name nobody, or changes  *)
(* nothing that Leadership tells apart.                                    *)
(*                                                                         *)
(* Raft implements ReplicatedStateMachine, under the hypotheses of         *)
(* RaftCommitProofs: each step lets one node take over more of a sequence  *)
(* of commands that only grows, or changes nothing that its users see.     *)
(***************************************************************************)
EXTENDS RaftRefinement, RaftCommitProofs

\* What s does, from n to m, as far as leaders are concerned: it forgets its
\* leader, or its term does not fall.
Climbs(n, m) == m.leaderID = Nobody \/ m.currentTerm >= n.currentTerm

\* One node moves, in a step that elects nobody or elects that node.
OneMoves ==
    \E s \in Server : \E m :
        /\ node' = [node EXCEPT ![s] = m]
        /\ Climbs(node[s], m)
        /\ \/ elected' = elected
           \/ /\ elected' = elected \cup {[term |-> m.currentTerm, leader |-> s]}
              /\ m.leaderID = s

----------------------------------------------------------------------------
(* One step of one node                                                    *)

\* What a move of s does to the winners that nodes name.
LEMMA MoveNames ==
    ASSUME TypeOK, NEW s \in Server, NEW m, node' = [node EXCEPT ![s] = m]
    PROVE  LET N == IF m.leaderID = Nobody THEN {}
                    ELSE {[term |-> m.currentTerm, leader |-> m.leaderID]}
           IN  [t \in Server |-> Named(t)]' =
                    [[t \in Server |-> Named(t)] EXCEPT ![s] = N]
<1>1. \A t \in Server : node'[t] = IF t = s THEN m ELSE node[t]
  BY DEF TypeOK
<1> QED
  BY <1>1 DEF Named

\* Every move is a step of Leadership or changes nothing that it sees.
LEMMA MovesImplement ==
    ASSUME TypeOK, ElectionInv, ElectionInv', OneMoves
    PROVE  [Elections!Next]_(Elections!vars)
<1>0. PICK s \in Server : \E m :
        /\ node' = [node EXCEPT ![s] = m]
        /\ Climbs(node[s], m)
        /\ \/ elected' = elected
           \/ /\ elected' = elected \cup {[term |-> m.currentTerm, leader |-> s]}
              /\ m.leaderID = s
  BY DEF OneMoves
<1>1. PICK m :
        /\ node' = [node EXCEPT ![s] = m]
        /\ Climbs(node[s], m)
        /\ \/ elected' = elected
           \/ /\ elected' = elected \cup {[term |-> m.currentTerm, leader |-> s]}
              /\ m.leaderID = s
  BY <1>0
<1> DEFINE F == [t \in Server |-> Named(t)]
           e == [term |-> m.currentTerm, leader |-> m.leaderID]
<1>2. F' = [F EXCEPT ![s] = IF m.leaderID = Nobody THEN {} ELSE {e}]
  BY <1>1, MoveNames
<1>3. CASE m.leaderID = Nobody
  <2>1. elected' = elected /\ F' = [F EXCEPT ![s] = {}]
    BY <1>1, <1>2, <1>3, RaftConstants
  <2> QED
    BY <2>1 DEF Elections!Next, Elections!Forget
<1>4. CASE m.leaderID # Nobody
  <2>1. F' = [F EXCEPT ![s] = {e}]
    BY <1>2, <1>4
  <2>2. e \in elected' /\ node'[s] = m
    BY <1>1, <1>4 DEF TypeOK, ElectionInv, HintInv
  <2>3. \A a, b \in elected' : a.term = b.term => a = b
    BY DEF ElectionInv, ElectionSafety
  <2>4. CASE e \in elected
    <3>1. elected' = elected
      BY <1>1, <2>4
    <3>2. \A v \in F[s] : v \in elected /\ v.term <= m.currentTerm
      BY <1>1, <1>4, NodeFacts DEF Named, HintInv, Climbs
    <3>3. CASE \A v \in F[s] : v.term < e.term
      BY <2>1, <2>4, <3>1, <3>3 DEF Elections!Next, Elections!Follow
    <3>4. CASE \E v \in F[s] : ~(v.term < e.term)
      <4>1. PICK v \in F[s] : ~(v.term < e.term)
        BY <3>4
      <4>2. v.term \in Nat /\ m.currentTerm \in Nat
        BY <2>4, <3>2, <4>1 DEF TypeOK
      <4>3. v = e
        BY <2>3, <2>4, <3>1, <3>2, <4>1, <4>2
      <4>4. F[s] = {e}
        BY <4>1, <4>3 DEF Named
      <4>5. F' = F
        BY <2>1, <4>4
      <4> QED
        BY <3>1, <4>5 DEF Elections!vars
    <3> QED
      BY <3>3, <3>4
  <2>5. CASE e \notin elected
    <3>1. elected' = elected \cup {e} /\ e.leader = s
      BY <1>1, <2>2, <2>5
    <3>2. \A v \in elected : v.term # e.term
      BY <2>2, <2>3, <2>5, <3>1
    <3> QED
      BY <2>1, <2>5, <3>1, <3>2 DEF Elections!Next, Elections!Elect
  <2> QED
    BY <2>4, <2>5
<1> QED
  BY <1>3, <1>4

----------------------------------------------------------------------------
(* Every step is a move, or changes no node and elects nobody              *)

Still == node' = node /\ elected' = elected

\* What leaves alone all that elections depend on does not lower the term.
LEMMA SameClimbs ==
    ASSUME NEW n, IsNode(n), NEW m, Same(n, m)
    PROVE  Climbs(n, m)
BY DEF Same, Climbs, IsNode

\* Stepping down raises the term or leaves it.
LEMMA StepDownTerm ==
    ASSUME NEW n, IsNode(n), NEW term, NEW leader, NEW f
    PROVE  LET m == stepDownLocked(n, term, leader, f)
           IN  /\ m.leaderID = leader
               /\ m.currentTerm = IF term > n.currentTerm THEN term
                                  ELSE n.currentTerm
BY DEF stepDownLocked, IsNode

\* A leader's request brings its receiver to its term, a candidate's too.
LEMMA SeenClimbs ==
    ASSUME NEW n, IsNode(n), NEW q, q.term \in Nat, q.src \in Server, NEW f,
           q.term >= n.currentTerm
    PROVE  /\ Climbs(n, SeenByFollower(n, q, f))
           /\ Climbs(n, SeenByVoter(n, q, f))
<1> DEFINE m == IF q.term > n.currentTerm \/ n.role # "follower"
                THEN stepDownLocked(n, q.term, q.src, f) ELSE n
<1>1. n.currentTerm \in Nat
  BY DEF IsNode
<1>2. IsNode(m) /\ m.currentTerm >= n.currentTerm
  BY <1>1, StepDownType, StepDownTerm DEF Ids
<1> HIDE DEF m
<1>3. SeenByFollower(n, q, f) = [m EXCEPT !.leaderID = q.src]
  BY DEF SeenByFollower, m
<1>4. SeenByFollower(n, q, f).currentTerm = m.currentTerm
  BY <1>2, <1>3 DEF IsNode
<1>5. Climbs(n, SeenByVoter(n, q, f))
  BY <1>1, StepDownTerm DEF SeenByVoter, Climbs, Ids
<1> QED
  BY <1>2, <1>4, <1>5 DEF Climbs

\* The steps of an election.
LEMMA ElectionMoves ==
    ASSUME TypeOK, ElectionInv, ElectionStep
    PROVE  OneMoves \/ Still
<1>1. ASSUME NEW q \in voteReqs
      PROVE  q.src \in Server /\ q.dst \in Server /\ q.term \in Nat
  BY DEF TypeOK, VoteReqs
<1>2. ASSUME NEW r \in voteReps
      PROVE  r.src \in Server /\ r.dst \in Server /\ r.rterm \in Nat
  BY DEF TypeOK, VoteReps
<1>3. ASSUME NEW s \in Server, NEW m, node' = [node EXCEPT ![s] = m],
             Climbs(node[s], m), elected' = elected
      PROVE  OneMoves
  BY <1>3 DEF OneMoves
<1>4. ASSUME NEW s \in Server, StartElection(s)
      PROVE  OneMoves
  <2> DEFINE n == Campaign(node[s], s)
             st == SaveTermVote(n.store, n.currentTerm, s)
             m == [n EXCEPT !.votes = {s}, !.store = st]
  <2>1. IsNode(n) /\ n.leaderID = Nobody
    BY NodeFacts, CampaignType
  <2>2. node' = [node EXCEPT ![s] = m] /\ elected' = elected
    BY <1>4 DEF StartElection
  <2> HIDE DEF n, st
  <2>3. Climbs(node[s], m)
    BY <2>1 DEF IsNode, Climbs
  <2> QED
    BY <1>3, <2>2, <2>3
<1>5. ASSUME NEW s \in Server, NEW f \in Faults, StartElectionError(s, f)
      PROVE  OneMoves
  <2> DEFINE n == Campaign(node[s], s)
             st == IF f.method = "SaveTermVote" THEN n.store
                   ELSE SaveTermVote(n.store, n.currentTerm, s)
             m == [n EXCEPT !.votes = {}, !.store = st]
  <2>1. IsNode(n) /\ n.leaderID = Nobody
    BY NodeFacts, CampaignType
  <2>2. node' = [node EXCEPT ![s] = m] /\ elected' = elected
    BY <1>5 DEF StartElectionError
  <2> HIDE DEF n, st
  <2>3. Climbs(node[s], m)
    BY <2>1 DEF IsNode, Climbs
  <2> QED
    BY <1>3, <2>2, <2>3
<1>6. ASSUME NEW n, IsNode(n), NEW s \in Server, NEW f
      PROVE  LET m == becomeLeaderLocked(n, s, f)
             IN  /\ m.currentTerm = n.currentTerm
                 /\ m.leaderID = IF f.method = "LastIndexAndTerm" THEN n.leaderID ELSE s
  BY <1>6 DEF becomeLeaderLocked, IsNode
<1>7. ASSUME NEW s \in Server, WinAlone(s)
      PROVE  OneMoves
  <2> DEFINE m == becomeLeaderLocked(node[s], s, NoFault)
  <2>1. m.currentTerm = node[s].currentTerm /\ m.leaderID = s
    BY <1>6, NodeFacts DEF NoFault
  <2>2. /\ node' = [node EXCEPT ![s] = m]
        /\ elected' = elected \cup {[term |-> node[s].currentTerm, leader |-> s]}
    BY <1>7 DEF WinAlone
  <2> HIDE DEF m
  <2>3. Climbs(node[s], m)
    BY <2>1, NodeFacts DEF Climbs
  <2> QED
    BY <2>1, <2>2, <2>3 DEF OneMoves
<1>8. ASSUME NEW q \in voteReqs, RequestVoteStale(q)
      PROVE  Still
  BY <1>8 DEF RequestVoteStale, VoteAnswer, Still
<1>9. ASSUME NEW q \in voteReqs, NEW f, q.term >= node[q.dst].currentTerm,
             NEW v, NEW st,
             LET n == SeenByVoter(node[q.dst], q, f)
             IN  node' = [node EXCEPT ![q.dst] =
                            [n EXCEPT !.votedFor = v, !.store = st]],
             elected' = elected
      PROVE  OneMoves
  <2> DEFINE n == SeenByVoter(node[q.dst], q, f)
             m == [n EXCEPT !.votedFor = v, !.store = st]
  <2>1. IsNode(n) /\ Climbs(node[q.dst], n) /\ q.dst \in Server
    BY <1>1, <1>9, NodeFacts, SeenByVoterType, SeenClimbs
  <2>2. node' = [node EXCEPT ![q.dst] = m]
    BY <1>9
  <2> HIDE DEF n
  <2>3. Climbs(node[q.dst], m)
    BY <2>1 DEF Climbs, IsNode
  <2> QED
    BY <1>3, <1>9, <2>1, <2>2, <2>3
<1>10. ASSUME NEW q \in voteReqs, RequestVoteGranted(q)
       PROVE  OneMoves
  BY <1>9, <1>10 DEF RequestVoteGranted, VoteAnswer
<1>11. ASSUME NEW q \in voteReqs, NEW f \in Faults, RequestVoteRejected(q, f)
       PROVE  OneMoves
  BY <1>1, <1>3, <1>11, NodeFacts, SeenClimbs
     DEF RequestVoteRejected, VoteAnswer
<1>12. ASSUME NEW q \in voteReqs, NEW f \in Faults, RequestVoteError(q, f)
       PROVE  OneMoves
  <2>0. PICK g \in {f, NoFault} :
            LET n == SeenByVoter(node[q.dst], q, g)
            IN  \/ node' = [node EXCEPT ![q.dst] = n]
                \/ node' = [node EXCEPT ![q.dst] = [n EXCEPT !.votedFor = q.src]]
    BY <1>12 DEF RequestVoteError
  <2> DEFINE n == SeenByVoter(node[q.dst], q, g)
             m == [n EXCEPT !.votedFor = q.src]
  <2>1. IsNode(n) /\ Climbs(node[q.dst], n) /\ q.dst \in Server
    BY <1>1, <1>12, NodeFacts, SeenByVoterType, SeenClimbs DEF RequestVoteError
  <2>2. /\ node' \in {[node EXCEPT ![q.dst] = n], [node EXCEPT ![q.dst] = m]}
        /\ elected' = elected
    BY <1>12, <2>0 DEF RequestVoteError
  <2> HIDE DEF n
  <2>3. Climbs(node[q.dst], m)
    BY <2>1 DEF Climbs, IsNode
  <2> QED
    BY <1>3, <2>1, <2>2, <2>3
<1>13. ASSUME NEW r \in voteReps, NEW f \in Faults, VoteReplyStepDown(r, f)
       PROVE  OneMoves
  <2>1. Climbs(node[r.src], stepDownLocked(node[r.src], r.rterm, Nobody, f))
    BY <1>2, NodeFacts, StepDownTerm DEF Climbs
  <2> QED
    BY <1>2, <1>3, <1>13, <2>1 DEF VoteReplyStepDown
<1>14. ASSUME NEW r \in voteReps, NEW f \in Faults, VoteReplyCounted(r, f)
       PROVE  OneMoves
  <2> DEFINE s == r.src
             n == [node[s] EXCEPT !.votes = @ \cup {r.dst}]
             won == Cardinality(n.votes) >= Majority
             b == becomeLeaderLocked(n, s, f)
             e == [term |-> n.currentTerm, leader |-> s]
  <2>1. /\ IsNode(n) /\ n.currentTerm = node[s].currentTerm
        /\ n.leaderID = node[s].leaderID /\ s \in Server
    <3>1. s \in Server /\ r.dst \in Server /\ IsNode(node[s])
      BY <1>2, NodeFacts
    <3> HIDE DEF s
    <3> QED
      BY <3>1 DEF IsNode
  <2>2. /\ b.currentTerm = n.currentTerm
        /\ b.leaderID = IF f.method = "LastIndexAndTerm" THEN n.leaderID ELSE s
    <3> HIDE DEF n, s
    <3> QED
      BY <1>6, <2>1
  <2>3. /\ node' = [node EXCEPT ![s] = IF won THEN b ELSE n]
        /\ elected' = elected \cup {[term |-> t, leader |-> s] :
                    t \in IF won /\ f.method # "LastIndexAndTerm"
                          THEN {n.currentTerm} ELSE {}}
    BY <1>14 DEF VoteReplyCounted
  <2>4. node[s].currentTerm \in Nat
    BY <2>1, NodeFacts
  <2>5. Climbs(node[s], n) /\ Climbs(node[s], b)
    BY <2>1, <2>2, <2>4 DEF Climbs
  <2>6. CASE won /\ f.method # "LastIndexAndTerm"
    <3>1. node' = [node EXCEPT ![s] = b] /\ elected' = elected \cup {e}
      BY <2>3, <2>6
    <3> HIDE DEF b, n, won
    <3> QED
      BY <2>1, <2>2, <2>5, <2>6, <3>1 DEF OneMoves
  <2>7. CASE ~(won /\ f.method # "LastIndexAndTerm")
    <3>1. elected' = elected
      BY <2>3, <2>7
    <3> HIDE DEF b, n, won
    <3> QED
      BY <1>3, <2>1, <2>3, <2>5, <3>1
  <2> QED
    BY <2>6, <2>7
<1> QED
  BY <1>4, <1>5, <1>7, <1>8, <1>10, <1>11, <1>12, <1>13, <1>14 DEF ElectionStep

\* The steps of a leader.
LEMMA LeaderMoves ==
    ASSUME TypeOK, ElectionInv, LeaderStep
    PROVE  OneMoves \/ Still
<1>1. ASSUME NEW r \in appendReps \cup snapReps
      PROVE  r.src \in Server /\ r.dst \in Server
  BY DEF TypeOK, AppendReps, SnapReps
<1>2. ASSUME NEW s \in Server, NEW m, node' = [node EXCEPT ![s] = m],
             Climbs(node[s], m), elected' = elected
      PROVE  OneMoves
  BY <1>2 DEF OneMoves
<1>3. ASSUME NEW s \in Server, NEW f
      PROVE  \A term : Climbs(node[s], stepDownLocked(node[s], term, Nobody, f))
  BY NodeFacts, StepDownTerm DEF Climbs
<1>4. ASSUME NEW s \in Server, NEW m, IsNode(m), Same(node[s], m), NEW f,
             node' = [node EXCEPT ![s] = advanceCommitLocked(m, s, f)],
             elected' = elected
      PROVE  OneMoves
  <2>1. Same(m, advanceCommitLocked(m, s, f))
    BY <1>4, AdvanceSame
  <2>2. Same(node[s], advanceCommitLocked(m, s, f))
    BY <1>4, <2>1 DEF Same, SameVote
  <2> QED
    BY <1>2, <1>4, <2>2, NodeFacts, SameClimbs
<1>5. ASSUME NEW s \in Server, NEW p \in Peers(s), NEW w \in Worker,
             SendAppend(s, p, w) \/ SendSnapshot(s, p, w)
      PROVE  Still
  BY <1>5 DEF SendAppend, SendSnapshot, Still
<1>6. ASSUME NEW r \in appendReps, NEW f \in Faults, AppendReplyStepDown(r, f)
      PROVE  OneMoves
  BY <1>1, <1>2, <1>3, <1>6 DEF AppendReplyStepDown
<1>7. ASSUME NEW r \in snapReps, NEW f \in Faults, SnapReplyStepDown(r, f)
      PROVE  OneMoves
  BY <1>1, <1>2, <1>3, <1>7 DEF SnapReplyStepDown
<1>8. ASSUME NEW r \in appendReps, NEW f \in Faults, AppendReplySuccess(r, f)
      PROVE  OneMoves
  <2> DEFINE s == r.src
             n == node[s]
             match == Max({r.matchIndex, r.lastSent, n.matchIndex[r.dst]})
             m == [n EXCEPT !.matchIndex[r.dst] = match,
                            !.nextIndex[r.dst]  = match + 1]
  <2>1. /\ node' = [node EXCEPT ![s] = advanceCommitLocked(m, s, f)]
        /\ elected' = elected
    BY <1>8 DEF AppendReplySuccess
  <2>2. s \in Server /\ IsNode(n)
    BY <1>1, NodeFacts
  <2>3. IsNode(m)
    BY <2>2, MatchedNodeType DEF TypeOK
  <2> HIDE DEF match
  <2>4. Same(n, m)
    BY <2>2 DEF IsNode, Same, SameVote
  <2> HIDE DEF m, s
  <2> QED
    BY <1>4, <2>1, <2>2, <2>3, <2>4
<1>9. ASSUME NEW r \in appendReps, AppendReplyFailure(r)
      PROVE  OneMoves
  <2> DEFINE s == r.src
             n == node[s]
             next == IF n.nextIndex[r.dst] > 1 THEN n.nextIndex[r.dst] - 1
                     ELSE n.nextIndex[r.dst]
             m == [n EXCEPT !.nextIndex[r.dst] = next]
  <2>1. node' = [node EXCEPT ![s] = m] /\ elected' = elected
    BY <1>9 DEF AppendReplyFailure
  <2>2. s \in Server /\ IsNode(n)
    BY <1>1, NodeFacts
  <2> HIDE DEF next
  <2>3. Same(n, m)
    BY <2>2 DEF IsNode, Same, SameVote
  <2> HIDE DEF m, s
  <2> QED
    BY <1>2, <2>1, <2>2, <2>3, SameClimbs
<1>10. ASSUME NEW r \in snapReps, NEW f \in Faults, SnapReplySuccess(r, f)
       PROVE  OneMoves
  <2> DEFINE s == r.src
             n == node[s]
             i == r.lastIncludedIndex
             m == [n EXCEPT !.matchIndex[r.dst] = i,
                            !.nextIndex[r.dst]  = i + 1]
  <2>1. /\ node' = [node EXCEPT ![s] = advanceCommitLocked(m, s, f)]
        /\ elected' = elected
    BY <1>10 DEF SnapReplySuccess
  <2>2. /\ s \in Server /\ r.dst \in Server /\ IsNode(n) /\ i \in Index
        /\ i + 1 \in 0..(MaxIndex + 1)
    BY <1>1, NodeFacts, RaftConstants DEF TypeOK, SnapReps, Index
  <2> HIDE DEF i
  <2>3. IsNode(m) /\ Same(n, m)
    BY <2>2 DEF IsNode, Same, SameVote
  <2> HIDE DEF m, s
  <2> QED
    BY <1>4, <2>1, <2>2, <2>3
<1>11. ASSUME NEW s \in Server, NEW cmd \in Command, NEW f \in Faults,
              Write(s, cmd, f)
       PROVE  OneMoves
  <2> DEFINE n == node[s]
             index == LastIndex(n.store) + 1
             st == AppendEntries(n.store, [i \in {index} |->
                        [term |-> n.currentTerm, cmd |-> cmd]])
             m == [n EXCEPT !.store = st, !.matchIndex[s] = index]
  <2>1. /\ node' = [node EXCEPT ![s] =
                IF Majority = 1 THEN advanceCommitLocked(m, s, f) ELSE m]
        /\ elected' = elected /\ index <= MaxIndex
    BY <1>11 DEF Write
  <2>2. IsNode(n) /\ IsStore(n.store)
    BY NodeFacts
  <2>3. IsNode(m)
    BY <2>1, <2>2, WrittenNodeType
  <2>4. SameVote(n.store, st)
    BY <2>2 DEF IsStore, AppendEntries, SameVote
  <2> HIDE DEF st, index
  <2>5. Same(n, m)
    BY <2>2, <2>4 DEF IsNode, Same
  <2> HIDE DEF m
  <2>6. CASE Majority = 1
    BY <1>4, <2>1, <2>3, <2>5, <2>6
  <2>7. CASE Majority # 1
    BY <1>2, <2>1, <2>2, <2>5, <2>7, SameClimbs
  <2> QED
    BY <2>6, <2>7
<1> QED
  BY <1>5, <1>6, <1>7, <1>8, <1>9, <1>10, <1>11 DEF LeaderStep

\* The steps of a follower.
LEMMA FollowerMoves ==
    ASSUME TypeOK, ElectionInv, FollowerStep
    PROVE  OneMoves \/ Still
<1>1. ASSUME NEW q \in appendReqs \cup snapReqs
      PROVE  q.src \in Server /\ q.dst \in Server /\ q.term \in Nat
  BY DEF TypeOK, IsAppendReq, SnapReqs
<1>2. ASSUME NEW q \in appendReqs \cup snapReqs, NEW f, NEW m,
             q.term >= node[q.dst].currentTerm,
             Same(SeenByFollower(node[q.dst], q, f), m),
             node' = [node EXCEPT ![q.dst] = m], elected' = elected
      PROVE  OneMoves
  <2>1. Climbs(node[q.dst], SeenByFollower(node[q.dst], q, f))
    BY <1>1, <1>2, NodeFacts, SeenClimbs
  <2>2. Climbs(node[q.dst], m)
    BY <1>2, <2>1 DEF Climbs, Same
  <2> QED
    BY <1>1, <1>2, <2>2 DEF OneMoves
<1>3. ASSUME NEW n PROVE Same(n, n)
  BY DEF Same, SameVote
<1>4. ASSUME NEW q \in appendReqs \cup snapReqs, NEW f
      PROVE  /\ IsNode(SeenByFollower(node[q.dst], q, f))
             /\ IsStore(SeenByFollower(node[q.dst], q, f).store)
  <2>1. IsNode(SeenByFollower(node[q.dst], q, f))
    BY <1>1, NodeFacts, SeenByFollowerType
  <2> QED
    BY <2>1 DEF IsNode
<1>5. ASSUME NEW n, NEW st, IsNode(n), SameVote(n.store, st)
      PROVE  Same(n, [n EXCEPT !.store = st])
  BY <1>5 DEF IsNode, Same
<1>6. ASSUME NEW q \in appendReqs, AppendStale(q) PROVE Still
  BY <1>6 DEF AppendStale, AppendAnswer, Still
<1>7. ASSUME NEW q \in appendReqs, NEW f \in Faults, AppendRefused(q, f)
      PROVE  OneMoves
  BY <1>2, <1>3, <1>7 DEF AppendRefused, AppendAnswer
<1>8. ASSUME NEW q \in appendReqs, NEW f \in Faults, AppendAccepted(q, f)
      PROVE  OneMoves
  <2> DEFINE n == SeenByFollower(node[q.dst], q, f)
             st == Merged(n.store, q)
             m == [n EXCEPT !.store = st]
             k == FollowCommit(m, q.dst, q, f)
  <2>1. /\ node' = [node EXCEPT ![q.dst] = k] /\ elected' = elected
        /\ q.term >= node[q.dst].currentTerm
    BY <1>8 DEF AppendAccepted, AppendAnswer
  <2>2. /\ IsNode(n) /\ IsStore(n.store) /\ IsAppendReq(q)
        /\ q.dst \in Server
    BY <1>1, <1>4 DEF TypeOK
  <2>3. IsStore(st) /\ SameVote(n.store, st)
    BY <2>2, MergedType, MergeSame
  <2>4. Same(n, k)
    <3> HIDE DEF n, st
    <3>1. IsNode(m) /\ Same(n, m)
      BY <1>5, <2>2, <2>3 DEF IsNode
    <3> HIDE DEF m
    <3>2. Same(m, k)
      BY <2>2, <3>1, FollowCommitSame
    <3> QED
      BY <3>1, <3>2 DEF Same, SameVote
  <2> QED
    BY <1>2, <2>1, <2>4
<1>9. ASSUME NEW q \in appendReqs, NEW f \in Faults, AppendError(q, f)
      PROVE  OneMoves
  <2> DEFINE n == SeenByFollower(node[q.dst], q, f)
             t == Truncated(n.store, q)
             g == Merged(n.store, q)
  <2>1. PICK m \in {n, [n EXCEPT !.store = t], [n EXCEPT !.store = g]} :
            node' = [node EXCEPT ![q.dst] = m]
    BY <1>9 DEF AppendError
  <2>2. elected' = elected /\ q.term >= node[q.dst].currentTerm
    BY <1>9 DEF AppendError
  <2>3. Same(n, m)
    <3>1. IsNode(n) /\ IsStore(n.store)
      BY <1>4
    <3> HIDE DEF n
    <3>2. SameVote(n.store, t) /\ SameVote(n.store, g)
      BY <3>1, MergeSame
    <3> HIDE DEF t, g
    <3> QED
      BY <1>3, <1>5, <2>1, <3>1, <3>2
  <2> QED
    BY <1>2, <2>1, <2>2, <2>3
<1>10. ASSUME NEW q \in snapReqs, SnapshotStale(q) PROVE Still
  BY <1>10 DEF SnapshotStale, SnapAnswer, Still
<1>11. ASSUME NEW q \in snapReqs, NEW f \in Faults, SnapshotIgnored(q, f)
       PROVE  OneMoves
  BY <1>2, <1>3, <1>11 DEF SnapshotIgnored, SnapAnswer
<1>12. ASSUME NEW q \in snapReqs, NEW f \in Faults, SnapshotInstalled(q, f)
       PROVE  OneMoves
  <2> DEFINE n == SeenByFollower(node[q.dst], q, f)
             i == q.lastIncludedIndex
             st == InstallSnapshot(n.store, i, q.lastIncludedTerm, q.data)
             c == Max({n.commitIndex, i})
             l == Max({n.lastApplied, i})
             m == [n EXCEPT !.store = st, !.commitIndex = c, !.lastApplied = l]
  <2>1. /\ node' = [node EXCEPT ![q.dst] = m] /\ elected' = elected
        /\ q.term >= node[q.dst].currentTerm
    BY <1>12 DEF SnapshotInstalled, SnapAnswer
  <2>2. Same(n, m)
    <3>1. IsNode(n) /\ IsStore(n.store)
      BY <1>4
    <3> HIDE DEF n
    <3>2. SameVote(n.store, st)
      BY <3>1 DEF IsStore, InstallSnapshot, SameVote
    <3> HIDE DEF st, c, l
    <3> QED
      BY <3>1, <3>2 DEF IsNode, Same
  <2> QED
    BY <1>2, <2>1, <2>2
<1>13. ASSUME NEW q \in snapReqs, NEW f \in Faults, SnapshotError(q, f)
       PROVE  OneMoves
  BY <1>2, <1>3, <1>13 DEF SnapshotError
<1> QED
  BY <1>6, <1>7, <1>8, <1>9, <1>10, <1>11, <1>12, <1>13 DEF FollowerStep

\* Timeouts, losses and restarts: a node that comes back names nobody.
LEMMA MisfortuneMoves ==
    ASSUME TypeOK, Misfortune
    PROVE  OneMoves \/ Still
<1>1. ASSUME NEW s \in Unstable, Restart(s)
      PROVE  OneMoves
  <2> DEFINE st == node[s].store
             m == [role        |-> "follower",
                   currentTerm |-> st.current_term,
                   votedFor    |-> st.voted_for,
                   leaderID    |-> Nobody,
                   commitIndex |-> st.last_applied,
                   lastApplied |-> st.last_applied,
                   nextIndex   |-> [p \in Server |-> 0],
                   matchIndex  |-> [p \in Server |-> 0],
                   votes       |-> {},
                   store       |-> st,
                   applied     |-> node[s].applied]
  <2>1. node' = [node EXCEPT ![s] = m] /\ elected' = elected
    BY <1>1 DEF Restart
  <2>2. Climbs(node[s], m) /\ s \in Server
    BY RaftConstants DEF Climbs
  <2> HIDE DEF m
  <2> QED
    BY <2>1, <2>2 DEF OneMoves
<1> QED
  BY <1>1 DEF Misfortune, AppendTimeout, AppendReplyLost, SnapTimeout,
              SnapReplyLost, Still

\* A step of the cluster is one of one node.
LEMMA StepOne ==
    ASSUME TypeOK, ElectionInv, [Next]_vars
    PROVE  OneMoves \/ Still
BY ElectionMoves, LeaderMoves, FollowerMoves, MisfortuneMoves
   DEF Next, vars, Still

----------------------------------------------------------------------------
\* Raft implements Leadership, for every cluster and every choice of the
\* constants: the winners and the leaderID of every node, with all of
\* startElection, RequestVote, stepDownLocked, the two replication handlers
\* and New below, only ever change as that specification says.
THEOREM RaftImplementsLeadership == Spec => ImplementsLeadership
<1>1. Init => Elections!Init
  BY RaftConstants DEF Init, Elections!Init, Named
<1>2. TypeOK /\ ElectionInv /\ [Next]_vars => [Elections!Next]_(Elections!vars)
  <2> SUFFICES ASSUME TypeOK, ElectionInv, [Next]_vars
               PROVE  [Elections!Next]_(Elections!vars)
    OBVIOUS
  <2>1. ElectionInv'
    BY StepInv
  <2>2. OneMoves \/ Still
    BY StepOne
  <2>3. CASE OneMoves
    BY <2>1, <2>3, MovesImplement
  <2>4. CASE Still
    BY <2>4 DEF Still, Elections!vars, Named
  <2> QED
    BY <2>2, <2>3, <2>4
<1> QED
  BY <1>1, <1>2, ElectionsInvariant, PTL
     DEF Spec, ImplementsLeadership, Elections!Spec

----------------------------------------------------------------------------
(* The state machine                                                       *)

\* The abstract specification counts as the model does,
LEMMA MachineCardinality ==
    ASSUME NEW S
    PROVE  Machine!Cardinality(S) = Cardinality(S)
BY DEF Machine!Cardinality, Cardinality

\* ... and sets rows as the model does.
LEMMA MachineReplay ==
    ASSUME NEW i
    PROVE  Machine!Replay(History, i) = Replay(i)
BY Zenon DEF Machine!Replay, Replay

\* The commands that were applied are numbered without a gap, as far as the
\* node goes that has applied most of them.
HistoryLog ==
    /\ Machine!IsLog(History)
    /\ Cardinality(History) \in Nat
    /\ \A s \in Server : node[s].lastApplied <= Cardinality(History)

\* The node that has applied most has applied them all.
LEMMA HistoryIsLog == SafetyInv => HistoryLog
<1> SUFFICES ASSUME SafetyInv PROVE HistoryLog
  OBVIOUS
<1>1. StateMachineSafety
  BY SafeHistory
<1>2. ASSUME NEW s \in Server PROVE node[s].lastApplied \in 0..MaxIndex
  BY <1>1, HistoryRows
<1>3. PICK S : S = {node[s].lastApplied : s \in Server}
  OBVIOUS
<1>4. PICK t \in Server : \A s \in Server : node[s].lastApplied <= node[t].lastApplied
  <2>1. S \subseteq 0..MaxIndex /\ S # {} /\ MaxIndex \in Nat
    BY <1>2, <1>3, RaftConstants
  <2>2. Max(S) \in S /\ \A y \in S : Max(S) >= y
    BY <2>1, MaxExists
  <2>3. PICK t \in Server : node[t].lastApplied = Max(S)
    BY <1>3, <2>2
  <2>4. ASSUME NEW s \in Server PROVE node[s].lastApplied <= node[t].lastApplied
    <3>1. node[s].lastApplied \in S
      BY <1>3
    <3>2. node[t].lastApplied >= node[s].lastApplied
      BY <2>2, <2>3, <3>1
    <3>3. node[t].lastApplied \in Nat /\ node[s].lastApplied \in Nat
      BY <1>2
    <3> QED
      BY <3>2, <3>3
  <2> QED
    BY <2>4
<1>5. PICK N : N = node[t].lastApplied
  OBVIOUS
<1>6. N \in Nat
  BY <1>2, <1>5
<1>7. PICK log : log = node[t].store.log_entries
  OBVIOUS
<1> DEFINE At(i) == [index |-> i, row |-> log[i]]
           f == [i \in 1..N |-> At(i)]
<1>8. ASSUME NEW a \in History PROVE a.index <= N
  <2>1. PICK s \in Server : a \in node[s].applied
    BY DEF History
  <2>2. node[s].applied = {[index |-> i, row |-> node[s].store.log_entries[i]] :
                                i \in 1..node[s].lastApplied}
    BY DEF SafetyInv, CommitInv, Executed
  <2>3. a.index \in 1..node[s].lastApplied
    BY <2>1, <2>2
  <2>4. node[s].lastApplied <= N /\ node[s].lastApplied \in Nat
    BY <1>2, <1>4, <1>5
  <2> QED
    BY <1>6, <2>3, <2>4
<1>9. History = {At(i) : i \in 1..N}
  <2>1. ASSUME NEW a PROVE a \in History <=> \E i \in 1..N : a = At(i)
    <3>1. (a \in History /\ a.index <= N) <=> \E i \in 1..N : a = At(i)
      BY <1>1, <1>5, <1>7, HistoryRows
    <3> QED
      BY <1>8, <3>1
  <2> QED
    BY <2>1
<1>10. Cardinality(History) = N
  <2>1. IsFiniteSet(1..N) /\ Cardinality(1..N) = N
    BY <1>6, FS_Interval
  <2>2. ExistsBijection(1..N, History)
    <3>1. f \in [1..N -> History]
      BY <1>9
    <3>2. ASSUME NEW i \in 1..N, NEW j \in 1..N, f[i] = f[j] PROVE i = j
      <4>1. At(i) = At(j) /\ At(i).index = i /\ At(j).index = j
        BY <3>2
      <4> QED
        BY <4>1
    <3>3. \A a \in History : \E i \in 1..N : f[i] = a
      BY <1>9
    <3> HIDE DEF f
    <3> QED
      BY <3>1, <3>2, <3>3 DEF ExistsBijection, Bijection, Injection, Surjection, IsInjective
  <2> QED
    BY <2>1, <2>2, FS_Bijection
<1>11. {a.index : a \in History} = 1..N
  <2>1. ASSUME NEW i \in 1..N PROVE At(i) \in History /\ At(i).index = i
    BY <1>9
  <2>2. ASSUME NEW a \in History PROVE a.index \in 1..N
    BY <1>9
  <2> HIDE DEF At
  <2> QED
    BY <2>1, <2>2
<1> QED
  BY <1>4, <1>5, <1>6, <1>10, <1>11, MachineCardinality
     DEF HistoryLog, Machine!IsLog

\* This is so after a step, too,
LEMMA HistoryIsLogNext == SafetyInv' => HistoryLog'
BY HistoryIsLog, PTL

\* ... and the tables are what the commands give.
TablesReplayed ==
    \A s \in Server :
        node[s].store.kv = Machine!Replay(History, node[s].store.last_applied)

\* That is DurableStateMachine, in the words of the abstract specification.
LEMMA TablesAreReplayed == SafetyInv => TablesReplayed
BY SafeStateMachine, MachineReplay DEF DurableStateMachine, TablesReplayed

\* It is so after a step, too.
LEMMA TablesAreReplayedNext == SafetyInv' => TablesReplayed'
BY TablesAreReplayed, PTL

\* What a step of the cluster is to its users.
LEMMA StepMachine ==
    ASSUME SafetyInv, SafetyInv', CommitsMove, OneMoves \/ Still
    PROVE  [Machine!Next]_(Machine!vars)
<1>1. CASE Still
  BY <1>1 DEF Still, Machine!vars, History
<1>2. CASE OneMoves
  <2>1. PICK s \in Server : \E m : node' = [node EXCEPT ![s] = m]
    BY <1>2 DEF OneMoves
  <2>2. \A t \in Server : t # s => node'[t] = node[t]
    BY <2>1 DEF SafetyInv, CoreInv, MatchingInv, TypeOK
  <2>3. History \subseteq History'
    <3>1. \A t \in Server : node[t].applied \subseteq node'[t].applied
      BY DEF CommitsMove, CommitMove, Ran
    <3> QED
      BY <3>1 DEF History
  <2>4. HistoryLog'
    BY HistoryIsLogNext
  <2>5. PICK x : x = node'[s].store.last_applied
    OBVIOUS
  <2>6. x \in node[s].store.last_applied..Cardinality(History')
    <3>1. node'[s].lastApplied = x /\ x <= Cardinality(History') /\ x \in Nat
      <4>1. node'[s].lastApplied = x
        BY <2>5 DEF SafetyInv, CommitInv, LastAppliedIsDurable
      <4>2. IsNode(node'[s])
        BY DEF SafetyInv, CoreInv, MatchingInv, TypeOK
      <4>3. node'[s].lastApplied \in Index
        BY <4>2 DEF IsNode
      <4> QED
        BY <2>4, <4>1, <4>3, RaftConstants DEF HistoryLog, Index
    <3>2. /\ node[s].lastApplied = node[s].store.last_applied
          /\ node[s].lastApplied <= x
      <4>1. node'[s].lastApplied >= node[s].lastApplied
        BY DEF CommitsMove, CommitMove, Ran
      <4>2. node[s].lastApplied = node[s].store.last_applied
        BY DEF SafetyInv, CommitInv, LastAppliedIsDurable
      <4> QED
        BY <3>1, <4>1, <4>2
    <3>3. node[s].lastApplied \in Nat
      <4>1. IsNode(node[s])
        BY DEF SafetyInv, CoreInv, MatchingInv, TypeOK
      <4>2. node[s].lastApplied \in Index
        BY <4>1 DEF IsNode
      <4> QED
        BY <4>2, RaftConstants DEF Index
    <3>4. Cardinality(History') \in Nat
      BY <2>4 DEF HistoryLog
    <3> QED
      BY <3>1, <3>2, <3>3, <3>4
  <2>7. node'[s].store.kv = Machine!Replay(History', x)
    <3>1. TablesReplayed'
      BY TablesAreReplayedNext
    <3> QED
      BY <2>5, <3>1 DEF TablesReplayed
  <2> DEFINE pos == [t \in Server |-> node[t].store.last_applied]
             tab == [t \in Server |-> node[t].store.kv]
  <2>8. pos'[s] = x /\ pos[s] = node[s].store.last_applied
    BY <2>5
  <2>9. pos' = [pos EXCEPT ![s] = x]
    BY <2>2, <2>5
  <2>10. tab' = [tab EXCEPT ![s] = Machine!Replay(History', x)]
    BY <2>2, <2>7
  <2>11. Machine!IsLog(History')
    BY <2>4 DEF HistoryLog
  <2>12. Machine!Cardinality(History') = Cardinality(History')
    BY MachineCardinality
  <2>13. Machine!Advance(s)
    <3>1. pos' = [pos EXCEPT ![s] = pos'[s]]
      BY <2>8, <2>9
    <3>2. pos'[s] \in pos[s]..Machine!Cardinality(History')
      BY <2>6, <2>8, <2>12
    <3>3. tab' = [tab EXCEPT ![s] = Machine!Replay(History', pos'[s])]
      BY <2>8, <2>10
    <3> QED
      BY <2>3, <2>11, <3>1, <3>2, <3>3, Zenon DEF Machine!Advance
  <2> QED
    BY <2>13 DEF Machine!Next
<1> QED
  BY <1>1, <1>2

\* Raft implements ReplicatedStateMachine: every step of every handler leaves
\* the tables on disk prefixes of one growing sequence of commands, and no
\* step, be it a restart or a failed transaction, takes a table back
\* (applyCommittedLocked, ApplySet, New), in every cluster that compacts no
\* logs, whose SaveTermVote does not fail and whose batches can hold a whole
\* log.
THEOREM RaftImplementsStateMachine ==
    NoCompaction /\ NoLostTerm /\ FullBatch => (Spec => ImplementsStateMachine)
<1> SUFFICES ASSUME NoCompaction, NoLostTerm, FullBatch
             PROVE  Spec => ImplementsStateMachine
  OBVIOUS
<1>1. Init => Machine!Init
  <2> SUFFICES ASSUME Init PROVE Machine!Init
    OBVIOUS
  <2>1. \A s \in Server : node[s].applied = {} /\ node[s].store = FreshStore
    BY DEF Init
  <2>2. History = {}
    BY <2>1 DEF History
  <2>3. FreshStore.last_applied = 0 /\ FreshStore.kv = EmptyKv
    BY DEF FreshStore
  <2>4. Machine!Replay({}, 0) = EmptyKv
    BY DEF Machine!Replay, EmptyKv
  <2> QED
    BY <2>1, <2>2, <2>3, <2>4 DEF Machine!Init
<1>2. SafetyInv /\ [Next]_vars => [Machine!Next]_(Machine!vars)
  <2> SUFFICES ASSUME SafetyInv, [Next]_vars
               PROVE  [Machine!Next]_(Machine!vars)
    OBVIOUS
  <2>1. /\ TypeOK /\ ElectionInv /\ LogInv /\ Uncompacted /\ LastAppliedIsDurable
    BY DEF SafetyInv, CoreInv, MatchingInv, MatchInv, CommitInv
  <2>2. SafetyInv'
    BY StepSafety
  <2>3. CommitsMove
    BY <2>1, StepCommits
  <2>4. OneMoves \/ Still
    BY <2>1, StepOne
  <2> QED
    BY <2>2, <2>3, <2>4, StepMachine
<1>3. Spec => []SafetyInv
  BY SafetyInvariant
<1> QED
  BY <1>1, <1>2, <1>3, PTL DEF Spec, ImplementsStateMachine, Machine!Spec
=============================================================================
