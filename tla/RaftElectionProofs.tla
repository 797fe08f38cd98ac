------------------------- MODULE RaftElectionProofs -------------------------
(***************************************************************************)
(* Elections are safe: the proofs, for every cluster and every choice of   *)
(* the constants, of ElectionSafety, VotesBacked, VoteDurable, LeaderHint  *)
(* and NoForwardingLoop of RaftProperties.                                 *)
(*                                                                         *)
(* The inductive invariant is ElectionInv.  Its core is VoteMade: a vote   *)
(* is on the voter's disk before anybody can count it, so it outlives      *)
(* restarts, and once it is made no other candidate of that term can get   *)
(* one from the same voter.  Two majorities share a voter, hence two       *)
(* winners of a term are one.                                              *)
(***************************************************************************)
EXTENDS RaftTypeProofs

----------------------------------------------------------------------------
(* The inductive invariant                                                 *)

\* The term and vote in memory are never behind those on disk, and only a
\* running election, which began with the candidate's own vote, has votes.
VoteInv(n, s) ==
    /\ n.store.current_term <= n.currentTerm
    /\ (/\ n.store.current_term = n.currentTerm
        /\ n.store.voted_for # Nobody) => n.votedFor = n.store.voted_for
    /\ n.votes # {} => n.role = "candidate" /\ s \in n.votes

\* The leader a node names has won its term; a node names itself if and only
\* if it leads.
HintInv(n, s, won) ==
    /\ n.leaderID # Nobody =>
            [term |-> n.currentTerm, leader |-> n.leaderID] \in won
    /\ n.role = "leader" <=> n.leaderID = s

\* Only the winner of a term sends AppendEntries and InstallSnapshot in it,
\* and never to itself.
CallsInv ==
    \A q \in appendReqs \cup snapReqs :
        /\ q.src # q.dst
        /\ [term |-> q.term, leader |-> q.src] \in elected

CastInv ==
    \A p, c \in Server, term \in Nat :
        Cast(p, term, c) => VoteMade(p, term, c)

\* A winner has the lasting votes of a majority, its own among them.
Won(e) == \E Q \in SUBSET Server :
            /\ Cardinality(Q) >= Majority
            /\ e.leader \in Q
            /\ \A p \in Q : VoteMade(p, e.term, e.leader)

ElectedInv == \A e \in elected : Won(e)

ElectionInv ==
    /\ \A s \in Server : VoteInv(node[s], s) /\ HintInv(node[s], s, elected)
    /\ CallsInv
    /\ CastInv
    /\ ElectedInv
    /\ ElectionSafety

----------------------------------------------------------------------------
(* Votes                                                                   *)

\* The disk of a node moves on: its term grows, or its term stays and so
\* does a vote.
DiskKept(a, b) ==
    /\ b.current_term >= a.current_term
    /\ (b.current_term = a.current_term /\ a.voted_for # Nobody)
            => b.voted_for = a.voted_for

\* What the proofs of the steps show: the invariant, and every disk moves on.
DisksKept == \A s \in Server : DiskKept(node[s].store, node'[s].store)

StepKept == ElectionInv' /\ DisksKept

\* If disks move on and a new vote is on its voter's disk, which had none for
\* that term, then votes once made stay made and all votes are made.
LEMMA VotesStay ==
    ASSUME TypeOK, TypeOK',
           \A p \in Server : DiskKept(node[p].store, node'[p].store),
           \A p, c \in Server, T \in Nat :
                Cast(p, T, c)' /\ ~Cast(p, T, c) =>
                    /\ node'[p].store.current_term = T
                    /\ node'[p].store.voted_for = c
                    /\ \/ node[p].store.current_term < T
                       \/ /\ node[p].store.current_term = T
                          /\ node[p].store.voted_for \in {Nobody, c}
    PROVE  /\ \A p, c \in Server, T \in Nat :
                    VoteMade(p, T, c) => VoteMade(p, T, c)'
           /\ CastInv => CastInv'
<1>1. ASSUME NEW p \in Server
      PROVE  /\ node[p].store.current_term \in Nat
             /\ node'[p].store.current_term \in Nat
  BY DEF TypeOK, IsNode, IsStore
<1>2. \A c \in Server : c # Nobody
  BY RaftConstants
<1>3. ASSUME NEW p \in Server, NEW c \in Server, NEW T \in Nat, OnDisk(p, T, c)
      PROVE  OnDisk(p, T, c)'
  BY <1>1, <1>2, <1>3 DEF OnDisk, DiskKept
<1>4. ASSUME NEW p \in Server, NEW c \in Server, NEW T \in Nat,
             NEW d \in Server, OnDisk(p, T, c), Cast(p, T, d)', ~Cast(p, T, d)
      PROVE  d = c
  BY <1>1, <1>2, <1>4 DEF OnDisk
<1>5. ASSUME NEW p \in Server, NEW c \in Server, NEW T \in Nat, VoteMade(p, T, c)
      PROVE  VoteMade(p, T, c)'
  <2>1. ASSUME NEW d \in Server, Cast(p, T, d)' PROVE d = c
    BY <1>4, <1>5, <2>1 DEF VoteMade
  <2> QED
    BY <1>3, <1>5, <2>1 DEF VoteMade
<1>6. ASSUME CastInv, NEW p \in Server, NEW c \in Server, NEW T \in Nat,
             Cast(p, T, c)'
      PROVE  VoteMade(p, T, c)'
  <2>1. CASE Cast(p, T, c)
    BY <1>5, <1>6, <2>1 DEF CastInv
  <2>2. CASE ~Cast(p, T, c)
    <3>1. OnDisk(p, T, c)'
      BY <1>6, <2>2 DEF OnDisk
    <3>2. ASSUME NEW d \in Server, Cast(p, T, d)' PROVE d = c
      <4>1. CASE Cast(p, T, d)
        <5>1. OnDisk(p, T, d)
          BY <1>6, <4>1 DEF CastInv, VoteMade
        <5> QED
          BY <1>4, <1>6, <2>2, <5>1
      <4>2. CASE ~Cast(p, T, d)
        BY <1>6, <2>2, <3>2, <4>2
      <4> QED
        BY <4>1, <4>2
    <3> QED
      BY <3>1, <3>2 DEF VoteMade
  <2> QED
    BY <2>1, <2>2
<1> QED
  BY <1>5, <1>6 DEF CastInv

\* Two majorities have a server in common.
LEMMA QuorumsMeet ==
    ASSUME NEW P \in SUBSET Server, NEW Q \in SUBSET Server,
           Cardinality(P) >= Majority, Cardinality(Q) >= Majority
    PROVE  P \cap Q # {}
<1>1. /\ IsFiniteSet(Server) /\ IsFiniteSet(P) /\ IsFiniteSet(Q)
      /\ Cardinality(Server) \in Nat
      /\ Cardinality(P) \in Nat /\ Cardinality(Q) \in Nat
  BY RaftConstants, FS_Subset, FS_CardinalityType
<1>2. Cardinality(P) + Cardinality(Q) > Cardinality(Server)
  BY <1>1 DEF Majority
<1> QED
  BY <1>1, <1>2, FS_MajoritiesIntersect

\* A step of s that gives no vote: s, now m, counts only votes that were
\* cast for it.  Votes, and majorities of votes, stay as they were.
LEMMA NoNewVote ==
    ASSUME TypeOK, TypeOK', CastInv, NEW s \in Server, NEW m,
           node' = [node EXCEPT ![s] = m], DiskKept(node[s].store, m.store),
           \A p \in m.votes : Cast(p, m.currentTerm, s),
           \A r \in voteReps' : r.granted => r \in voteReps
    PROVE  /\ CastInv' /\ DisksKept
           /\ \A e \in [term : Nat, leader : Server] : Won(e) => Won(e)'
<1>1. \A t \in Server : node'[t] = IF t = s THEN m ELSE node[t]
  BY DEF TypeOK
<1>2. \A t \in Server : DiskKept(node[t].store, node'[t].store)
  BY <1>1 DEF TypeOK, IsNode, IsStore, DiskKept
<1>3. ASSUME NEW p \in Server, NEW c \in Server, NEW T \in Nat, Cast(p, T, c)'
      PROVE  Cast(p, T, c)
  <2>1. CASE \E r \in voteReps' :
                r.granted /\ <<r.dst, r.term, r.src>> = <<p, T, c>>
    BY <2>1 DEF Cast
  <2>2. CASE p \in node'[c].votes /\ node'[c].currentTerm = T
    BY <1>1, <2>2 DEF Cast
  <2> QED
    BY <1>3, <2>1, <2>2 DEF Cast
<1>4. /\ \A p, c \in Server, T \in Nat : VoteMade(p, T, c) => VoteMade(p, T, c)'
      /\ CastInv'
  BY <1>2, <1>3, VotesStay
<1>5. ASSUME NEW e \in [term : Nat, leader : Server], Won(e)
      PROVE  Won(e)'
  <2>1. e.term \in Nat /\ e.leader \in Server
    OBVIOUS
  <2> QED
    BY <1>4, <1>5, <2>1 DEF Won
<1> QED
  BY <1>2, <1>4, <1>5 DEF DisksKept

\* Every node but s has its part of the invariant as before.
LEMMA OthersKept ==
    ASSUME TypeOK, ElectionInv, NEW s \in Server, NEW m,
           node' = [node EXCEPT ![s] = m],
           VoteInv(m, s), HintInv(m, s, elected'), elected \subseteq elected'
    PROVE  \A t \in Server : VoteInv(node[t], t)' /\ HintInv(node[t], t, elected)'
<1>1. \A t \in Server : node'[t] = IF t = s THEN m ELSE node[t]
  BY DEF TypeOK
<1>2. \A t \in Server : VoteInv(node'[t], t) /\ HintInv(node'[t], t, elected')
  BY <1>1 DEF ElectionInv, HintInv
<1> QED
  BY <1>2 DEF VoteInv, HintInv

\* What one node did, from n to m, that neither gives nor counts a vote.
Quiet(n, m, s) ==
    /\ VoteInv(m, s)
    /\ HintInv(m, s, elected)
    /\ DiskKept(n.store, m.store)
    /\ m.votes # {} => m.votes = n.votes /\ m.currentTerm = n.currentTerm

\* A step in which no election is won keeps the invariant ...
LEMMA CountStep ==
    ASSUME TypeOK, TypeOK', ElectionInv, NEW s \in Server, NEW m,
           node' = [node EXCEPT ![s] = m], DiskKept(node[s].store, m.store),
           VoteInv(m, s), HintInv(m, s, elected),
           \A p \in m.votes : Cast(p, m.currentTerm, s),
           \A r \in voteReps' : r.granted => r \in voteReps,
           elected' = elected, CallsInv'
    PROVE  StepKept
<1>1. /\ CastInv' /\ DisksKept
      /\ \A e \in [term : Nat, leader : Server] : Won(e) => Won(e)'
  BY NoNewVote DEF ElectionInv
<1>2. ElectedInv'
  BY <1>1 DEF TypeOK, ElectionInv, ElectedInv, Won
<1>3. ElectionSafety'
  BY DEF ElectionInv, ElectionSafety
<1>4. \A t \in Server : VoteInv(node[t], t)' /\ HintInv(node[t], t, elected)'
  BY OthersKept
<1> QED
  BY <1>1, <1>2, <1>3, <1>4 DEF ElectionInv, StepKept

\* ... a quiet one in particular.
LEMMA QuietStep ==
    ASSUME TypeOK, TypeOK', ElectionInv, NEW s \in Server, NEW m,
           node' = [node EXCEPT ![s] = m], Quiet(node[s], m, s),
           \A r \in voteReps' : r.granted => r \in voteReps,
           elected' = elected, CallsInv'
    PROVE  StepKept
<1>1. \A p \in m.votes : Cast(p, m.currentTerm, s)
  BY DEF Quiet, Cast
<1> QED
  BY <1>1, CountStep DEF Quiet

\* A step that changes no node, and adds no granted vote, keeps it, too.
LEMMA SilentStep ==
    ASSUME TypeOK, TypeOK', ElectionInv, node' = node,
           \A r \in voteReps' : r.granted => r \in voteReps,
           elected' = elected, CallsInv'
    PROVE  StepKept
<1>1. PICK s \in Server : TRUE
  BY RaftConstants
<1>2. node' = [node EXCEPT ![s] = node[s]]
  BY DEF TypeOK
<1>3. Quiet(node[s], node[s], s)
  BY DEF Quiet, DiskKept, ElectionInv, TypeOK, IsNode, IsStore
<1> QED
  BY <1>2, <1>3, QuietStep

\* The requests of a step that sends none, to leaders and followers.
LEMMA CallsStay ==
    ASSUME CallsInv, appendReqs' \subseteq appendReqs,
           snapReqs' \subseteq snapReqs, elected \subseteq elected'
    PROVE  CallsInv'
BY DEF CallsInv

----------------------------------------------------------------------------
(* Operations that leave alone what elections depend on                    *)

SameVote(a, b) == /\ b.current_term = a.current_term
                  /\ b.voted_for = a.voted_for

Same(n, m) == /\ m.role = n.role
              /\ m.currentTerm = n.currentTerm
              /\ m.votedFor = n.votedFor
              /\ m.leaderID = n.leaderID
              /\ m.votes = n.votes
              /\ SameVote(n.store, m.store)

\* Leaving alone all that elections depend on is quiet.
LEMMA SameQuiet ==
    ASSUME NEW n, NEW m, NEW s, IsNode(n), Same(n, m),
           VoteInv(n, s), HintInv(n, s, elected)
    PROVE  Quiet(n, m, s)
BY DEF Quiet, Same, SameVote, VoteInv, HintInv, DiskKept, IsNode, IsStore

\* Compacting touches the log and the state machine, not the term; so do ...
LEMMA CompactSame ==
    ASSUME NEW n, IsNode(n), NEW s, NEW f
    PROVE  Same(n, compactIfNeededLocked(n, s, f))
<1> DEFINE st == CreateSnapshot(n.store, n.lastApplied,
                                TermAt(n.store, n.lastApplied))
<1>1. SameVote(n.store, st)
  BY DEF IsNode, IsStore, CreateSnapshot, SameVote
<1> HIDE DEF st
<1>2. Same(n, [n EXCEPT !.store = st])
  BY <1>1 DEF IsNode, Same
<1>3. compactIfNeededLocked(n, s, f) \in {n, [n EXCEPT !.store = st]}
  BY DEF compactIfNeededLocked, st
<1> QED
  BY <1>2, <1>3 DEF Same, SameVote

\* ... applying,
LEMMA ApplySame ==
    ASSUME NEW n, IsNode(n), NEW s \in Server, NEW f
    PROVE  Same(n, applyCommittedLocked(n, s, f))
<1>1. PICK from, to, new :
            LET done == [n EXCEPT
                           !.lastApplied = to,
                           !.store       = ApplySets(n.store, from, to),
                           !.applied     = n.applied \cup new]
            IN  /\ IsNode(done)
                /\ applyCommittedLocked(n, s, f) \in
                      {done, compactIfNeededLocked(done, s, f)}
  BY ApplyCommittedForm
<1> DEFINE st == ApplySets(n.store, from, to)
           A == n.applied \cup new
           done == [n EXCEPT !.lastApplied = to, !.store = st, !.applied = A]
<1>2. SameVote(n.store, st)
  BY DEF IsNode, IsStore, ApplySets, SameVote
<1> HIDE DEF st, A
<1>3. Same(n, done)
  BY <1>2 DEF IsNode, Same
<1>4. IsNode(done) /\ applyCommittedLocked(n, s, f) \in
                            {done, compactIfNeededLocked(done, s, f)}
  BY <1>1 DEF st, A
<1> HIDE DEF done
<1>5. Same(done, compactIfNeededLocked(done, s, f))
  BY <1>4, CompactSame
<1> QED
  BY <1>3, <1>4, <1>5 DEF Same, SameVote

\* ... committing as a leader,
LEMMA AdvanceSame ==
    ASSUME NEW n, IsNode(n), NEW s \in Server, NEW f
    PROVE  Same(n, advanceCommitLocked(n, s, f))
<1> DEFINE r == advanceCommitLocked(n, s, f)
<1>1. PICK c \in Index :
            LET m == [n EXCEPT !.commitIndex = c]
            IN  IsNode(m) /\ (r = n \/ r = m \/ r = applyCommittedLocked(m, s, f))
  BY AdvanceCommitForm, Zenon
<1> DEFINE m == [n EXCEPT !.commitIndex = c]
<1>2. IsNode(m) /\ (r = n \/ r = m \/ r = applyCommittedLocked(m, s, f))
  BY <1>1
<1> HIDE DEF r
<1>3. Same(n, n) /\ Same(n, m)
  BY DEF IsNode, Same, SameVote
<1> HIDE DEF m
<1>4. Same(m, applyCommittedLocked(m, s, f))
  BY <1>2, ApplySame
<1>5. Same(n, applyCommittedLocked(m, s, f))
  BY <1>3, <1>4 DEF Same, SameVote
<1> QED
  BY <1>2, <1>3, <1>5 DEF r

\* ... and committing as a follower.
LEMMA FollowCommitSame ==
    ASSUME NEW n, IsNode(n), NEW s \in Server, NEW q, IsAppendReq(q), NEW f
    PROVE  Same(n, FollowCommit(n, s, q, f))
<1> DEFINE C == Min({q.leaderCommit, LastIndex(n.store)})
           m == [n EXCEPT !.commitIndex = C]
<1>1. IsNode(m)
  BY FollowCommitForm
<1>2. FollowCommit(n, s, q, f) \in {n, applyCommittedLocked(m, s, f)}
  BY DEF FollowCommit
<1> HIDE DEF C
<1>3. Same(n, m)
  BY DEF IsNode, Same, SameVote
<1> HIDE DEF m
<1>4. Same(m, applyCommittedLocked(m, s, f))
  BY <1>1, ApplySame
<1> QED
  BY <1>2, <1>3, <1>4 DEF Same, SameVote

\* The log of a follower, merged or only truncated.
LEMMA MergeSame ==
    ASSUME NEW st, IsStore(st), NEW q
    PROVE  SameVote(st, Truncated(st, q)) /\ SameVote(st, Merged(st, q))
<1>1. SameVote(st, Truncated(st, q)) /\ IsStore(Truncated(st, q))
  BY TruncatedType DEF IsStore, Truncated, DeleteFrom, SameVote
<1>2. ASSUME NEW rows
      PROVE  SameVote(Truncated(st, q), AppendEntries(Truncated(st, q), rows))
  BY <1>1 DEF IsStore, AppendEntries, SameVote
<1> QED
  BY <1>1, <1>2 DEF Merged, SameVote

\* A higher term makes a quiet follower, of nobody or of that term's winner.
LEMMA StepDownQuiet ==
    ASSUME NEW n, IsNode(n), NEW s \in Server, NEW term \in Nat,
           NEW leader \in Ids, NEW f,
           VoteInv(n, s), HintInv(n, s, elected),
           term >= n.currentTerm, leader # s,
           leader # Nobody => [term |-> term, leader |-> leader] \in elected
    PROVE  /\ Quiet(n, stepDownLocked(n, term, leader, f), s)
           /\ stepDownLocked(n, term, leader, f).currentTerm = term
<1> DEFINE m == stepDownLocked(n, term, leader, f)
           higher == term > n.currentTerm
           st == IF higher /\ f.method # "SaveTermVote"
                 THEN SaveTermVote(n.store, term, Nobody) ELSE n.store
<1>1. /\ m.currentTerm = term
      /\ m.votedFor = IF higher THEN Nobody ELSE n.votedFor
      /\ m.store = st /\ m.role = "follower" /\ m.leaderID = leader
      /\ m.votes = {}
  BY DEF IsNode, stepDownLocked
<1>2. /\ st.current_term = IF higher /\ f.method # "SaveTermVote" THEN term
                            ELSE n.store.current_term
      /\ st.voted_for = IF higher /\ f.method # "SaveTermVote" THEN Nobody
                         ELSE n.store.voted_for
  BY DEF IsNode, IsStore, SaveTermVote
<1>3. n.currentTerm \in Nat /\ n.store.current_term \in Nat
  BY DEF IsNode, IsStore
<1> HIDE DEF m, st
<1>4. VoteInv(m, s) /\ DiskKept(n.store, m.store)
  BY <1>1, <1>2, <1>3 DEF VoteInv, DiskKept
<1>5. HintInv(m, s, elected)
  BY <1>1 DEF HintInv
<1> QED
  BY <1>1, <1>4, <1>5 DEF Quiet, m

\* In particular, stepping down with no leader known is quiet.
LEMMA StepDownAloneQuiet ==
    ASSUME NEW n, IsNode(n), NEW s \in Server, NEW term \in Nat, NEW f,
           VoteInv(n, s), HintInv(n, s, elected), term >= n.currentTerm
    PROVE  /\ Quiet(n, stepDownLocked(n, term, Nobody, f), s)
           /\ stepDownLocked(n, term, Nobody, f).currentTerm = term
<1>1. Nobody \in Ids /\ Nobody # s
  BY RaftConstants DEF Ids
<1>2. PICK leader \in Ids : leader = Nobody
  BY <1>1
<1>3. leader # Nobody => [term |-> term, leader |-> leader] \in elected
  BY <1>2
<1>4. leader # s
  BY <1>1, <1>2
<1>5. /\ Quiet(n, stepDownLocked(n, term, leader, f), s)
      /\ stepDownLocked(n, term, leader, f).currentTerm = term
  BY <1>3, <1>4, StepDownQuiet
<1> QED
  BY <1>2, <1>5

\* What follows a quiet change and leaves the term alone is quiet, too.
LEMMA QuietSame ==
    ASSUME NEW n, NEW m, NEW k, NEW s, Quiet(n, m, s), Same(m, k)
    PROVE  Quiet(n, k, s)
BY DEF Quiet, Same, SameVote, VoteInv, HintInv, DiskKept

\* A candidate's request, before its vote is considered, is quiet.
LEMMA SeenByVoterQuiet ==
    ASSUME NEW n, IsNode(n), NEW s \in Server, NEW q, q.term \in Nat, NEW f,
           VoteInv(n, s), HintInv(n, s, elected), q.term >= n.currentTerm
    PROVE  /\ Quiet(n, SeenByVoter(n, q, f), s)
           /\ SeenByVoter(n, q, f).currentTerm = q.term
<1>1. CASE q.term > n.currentTerm
  BY <1>1, StepDownAloneQuiet DEF SeenByVoter
<1>2. CASE ~(q.term > n.currentTerm)
  <2>1. n.currentTerm \in Nat /\ SeenByVoter(n, q, f) = n
    BY <1>2 DEF IsNode, SeenByVoter
  <2> QED
    BY <1>2, <2>1, SameQuiet DEF Same, SameVote
<1> QED
  BY <1>1, <1>2

\* So is a leader's: only the winner of its term sends one.
LEMMA SeenByFollowerQuiet ==
    ASSUME NEW n, IsNode(n), NEW s \in Server, NEW q, q.term \in Nat,
           q.src \in Server, q.src # s, NEW f,
           VoteInv(n, s), HintInv(n, s, elected), q.term >= n.currentTerm,
           [term |-> q.term, leader |-> q.src] \in elected
    PROVE  Quiet(n, SeenByFollower(n, q, f), s)
<1> DEFINE down == q.term > n.currentTerm \/ n.role # "follower"
           m == IF down THEN stepDownLocked(n, q.term, q.src, f) ELSE n
<1>1. IsNode(m)
  BY StepDownType DEF Ids
<1>2. Quiet(n, m, s) /\ m.currentTerm = q.term /\ m.role # "leader"
  <2>1. CASE down
    <3>1. m.role = "follower"
      BY <2>1 DEF IsNode, stepDownLocked
    <3> QED
      BY <2>1, <3>1, StepDownQuiet DEF Ids
  <2>2. CASE ~down
    <3>1. n.currentTerm \in Nat /\ m = n
      BY <2>2 DEF IsNode
    <3> QED
      BY <2>2, <3>1, SameQuiet DEF Same, SameVote
  <2> QED
    BY <2>1, <2>2
<1> HIDE DEF m
<1>3. SeenByFollower(n, q, f) = [m EXCEPT !.leaderID = q.src]
  BY DEF SeenByFollower, m
<1> QED
  BY <1>1, <1>2, <1>3, RaftConstants DEF Quiet, VoteInv, HintInv, IsNode

----------------------------------------------------------------------------
(* Giving a vote and winning an election                                   *)

\* s gives its vote in its term T to c: it had none to give to another.
LEMMA GiveStep ==
    ASSUME TypeOK, TypeOK', ElectionInv, NEW s \in Server, NEW c \in Server,
           NEW m, NEW T \in Nat,
           node' = [node EXCEPT ![s] = m],
           VoteInv(m, s), HintInv(m, s, elected),
           m.currentTerm = T, m.store.current_term = T, m.store.voted_for = c,
           \/ node[s].store.current_term < T
           \/ /\ node[s].store.current_term = T
              /\ node[s].store.voted_for \in {Nobody, c},
           \A p \in m.votes : Cast(p, T, s) \/ (p = s /\ c = s),
           \A r \in voteReps' : r.granted =>
                r \in voteReps \/ <<r.dst, r.term, r.src>> = <<s, T, c>>,
           elected' = elected, CallsInv'
    PROVE  StepKept
<1>1. \A t \in Server : node'[t] = IF t = s THEN m ELSE node[t]
  BY DEF TypeOK
<1>2. \A t \in Server : DiskKept(node[t].store, node'[t].store)
  BY <1>1 DEF TypeOK, IsNode, IsStore, DiskKept
<1>3. ASSUME NEW p \in Server, NEW d \in Server, NEW U \in Nat,
             Cast(p, U, d)', ~Cast(p, U, d)
      PROVE  p = s /\ U = T /\ d = c
  <2>1. CASE \E r \in voteReps' :
                r.granted /\ <<r.dst, r.term, r.src>> = <<p, U, d>>
    BY <1>3, <2>1 DEF Cast
  <2>2. CASE p \in node'[d].votes /\ node'[d].currentTerm = U
    BY <1>1, <1>3, <2>2 DEF Cast
  <2> QED
    BY <1>3, <2>1, <2>2 DEF Cast
<1>4. /\ \A p, d \in Server, U \in Nat : VoteMade(p, U, d) => VoteMade(p, U, d)'
      /\ CastInv'
  <2>1. node'[s].store.current_term = T /\ node'[s].store.voted_for = c
    BY <1>1
  <2> QED
    BY <1>2, <1>3, <2>1, VotesStay DEF ElectionInv
<1>5. ElectedInv'
  <2> SUFFICES ASSUME NEW e \in elected PROVE Won(e)'
    BY DEF ElectedInv
  <2>1. e.term \in Nat /\ e.leader \in Server /\ Won(e)
    BY DEF TypeOK, ElectionInv, ElectedInv
  <2> QED
    BY <1>4, <2>1 DEF Won
<1>6. ElectionSafety'
  BY DEF ElectionInv, ElectionSafety
<1>7. \A t \in Server : VoteInv(node[t], t)' /\ HintInv(node[t], t, elected)'
  BY OthersKept
<1> QED
  BY <1>2, <1>4, <1>5, <1>6, <1>7 DEF ElectionInv, StepKept, DisksKept

\* s has votes V, a majority, and becomes the leader of its term: whoever won
\* that term before shares a voter with V, so it was s.
LEMMA WinStep ==
    ASSUME TypeOK, TypeOK', ElectionInv, NEW s \in Server,
           NEW V \in SUBSET Server, NEW f,
           s \in V, Cardinality(V) >= Majority, f.method # "LastIndexAndTerm",
           \A p \in V : Cast(p, node[s].currentTerm, s),
           node' = [node EXCEPT ![s] =
                        becomeLeaderLocked([node[s] EXCEPT !.votes = V], s, f)],
           elected' = elected \cup
                {[term |-> node[s].currentTerm, leader |-> s]},
           \A r \in voteReps' : r.granted => r \in voteReps,
           appendReqs' = appendReqs, snapReqs' = snapReqs
    PROVE  StepKept
<1> DEFINE T == node[s].currentTerm
           n == [node[s] EXCEPT !.votes = V]
           m == becomeLeaderLocked(n, s, f)
           e == [term |-> T, leader |-> s]
<1>1. /\ IsNode(node[s]) /\ T \in Nat /\ node[s].store.current_term \in Nat
      /\ VoteInv(node[s], s) /\ s # Nobody
  BY RaftConstants DEF TypeOK, ElectionInv, IsNode, IsStore
<1>2. IsNode(n) /\ n.currentTerm = T /\ n.store = node[s].store
  BY <1>1 DEF IsNode
<1>3. /\ m.role = "leader" /\ m.leaderID = s /\ m.votedFor = s
      /\ m.votes = {} /\ m.currentTerm = T /\ m.store = node[s].store
  <2> HIDE DEF n
  <2> QED
    BY <1>2 DEF becomeLeaderLocked, IsNode
<1>4. node' = [node EXCEPT ![s] = m]
  OBVIOUS
<1> HIDE DEF m, n
<1>5. \A p \in V : VoteMade(p, T, s)
  BY <1>1 DEF ElectionInv, CastInv
<1>6. node[s].store.voted_for = s
  BY <1>1, <1>5 DEF VoteMade, OnDisk, VoteInv
<1>7. VoteInv(m, s) /\ HintInv(m, s, elected')
  BY <1>1, <1>3, <1>6 DEF VoteInv, HintInv
<1>8. /\ CastInv' /\ DisksKept
      /\ \A x \in [term : Nat, leader : Server] : Won(x) => Won(x)'
  <2>1. DiskKept(node[s].store, m.store)
    BY <1>1, <1>3 DEF DiskKept
  <2> QED
    BY <1>3, <1>4, <2>1, NoNewVote DEF ElectionInv
<1>9. ElectedInv'
  <2>1. Won(e)
    BY <1>5 DEF Won
  <2>2. e \in [term : Nat, leader : Server]
    BY <1>1
  <2>3. ASSUME NEW x \in elected'
        PROVE  x \in [term : Nat, leader : Server] /\ Won(x)
    BY <2>1, <2>2 DEF TypeOK, ElectionInv, ElectedInv
  <2> QED
    BY <1>8, <2>3 DEF ElectedInv
<1>10. ASSUME NEW a \in elected, a.term = T
       PROVE  a = e
  <2>1. a \in [term : Nat, leader : Server] /\ Won(a)
    BY DEF TypeOK, ElectionInv, ElectedInv
  <2>2. PICK Q \in SUBSET Server :
                /\ Cardinality(Q) >= Majority
                /\ \A p \in Q : VoteMade(p, a.term, a.leader)
    BY <2>1 DEF Won
  <2>3. PICK p \in Q \cap V : TRUE
    BY <2>2, QuorumsMeet
  <2>4. a.leader = s
    BY <1>10, <2>2, <2>3 DEF VoteMade
  <2> QED
    BY <1>10, <2>1, <2>4
<1>11. ElectionSafety'
  BY <1>10 DEF ElectionInv, ElectionSafety
<1>12. CallsInv'
  BY CallsStay DEF ElectionInv
<1>13. \A t \in Server : VoteInv(node[t], t)' /\ HintInv(node[t], t, elected)'
  BY <1>4, <1>7, OthersKept
<1> QED
  BY <1>8, <1>9, <1>11, <1>12, <1>13 DEF ElectionInv, StepKept

----------------------------------------------------------------------------
(* Steps                                                                   *)

\* The invariant holds at the start.
LEMMA InitElection == Init => ElectionInv
<1> SUFFICES ASSUME Init PROVE ElectionInv
  OBVIOUS
<1>1. \A s \in Server : VoteInv(node[s], s) /\ HintInv(node[s], s, elected)
  BY RaftConstants DEF Init, VoteInv, HintInv, FreshStore
<1>2. CastInv
  BY DEF Init, CastInv, Cast
<1> QED
  BY <1>1, <1>2 DEF Init, ElectionInv, CallsInv, ElectedInv, ElectionSafety

\* The facts about one node that every step below starts from.
LEMMA NodeFacts ==
    ASSUME TypeOK, ElectionInv, NEW s \in Server
    PROVE  /\ IsNode(node[s]) /\ IsStore(node[s].store)
           /\ node[s].currentTerm \in Nat
           /\ node[s].store.current_term \in Nat
           /\ VoteInv(node[s], s) /\ HintInv(node[s], s, elected)
           /\ s # Nobody
BY RaftConstants DEF TypeOK, IsNode, IsStore, ElectionInv

\* An answer to a request for a vote: at most the one granted is new.
LEMMA VoteAnswerCalls ==
    ASSUME TypeOK, ElectionInv, NEW q \in voteReqs, NEW term,
           NEW granted \in BOOLEAN, VoteAnswer(q, term, granted)
    PROVE  /\ \A r \in voteReps' : r.granted =>
                    \/ r \in voteReps
                    \/ granted /\ <<r.dst, r.term, r.src>> = <<q.dst, q.term, q.src>>
           /\ elected' = elected /\ CallsInv'
<1>1. CallsInv'
  BY CallsStay DEF ElectionInv, VoteAnswer, appendVars, snapVars
<1> QED
  BY <1>1 DEF VoteAnswer, Answers

\* Each step of an election keeps the invariant, and what is on disk.
LEMMA ElectionStepInv ==
    ASSUME TypeOK, TypeOK', ElectionInv, ElectionStep
    PROVE  StepKept
<1>1. ASSUME NEW s \in Server, StartElection(s)
      PROVE  StepKept
  <2> DEFINE T == node[s].currentTerm + 1
             n == Campaign(node[s], s)
             st == SaveTermVote(n.store, n.currentTerm, s)
             m == [n EXCEPT !.votes = {s}, !.store = st]
  <2>1. /\ node' = [node EXCEPT ![s] = m]
        /\ voteReps' \subseteq voteReps
    BY <1>1 DEF StartElection, Heeded
  <2>2. /\ IsNode(n) /\ n.currentTerm = T /\ n.role = "candidate"
        /\ n.votedFor = s /\ n.leaderID = Nobody
    BY NodeFacts, CampaignType
  <2>3. st.current_term = T /\ st.voted_for = s
    BY <2>2 DEF SaveTermVote, IsNode, IsStore
  <2> HIDE DEF n, st
  <2>4. /\ m.currentTerm = T /\ m.role = "candidate" /\ m.votedFor = s
        /\ m.leaderID = Nobody /\ m.votes = {s} /\ m.store = st
    BY <2>2 DEF IsNode
  <2> HIDE DEF m
  <2>5. T \in Nat /\ VoteInv(m, s) /\ HintInv(m, s, elected)
    <3>1. T \in Nat /\ s # Nobody
      BY NodeFacts
    <3> HIDE DEF T
    <3> QED
      BY <2>3, <2>4, <3>1 DEF VoteInv, HintInv
  <2>6. node[s].store.current_term < T
    BY NodeFacts DEF VoteInv
  <2>7. CallsInv' /\ elected' = elected
    BY <1>1, CallsStay DEF ElectionInv, StartElection, appendVars, snapVars
  <2> HIDE DEF T
  <2> QED
    BY <2>1, <2>3, <2>4, <2>5, <2>6, <2>7, GiveStep
<1>2. ASSUME NEW s \in Server, NEW f \in Faults, StartElectionError(s, f)
      PROVE  StepKept
  <2> DEFINE n == Campaign(node[s], s)
             st == IF f.method = "SaveTermVote" THEN n.store
                   ELSE SaveTermVote(n.store, n.currentTerm, s)
             m == [n EXCEPT !.votes = {}, !.store = st]
  <2>1. node' = [node EXCEPT ![s] = m]
    BY <1>2 DEF StartElectionError
  <2>2. /\ IsNode(n) /\ n.currentTerm = node[s].currentTerm + 1
        /\ n.role = "candidate" /\ n.votedFor = s /\ n.leaderID = Nobody
        /\ n.store = node[s].store
    BY NodeFacts, CampaignType
  <2>3. \/ st = node[s].store
        \/ st.current_term = n.currentTerm /\ st.voted_for = s
    BY <2>2 DEF SaveTermVote, IsNode, IsStore
  <2> HIDE DEF n, st
  <2>4. /\ m.currentTerm = n.currentTerm /\ m.role = "candidate" /\ m.votedFor = s
        /\ m.leaderID = Nobody /\ m.votes = {} /\ m.store = st
    BY <2>2 DEF IsNode
  <2> HIDE DEF m
  <2>5. Quiet(node[s], m, s)
    <3>1. /\ node[s].currentTerm \in Nat /\ node[s].store.current_term \in Nat
          /\ node[s].store.current_term <= node[s].currentTerm /\ s # Nobody
      BY NodeFacts DEF VoteInv
    <3>2. VoteInv(m, s) /\ DiskKept(node[s].store, m.store)
      BY <2>2, <2>3, <2>4, <3>1 DEF VoteInv, DiskKept
    <3> QED
      BY <2>4, <3>1, <3>2 DEF Quiet, HintInv
  <2>6. CallsInv' /\ elected' = elected /\ voteReps' = voteReps
    BY <1>2, CallsStay
       DEF ElectionInv, StartElectionError, voteVars, appendVars, snapVars
  <2> QED
    BY <2>1, <2>5, <2>6, QuietStep
<1>3. ASSUME NEW s \in Server, WinAlone(s)
      PROVE  StepKept
  <2> DEFINE V == node[s].votes
  <2>1. /\ V \in SUBSET Server /\ s \in V
        /\ node[s] = [node[s] EXCEPT !.votes = V]
    BY <1>3, NodeFacts DEF WinAlone, IsNode
  <2>2. Cardinality(V) >= Majority
    <3>1. IsFiniteSet(V) /\ Cardinality(V) \in Nat /\ V # {}
      BY <2>1, RaftConstants, FS_Subset, FS_CardinalityType
    <3>2. Cardinality(V) # 0
      BY <3>1, FS_EmptySet
    <3> QED
      BY <1>3, <3>1, <3>2 DEF WinAlone
  <2>3. \A p \in V : Cast(p, node[s].currentTerm, s)
    BY DEF Cast
  <2>4. /\ node' = [node EXCEPT ![s] = becomeLeaderLocked(node[s], s, NoFault)]
        /\ elected' = elected \cup {[term |-> node[s].currentTerm, leader |-> s]}
        /\ voteReps' = voteReps /\ appendReqs' = appendReqs /\ snapReqs' = snapReqs
    BY <1>3 DEF WinAlone, voteVars, appendVars, snapVars
  <2>5. NoFault.method # "LastIndexAndTerm"
    BY DEF NoFault
  <2>6. node' = [node EXCEPT ![s] =
            becomeLeaderLocked([node[s] EXCEPT !.votes = V], s, NoFault)]
    BY <2>1, <2>4, Zenon
  <2> HIDE DEF V
  <2> QED
    BY <2>1, <2>2, <2>3, <2>4, <2>5, <2>6, WinStep
<1>4. ASSUME NEW q \in voteReqs
      PROVE  q.src \in Server /\ q.dst \in Server /\ q.term \in Nat
  BY DEF TypeOK, VoteReqs
<1>5. ASSUME NEW q \in voteReqs, q.term >= node[q.dst].currentTerm, NEW f
      PROVE  LET n == SeenByVoter(node[q.dst], q, f)
             IN  /\ IsNode(n) /\ Quiet(node[q.dst], n, q.dst)
                 /\ n.currentTerm = q.term
  BY <1>4, <1>5, NodeFacts, SeenByVoterType, SeenByVoterQuiet
<1>6. ASSUME NEW q \in voteReqs, RequestVoteStale(q)
      PROVE  StepKept
  BY <1>6, VoteAnswerCalls, SilentStep DEF RequestVoteStale
<1>7. ASSUME NEW q \in voteReqs, RequestVoteGranted(q)
      PROVE  StepKept
  <2> DEFINE s == q.dst
             n == SeenByVoter(node[s], q, NoFault)
             st == SaveTermVote(n.store, n.currentTerm, q.src)
             m == [n EXCEPT !.votedFor = q.src, !.store = st]
  <2>1. /\ node' = [node EXCEPT ![s] = m] /\ q.term >= node[s].currentTerm
        /\ n.votedFor \in {Nobody, q.src} /\ VoteAnswer(q, n.currentTerm, TRUE)
    BY <1>7 DEF RequestVoteGranted, Grants
  <2>2. IsNode(n) /\ Quiet(node[s], n, s) /\ n.currentTerm = q.term
    BY <1>5, <2>1
  <2>3. st.current_term = q.term /\ st.voted_for = q.src
    BY <2>2 DEF SaveTermVote, IsNode, IsStore
  <2> HIDE DEF n, st
  <2>4. /\ m.currentTerm = q.term /\ m.role = n.role /\ m.votedFor = q.src
        /\ m.leaderID = n.leaderID /\ m.votes = n.votes /\ m.store = st
    BY <2>2 DEF IsNode
  <2> HIDE DEF m
  <2>5. VoteInv(m, s) /\ HintInv(m, s, elected)
    BY <1>4, <2>2, <2>3, <2>4 DEF Quiet, VoteInv, HintInv
  <2>6. \/ node[s].store.current_term < q.term
        \/ /\ node[s].store.current_term = q.term
           /\ node[s].store.voted_for \in {Nobody, q.src}
    <3>1. /\ node[s].store.current_term \in Nat /\ n.store.current_term \in Nat
          /\ node[s].currentTerm \in Nat /\ q.term \in Nat
      BY <1>4, <2>2, NodeFacts DEF IsNode, IsStore
    <3>2. node[s].store.current_term <= node[s].currentTerm
      BY <1>4, NodeFacts DEF VoteInv
    <3> QED
      BY <2>1, <2>2, <3>1, <3>2 DEF Quiet, VoteInv, DiskKept
  <2>7. \A p \in m.votes : Cast(p, q.term, s) \/ (p = s /\ q.src = s)
    BY <2>2, <2>4 DEF Quiet, Cast
  <2>8. /\ \A r \in voteReps' : r.granted =>
                r \in voteReps \/ <<r.dst, r.term, r.src>> = <<s, q.term, q.src>>
        /\ elected' = elected /\ CallsInv'
    BY <2>1, VoteAnswerCalls
  <2>9. /\ s \in Server /\ q.src \in Server /\ q.term \in Nat
        /\ m.store.current_term = q.term /\ m.store.voted_for = q.src
        /\ m.currentTerm = q.term /\ node' = [node EXCEPT ![s] = m]
    BY <1>4, <2>1, <2>3, <2>4
  <2> HIDE DEF s
  <2> QED
    BY <2>5, <2>6, <2>7, <2>8, <2>9, GiveStep
<1>8. ASSUME NEW q \in voteReqs, NEW f \in Faults, RequestVoteRejected(q, f)
      PROVE  StepKept
  <2> DEFINE n == SeenByVoter(node[q.dst], q, f)
  <2>1. /\ node' = [node EXCEPT ![q.dst] = n] /\ q.term >= node[q.dst].currentTerm
        /\ VoteAnswer(q, n.currentTerm, FALSE)
    BY <1>8 DEF RequestVoteRejected
  <2>2. Quiet(node[q.dst], n, q.dst)
    BY <1>5, <2>1
  <2> HIDE DEF n
  <2> QED
    BY <1>4, <2>1, <2>2, VoteAnswerCalls, QuietStep
<1>9. ASSUME NEW q \in voteReqs, NEW f \in Faults, RequestVoteError(q, f)
      PROVE  StepKept
  <2> DEFINE s == q.dst
  <2>0. PICK g \in {f, NoFault} :
            LET n == SeenByVoter(node[s], q, g)
            IN  /\ q.term >= node[s].currentTerm
                /\ \/ node' = [node EXCEPT ![s] = n]
                   \/ /\ n.votedFor \in {Nobody, q.src}
                      /\ node' = [node EXCEPT ![s] = [n EXCEPT !.votedFor = q.src]]
    BY <1>9 DEF RequestVoteError, Grants
  <2> DEFINE n == SeenByVoter(node[s], q, g)
             k == [n EXCEPT !.votedFor = q.src]
  <2>1. /\ q.term >= node[s].currentTerm
        /\ \/ node' = [node EXCEPT ![s] = n]
           \/ /\ n.votedFor \in {Nobody, q.src}
              /\ node' = [node EXCEPT ![s] = k]
    BY <2>0
  <2>2. IsNode(n) /\ Quiet(node[s], n, s)
    BY <1>5, <2>1
  <2> HIDE DEF n
  <2>3. n.votedFor \in {Nobody, q.src} => Quiet(node[s], k, s)
    <3>1. /\ k.role = n.role /\ k.currentTerm = n.currentTerm
          /\ k.leaderID = n.leaderID /\ k.votes = n.votes /\ k.store = n.store
          /\ k.votedFor = q.src
      BY <2>2 DEF IsNode
    <3> HIDE DEF k
    <3> QED
      BY <2>2, <3>1 DEF Quiet, VoteInv, HintInv
  <2>4. CallsInv' /\ elected' = elected /\ voteReps' = voteReps
    BY <1>9, CallsStay DEF ElectionInv, RequestVoteError, appendVars, snapVars
  <2> HIDE DEF k
  <2> QED
    BY <1>4, <2>1, <2>2, <2>3, <2>4, QuietStep
<1>10. ASSUME NEW r \in voteReps
       PROVE  /\ r.src \in Server /\ r.dst \in Server
              /\ r.rterm \in Nat /\ r.term \in Nat
  BY DEF TypeOK, VoteReps
<1>11. ASSUME NEW r \in voteReps, NEW f \in Faults, VoteReplyStepDown(r, f)
       PROVE  StepKept
  <2>1. Quiet(node[r.src], stepDownLocked(node[r.src], r.rterm, Nobody, f), r.src)
    BY <1>10, <1>11, NodeFacts, StepDownAloneQuiet DEF VoteReplyStepDown
  <2>2. CallsInv' /\ elected' = elected /\ voteReps' \subseteq voteReps
    BY <1>11, CallsStay
       DEF ElectionInv, VoteReplyStepDown, Heeded, appendVars, snapVars
  <2> QED
    BY <1>10, <1>11, <2>1, <2>2, QuietStep DEF VoteReplyStepDown
<1>12. ASSUME NEW r \in voteReps, NEW f \in Faults, VoteReplyCounted(r, f)
       PROVE  StepKept
  <2> DEFINE s == r.src
             T == node[s].currentTerm
             V == node[s].votes \cup {r.dst}
             n == [node[s] EXCEPT !.votes = V]
             won == Cardinality(V) >= Majority
  <2>1. /\ IsNode(node[s]) /\ IsStore(node[s].store) /\ s \in Server
        /\ VoteInv(node[s], s) /\ HintInv(node[s], s, elected)
    BY <1>10, NodeFacts
  <2>2. /\ n.votes = V /\ n.role = node[s].role /\ n.currentTerm = T
        /\ n.votedFor = node[s].votedFor /\ n.leaderID = node[s].leaderID
        /\ n.store = node[s].store
    BY <2>1 DEF IsNode
  <2>3. /\ node[s].role = "candidate" /\ T = r.term /\ r.granted
        /\ node[s].votes # {} /\ s \in node[s].votes
    BY <1>12, <2>1 DEF VoteReplyCounted, VoteCounts, VoteInv
  <2>4. V \in SUBSET Server /\ s \in V /\ \A p \in V : Cast(p, T, s)
    BY <1>10, <2>1, <2>3 DEF IsNode, Cast
  <2>5. /\ node' = [node EXCEPT ![s] =
                        IF won THEN becomeLeaderLocked(n, s, f) ELSE n]
        /\ elected' = elected \cup
                {[term |-> t, leader |-> s] :
                    t \in IF won /\ f.method # "LastIndexAndTerm" THEN {T} ELSE {}}
        /\ voteReps' \subseteq voteReps
        /\ appendReqs' = appendReqs /\ snapReqs' = snapReqs
    BY <1>12, <2>2 DEF VoteReplyCounted, Heeded, appendVars, snapVars
  <2>6. CASE won /\ f.method # "LastIndexAndTerm"
    <3>1. /\ node' = [node EXCEPT ![s] = becomeLeaderLocked(n, s, f)]
          /\ elected' = elected \cup {[term |-> T, leader |-> s]}
      BY <2>5, <2>6
    <3> HIDE DEF V, s
    <3> QED
      BY <2>1, <2>4, <2>5, <2>6, <3>1, WinStep
  <2>7. CASE ~(won /\ f.method # "LastIndexAndTerm")
    <3> DEFINE m == IF won THEN becomeLeaderLocked(n, s, f) ELSE n
    <3>1. elected' = elected /\ CallsInv'
      <4>1. elected' = elected
        BY <2>5, <2>7
      <4> QED
        BY <2>5, <4>1, CallsStay DEF ElectionInv
    <3>2. IsNode(n)
      BY <2>1, <2>4 DEF IsNode
    <3> HIDE DEF n, V
    <3>3. /\ m.votes \in {V, {}} /\ m.role = n.role /\ m.currentTerm = T
          /\ m.votedFor = n.votedFor /\ m.leaderID = n.leaderID
          /\ m.store = n.store
      BY <2>2, <2>7, <3>2 DEF becomeLeaderLocked, IsNode
    <3> HIDE DEF m
    <3>4. /\ VoteInv(m, s) /\ HintInv(m, s, elected)
          /\ DiskKept(node[s].store, m.store)
      BY <2>1, <2>2, <2>3, <2>4, <3>3
         DEF VoteInv, HintInv, DiskKept, IsNode, IsStore
    <3>5. \A p \in m.votes : Cast(p, m.currentTerm, s)
      BY <2>4, <3>3
    <3>6. node' = [node EXCEPT ![s] = m]
      BY <2>5 DEF m
    <3> QED
      BY <2>1, <2>5, <3>1, <3>4, <3>5, <3>6, CountStep
  <2> QED
    BY <2>6, <2>7
<1> QED
  BY <1>1, <1>2, <1>3, <1>6, <1>7, <1>8, <1>9, <1>11, <1>12 DEF ElectionStep

\* Each step of a leader does.
LEMMA LeaderStepInv ==
    ASSUME TypeOK, TypeOK', ElectionInv, LeaderStep
    PROVE  StepKept
<1>1. ASSUME NEW s \in Server, node[s].role = "leader"
      PROVE  [term |-> node[s].currentTerm, leader |-> s] \in elected
  BY <1>1, NodeFacts DEF HintInv
<1>2. ASSUME NEW s \in Server, NEW p \in Peers(s), NEW w \in Worker,
             SendAppend(s, p, w)
      PROVE  StepKept
  <2>1. \A q \in appendReqs' :
            \/ q \in appendReqs
            \/ q.src = s /\ q.dst = p /\ q.term = node[s].currentTerm
    BY <1>2 DEF SendAppend
  <2>2. /\ node[s].role = "leader" /\ node' = node /\ voteReps' = voteReps
        /\ elected' = elected /\ snapReqs' = snapReqs
    BY <1>2 DEF SendAppend, voteVars, snapVars
  <2>3. CallsInv'
    <3> SUFFICES ASSUME NEW q \in appendReqs' \cup snapReqs'
                 PROVE  /\ q.src # q.dst
                        /\ [term |-> q.term, leader |-> q.src] \in elected
      BY <2>2 DEF CallsInv
    <3>1. CASE q \in appendReqs \cup snapReqs
      BY <3>1 DEF ElectionInv, CallsInv
    <3>2. CASE q.src = s /\ q.dst = p /\ q.term = node[s].currentTerm
      BY <1>1, <2>2, <3>2 DEF Peers
    <3> QED
      BY <2>1, <2>2, <3>1, <3>2
  <2> QED
    BY <2>2, <2>3, SilentStep
<1>3. ASSUME NEW s \in Server, NEW p \in Peers(s), NEW w \in Worker,
             SendSnapshot(s, p, w)
      PROVE  StepKept
  <2>1. \A q \in snapReqs' :
            \/ q \in snapReqs
            \/ q.src = s /\ q.dst = p /\ q.term = node[s].currentTerm
    BY <1>3 DEF SendSnapshot
  <2>2. /\ node[s].role = "leader" /\ node' = node /\ voteReps' = voteReps
        /\ elected' = elected /\ appendReqs' = appendReqs
    BY <1>3 DEF SendSnapshot, voteVars, appendVars
  <2>3. CallsInv'
    <3> SUFFICES ASSUME NEW q \in appendReqs' \cup snapReqs'
                 PROVE  /\ q.src # q.dst
                        /\ [term |-> q.term, leader |-> q.src] \in elected
      BY <2>2 DEF CallsInv
    <3>1. CASE q \in appendReqs \cup snapReqs
      BY <3>1 DEF ElectionInv, CallsInv
    <3>2. CASE q.src = s /\ q.dst = p /\ q.term = node[s].currentTerm
      BY <1>1, <2>2, <3>2 DEF Peers
    <3> QED
      BY <2>1, <2>2, <3>1, <3>2
  <2> QED
    BY <2>2, <2>3, SilentStep
<1>4. ASSUME voteReps' = voteReps, elected' = elected,
             appendReqs' = appendReqs, snapReqs' = snapReqs,
             NEW s \in Server, NEW m, node' = [node EXCEPT ![s] = m],
             Quiet(node[s], m, s)
      PROVE  StepKept
  <2>1. CallsInv'
    BY <1>4, CallsStay DEF ElectionInv
  <2> QED
    BY <1>4, <2>1, QuietStep
<1>5. ASSUME NEW s \in Server, NEW m, Same(node[s], m)
      PROVE  Quiet(node[s], m, s)
  BY <1>5, NodeFacts, SameQuiet
<1>6. ASSUME NEW r \in appendReps
      PROVE  r \in AppendReps /\ r.src \in Server /\ r.dst \in Server /\ r.rterm \in Nat
  BY DEF TypeOK, AppendReps
<1>7. ASSUME NEW r \in appendReps, NEW f \in Faults, AppendReplyStepDown(r, f)
      PROVE  StepKept
  <2>1. Quiet(node[r.src], stepDownLocked(node[r.src], r.rterm, Nobody, f), r.src)
    BY <1>6, <1>7, NodeFacts, StepDownAloneQuiet DEF AppendReplyStepDown
  <2> QED
    BY <1>4, <1>6, <1>7, <2>1 DEF AppendReplyStepDown, voteVars, snapVars
<1>8. ASSUME NEW r \in appendReps, NEW f \in Faults, AppendReplySuccess(r, f)
      PROVE  StepKept
  <2> DEFINE s == r.src
             n == node[s]
             match == Max({r.matchIndex, r.lastSent, n.matchIndex[r.dst]})
             m == [n EXCEPT !.matchIndex[r.dst] = match,
                            !.nextIndex[r.dst]  = match + 1]
  <2>1. /\ node' = [node EXCEPT ![s] = advanceCommitLocked(m, s, f)]
        /\ voteReps' = voteReps /\ elected' = elected
        /\ appendReqs' = appendReqs /\ snapReqs' = snapReqs
    BY <1>8 DEF AppendReplySuccess, voteVars, snapVars
  <2>2. s \in Server /\ IsNode(n)
    BY <1>6, NodeFacts
  <2>3. IsNode(m)
    BY <1>6, <2>2, MatchedNodeType
  <2> HIDE DEF match
  <2>4. Same(n, m)
    BY <2>2 DEF IsNode, Same, SameVote
  <2> HIDE DEF m
  <2>5. Same(m, advanceCommitLocked(m, s, f))
    BY <2>2, <2>3, AdvanceSame
  <2>6. Same(n, advanceCommitLocked(m, s, f))
    BY <2>4, <2>5 DEF Same, SameVote
  <2> HIDE DEF s
  <2> QED
    BY <1>4, <1>5, <2>1, <2>2, <2>6
<1>9. ASSUME NEW r \in appendReps, AppendReplyFailure(r)
      PROVE  StepKept
  <2> DEFINE s == r.src
             n == node[s]
             next == IF n.nextIndex[r.dst] > 1 THEN n.nextIndex[r.dst] - 1
                     ELSE n.nextIndex[r.dst]
             m == [n EXCEPT !.nextIndex[r.dst] = next]
  <2>1. /\ node' = [node EXCEPT ![s] = m]
        /\ voteReps' = voteReps /\ elected' = elected
        /\ appendReqs' = appendReqs /\ snapReqs' = snapReqs
    BY <1>9 DEF AppendReplyFailure, voteVars, snapVars
  <2>2. s \in Server /\ IsNode(n)
    BY <1>6, NodeFacts
  <2> HIDE DEF next
  <2>3. Same(n, m)
    BY <2>2 DEF IsNode, Same, SameVote
  <2> HIDE DEF m, s
  <2> QED
    BY <1>4, <1>5, <2>1, <2>2, <2>3
<1>10. ASSUME NEW r \in snapReps
       PROVE  r \in SnapReps /\ r.src \in Server /\ r.dst \in Server /\ r.rterm \in Nat
  BY DEF TypeOK, SnapReps
<1>11. ASSUME NEW r \in snapReps, NEW f \in Faults, SnapReplyStepDown(r, f)
       PROVE  StepKept
  <2>1. Quiet(node[r.src], stepDownLocked(node[r.src], r.rterm, Nobody, f), r.src)
    BY <1>10, <1>11, NodeFacts, StepDownAloneQuiet DEF SnapReplyStepDown
  <2> QED
    BY <1>4, <1>10, <1>11, <2>1 DEF SnapReplyStepDown, voteVars, appendVars
<1>12. ASSUME NEW r \in snapReps, NEW f \in Faults, SnapReplySuccess(r, f)
       PROVE  StepKept
  <2> DEFINE s == r.src
             n == node[s]
             i == r.lastIncludedIndex
             m == [n EXCEPT !.matchIndex[r.dst] = i,
                            !.nextIndex[r.dst]  = i + 1]
  <2>1. /\ node' = [node EXCEPT ![s] = advanceCommitLocked(m, s, f)]
        /\ voteReps' = voteReps /\ elected' = elected
        /\ appendReqs' = appendReqs /\ snapReqs' = snapReqs
    BY <1>12 DEF SnapReplySuccess, voteVars, appendVars
  <2>2. s \in Server /\ IsNode(n) /\ i \in Index /\ i + 1 \in 0..(MaxIndex + 1)
    BY <1>10, NodeFacts, RaftConstants DEF SnapReps, Index
  <2> HIDE DEF i
  <2>3. IsNode(m) /\ Same(n, m)
    BY <1>10, <2>2 DEF IsNode, Same, SameVote
  <2> HIDE DEF m
  <2>4. Same(m, advanceCommitLocked(m, s, f))
    BY <2>2, <2>3, AdvanceSame
  <2>5. Same(n, advanceCommitLocked(m, s, f))
    BY <2>3, <2>4 DEF Same, SameVote
  <2> HIDE DEF s
  <2> QED
    BY <1>4, <1>5, <2>1, <2>2, <2>5
<1>13. ASSUME NEW s \in Server, NEW cmd \in Command, NEW f \in Faults,
              Write(s, cmd, f)
       PROVE  StepKept
  <2> DEFINE n == node[s]
             index == LastIndex(n.store) + 1
             st == AppendEntries(n.store, [i \in {index} |->
                        [term |-> n.currentTerm, cmd |-> cmd]])
             m == [n EXCEPT !.store = st, !.matchIndex[s] = index]
             k == IF Majority = 1 THEN advanceCommitLocked(m, s, f) ELSE m
  <2>1. /\ node' = [node EXCEPT ![s] = k]
        /\ voteReps' = voteReps /\ elected' = elected
        /\ appendReqs' = appendReqs /\ snapReqs' = snapReqs
        /\ index <= MaxIndex
    BY <1>13 DEF Write, voteVars, appendVars, snapVars
  <2>2. IsNode(n) /\ IsStore(n.store)
    BY NodeFacts
  <2>3. IsNode(m)
    BY <2>1, <2>2, WrittenNodeType
  <2>4. SameVote(n.store, st)
    BY <2>2 DEF IsStore, AppendEntries, SameVote
  <2> HIDE DEF st, index
  <2>5. Same(n, m)
    BY <2>2, <2>4 DEF IsNode, Same
  <2> HIDE DEF m
  <2>6. Same(m, advanceCommitLocked(m, s, f))
    BY <2>3, AdvanceSame
  <2>7. Same(n, k)
    BY <2>5, <2>6 DEF Same, SameVote
  <2> HIDE DEF k
  <2> QED
    BY <1>4, <1>5, <2>1, <2>7
<1> QED
  BY <1>2, <1>3, <1>7, <1>8, <1>9, <1>11, <1>12, <1>13 DEF LeaderStep

\* Each step of a follower does.
LEMMA FollowerStepInv ==
    ASSUME TypeOK, TypeOK', ElectionInv, FollowerStep
    PROVE  StepKept
<1>1. ASSUME voteReps' = voteReps, elected' = elected,
             appendReqs' \subseteq appendReqs, snapReqs' \subseteq snapReqs,
             NEW s \in Server, NEW m, node' = [node EXCEPT ![s] = m],
             Quiet(node[s], m, s)
      PROVE  StepKept
  <2>1. CallsInv'
    BY <1>1, CallsStay DEF ElectionInv
  <2> QED
    BY <1>1, <2>1, QuietStep
<1>2. ASSUME voteReps' = voteReps, elected' = elected, node' = node,
             appendReqs' \subseteq appendReqs, snapReqs' \subseteq snapReqs
      PROVE  StepKept
  <2>1. CallsInv'
    BY <1>2, CallsStay DEF ElectionInv
  <2> QED
    BY <1>2, <2>1, SilentStep
<1>3. ASSUME NEW q \in appendReqs \cup snapReqs
      PROVE  /\ q.src \in Server /\ q.dst \in Server /\ q.term \in Nat
             /\ q.src # q.dst /\ [term |-> q.term, leader |-> q.src] \in elected
  BY DEF TypeOK, IsAppendReq, SnapReqs, ElectionInv, CallsInv
<1>4. ASSUME NEW q \in appendReqs \cup snapReqs,
             q.term >= node[q.dst].currentTerm, NEW f
      PROVE  LET n == SeenByFollower(node[q.dst], q, f)
             IN  IsNode(n) /\ IsStore(n.store) /\ Quiet(node[q.dst], n, q.dst)
  <2> DEFINE n == SeenByFollower(node[q.dst], q, f)
  <2>1. IsNode(n) /\ Quiet(node[q.dst], n, q.dst)
    BY <1>3, <1>4, NodeFacts, SeenByFollowerType, SeenByFollowerQuiet
  <2> HIDE DEF n
  <2>2. IsStore(n.store)
    BY <2>1 DEF IsNode
  <2> QED
    BY <2>1, <2>2 DEF n
<1>5. ASSUME NEW n, NEW st, IsNode(n), SameVote(n.store, st)
      PROVE  Same(n, [n EXCEPT !.store = st])
  BY <1>5 DEF IsNode, Same
<1>6. ASSUME NEW q \in appendReqs, AppendStale(q)
      PROVE  StepKept
  BY <1>2, <1>6 DEF AppendStale, AppendAnswer, voteVars, snapVars
<1>7. ASSUME NEW q \in appendReqs, NEW f \in Faults, AppendRefused(q, f)
      PROVE  StepKept
  BY <1>1, <1>3, <1>4, <1>7 DEF AppendRefused, AppendAnswer, voteVars, snapVars
<1>8. ASSUME NEW q \in appendReqs, NEW f \in Faults, AppendAccepted(q, f)
      PROVE  StepKept
  <2> DEFINE s == q.dst
             n == SeenByFollower(node[s], q, f)
             st == Merged(n.store, q)
             m == [n EXCEPT !.store = st]
             k == FollowCommit(m, s, q, f)
  <2>1. /\ node' = [node EXCEPT ![s] = k]
        /\ q.term >= node[s].currentTerm
        /\ voteReps' = voteReps /\ elected' = elected
        /\ appendReqs' \subseteq appendReqs /\ snapReqs' = snapReqs
    BY <1>8 DEF AppendAccepted, AppendAnswer, voteVars, snapVars
  <2>2. IsNode(n) /\ IsStore(n.store) /\ Quiet(node[s], n, s) /\ s \in Server
    BY <1>3, <1>4, <2>1
  <2>3. IsAppendReq(q)
    BY DEF TypeOK
  <2> HIDE DEF n
  <2>4. IsStore(st) /\ SameVote(n.store, st)
    BY <2>2, <2>3, MergedType, MergeSame
  <2> HIDE DEF st
  <2>5. IsNode(m) /\ Same(n, m)
    <3>1. IsNode(m)
      BY <2>2, <2>4 DEF IsNode
    <3> QED
      BY <1>5, <2>2, <2>4, <3>1
  <2> HIDE DEF m
  <2>6. Same(m, k)
    BY <2>2, <2>3, <2>5, FollowCommitSame
  <2> HIDE DEF k
  <2>7. Quiet(node[s], k, s)
    BY <2>2, <2>5, <2>6, QuietSame
  <2> HIDE DEF s
  <2> QED
    BY <1>1, <2>1, <2>2, <2>7
<1>9. ASSUME NEW q \in appendReqs, NEW f \in Faults, AppendError(q, f)
      PROVE  StepKept
  <2> DEFINE s == q.dst
             n == SeenByFollower(node[s], q, f)
             t == Truncated(n.store, q)
             g == Merged(n.store, q)
  <2>1. PICK m \in {n, [n EXCEPT !.store = t], [n EXCEPT !.store = g]} :
            node' = [node EXCEPT ![s] = m]
    BY <1>9 DEF AppendError
  <2>2. /\ q.term >= node[s].currentTerm
        /\ voteReps' = voteReps /\ elected' = elected
        /\ appendReqs' \subseteq appendReqs /\ snapReqs' = snapReqs
    BY <1>9 DEF AppendError, voteVars, snapVars
  <2>3. IsNode(n) /\ IsStore(n.store) /\ Quiet(node[s], n, s) /\ s \in Server
    BY <1>3, <1>4, <2>2
  <2> HIDE DEF n
  <2>4. SameVote(n.store, t) /\ SameVote(n.store, g)
    BY <2>3, MergeSame
  <2> HIDE DEF t, g
  <2>5. Same(n, [n EXCEPT !.store = t]) /\ Same(n, [n EXCEPT !.store = g])
    BY <1>5, <2>3, <2>4
  <2>6. Quiet(node[s], m, s)
    BY <2>1, <2>3, <2>5, QuietSame
  <2> HIDE DEF s
  <2> QED
    BY <1>1, <2>1, <2>2, <2>3, <2>6
<1>10. ASSUME NEW q \in snapReqs, SnapshotStale(q)
       PROVE  StepKept
  BY <1>2, <1>10 DEF SnapshotStale, SnapAnswer, voteVars, appendVars
<1>11. ASSUME NEW q \in snapReqs, NEW f \in Faults, SnapshotIgnored(q, f)
       PROVE  StepKept
  BY <1>1, <1>3, <1>4, <1>11 DEF SnapshotIgnored, SnapAnswer, voteVars, appendVars
<1>12. ASSUME NEW q \in snapReqs, NEW f \in Faults, SnapshotInstalled(q, f)
       PROVE  StepKept
  <2> DEFINE s == q.dst
             n == SeenByFollower(node[s], q, f)
             i == q.lastIncludedIndex
             st == InstallSnapshot(n.store, i, q.lastIncludedTerm, q.data)
             c == Max({n.commitIndex, i})
             l == Max({n.lastApplied, i})
             m == [n EXCEPT !.store = st, !.commitIndex = c, !.lastApplied = l]
  <2>1. /\ node' = [node EXCEPT ![s] = m]
        /\ q.term >= node[s].currentTerm
        /\ voteReps' = voteReps /\ elected' = elected
        /\ appendReqs' = appendReqs /\ snapReqs' \subseteq snapReqs
    BY <1>12 DEF SnapshotInstalled, SnapAnswer, voteVars, appendVars
  <2>2. IsNode(n) /\ IsStore(n.store) /\ Quiet(node[s], n, s) /\ s \in Server
    BY <1>3, <1>4, <2>1
  <2> HIDE DEF n
  <2>3. SameVote(n.store, st)
    BY <2>2 DEF IsStore, InstallSnapshot, SameVote
  <2> HIDE DEF st, c, l
  <2>4. Same(n, m)
    BY <2>2, <2>3 DEF IsNode, Same
  <2> HIDE DEF m
  <2>5. Quiet(node[s], m, s)
    BY <2>2, <2>4, QuietSame
  <2> HIDE DEF s
  <2> QED
    BY <1>1, <2>1, <2>2, <2>5
<1>13. ASSUME NEW q \in snapReqs, NEW f \in Faults, SnapshotError(q, f)
       PROVE  StepKept
  BY <1>1, <1>3, <1>4, <1>13 DEF SnapshotError, voteVars, appendVars
<1> QED
  BY <1>6, <1>7, <1>8, <1>9, <1>10, <1>11, <1>12, <1>13 DEF FollowerStep

\* Timeouts, lost calls and restarts do.
LEMMA MisfortuneInv ==
    ASSUME TypeOK, TypeOK', ElectionInv, Misfortune
    PROVE  StepKept
<1>1. ASSUME NEW q \in appendReqs \cup snapReqs, NEW b
      PROVE  LET x == [q EXCEPT !.waiting = b]
             IN  x.src = q.src /\ x.dst = q.dst /\ x.term = q.term
  BY DEF TypeOK, IsAppendReq, SnapReqs
<1>2. ASSUME elected' = elected,
             \A x \in appendReqs' \cup snapReqs' :
                \E q \in appendReqs \cup snapReqs :
                    x.src = q.src /\ x.dst = q.dst /\ x.term = q.term
      PROVE  CallsInv'
  BY <1>2 DEF ElectionInv, CallsInv
<1>3. ASSUME NEW q \in appendReqs, AppendTimeout(q)
      PROVE  StepKept
  <2>1. elected' = elected /\ node' = node /\ voteReps' = voteReps
    BY <1>3 DEF AppendTimeout, voteVars
  <2> DEFINE late == [q EXCEPT !.waiting = FALSE]
  <2>2. late.src = q.src /\ late.dst = q.dst /\ late.term = q.term
    BY <1>1
  <2>3. appendReqs' \subseteq appendReqs \cup {late} /\ snapReqs' = snapReqs
    BY <1>3 DEF AppendTimeout, snapVars
  <2> HIDE DEF late
  <2>4. CallsInv'
    BY <1>2, <2>1, <2>2, <2>3
  <2> QED
    BY <2>1, <2>4, SilentStep
<1>4. ASSUME NEW r \in appendReps, AppendReplyLost(r)
      PROVE  StepKept
  <2>1. elected' = elected /\ node' = node /\ voteReps' = voteReps /\ CallsInv'
    BY <1>4, CallsStay DEF AppendReplyLost, voteVars, snapVars, ElectionInv
  <2> QED
    BY <2>1, SilentStep
<1>5. ASSUME NEW q \in snapReqs, SnapTimeout(q)
      PROVE  StepKept
  <2>1. elected' = elected /\ node' = node /\ voteReps' = voteReps
    BY <1>5 DEF SnapTimeout, voteVars
  <2> DEFINE late == [q EXCEPT !.waiting = FALSE]
  <2>2. late.src = q.src /\ late.dst = q.dst /\ late.term = q.term
    BY <1>1
  <2>3. snapReqs' \subseteq snapReqs \cup {late} /\ appendReqs' = appendReqs
    BY <1>5 DEF SnapTimeout, appendVars
  <2> HIDE DEF late
  <2>4. CallsInv'
    BY <1>2, <2>1, <2>2, <2>3
  <2> QED
    BY <2>1, <2>4, SilentStep
<1>6. ASSUME NEW r \in snapReps, SnapReplyLost(r)
      PROVE  StepKept
  <2>1. elected' = elected /\ node' = node /\ voteReps' = voteReps /\ CallsInv'
    BY <1>6, CallsStay DEF SnapReplyLost, voteVars, appendVars, ElectionInv
  <2> QED
    BY <2>1, SilentStep
<1>7. ASSUME NEW s \in Unstable, Restart(s)
      PROVE  StepKept
  <2> DEFINE st == node[s].store
             m == [role        |-> "follower",
                   currentTerm |-> st.current_term,
                   votedFor    |-> st.voted_for,
                   leaderID    |-> Nobody,
                   commitIndex |-> st.last_applied,
                   lastApplied |-> st.last_applied,
                   nextIndex   |-> [p \in Server |-> 0],
                   matchIndex  |-> [p \in Server |-> 0],
                   votes       |-> {},
                   store       |-> st,
                   applied     |-> node[s].applied]
  <2>1. node' = [node EXCEPT ![s] = m]
    BY <1>7 DEF Restart
  <2>2. s \in Server /\ s # Nobody /\ st.current_term \in Nat
    BY RaftConstants, NodeFacts
  <2> HIDE DEF st
  <2>3. Quiet(node[s], m, s)
    <3>1. VoteInv(m, s) /\ HintInv(m, s, elected) /\ m.votes = {} /\ m.store = st
      BY <2>2 DEF VoteInv, HintInv
    <3>2. DiskKept(node[s].store, st)
      BY <2>2 DEF DiskKept, st
    <3> QED
      BY <3>1, <3>2 DEF Quiet
  <2> HIDE DEF m
  <2>4. elected' = elected /\ voteReps' \subseteq voteReps
    BY <1>7 DEF Restart
  <2>5. CallsInv'
    <3>1. ASSUME NEW x \in appendReqs' \cup snapReqs'
          PROVE  \E q \in appendReqs \cup snapReqs :
                    x.src = q.src /\ x.dst = q.dst /\ x.term = q.term
      <4>1. PICK q \in appendReqs \cup snapReqs :
                x = [q EXCEPT !.waiting = q.waiting /\ q.src # s]
        BY <1>7, Zenon DEF Restart, Abandon
      <4> QED
        BY <1>1, <4>1
    <3> QED
      BY <1>2, <2>4, <3>1
  <2> QED
    BY <2>1, <2>2, <2>3, <2>4, <2>5, QuietStep
<1> QED
  BY <1>3, <1>4, <1>5, <1>6, <1>7 DEF Misfortune

\* Every step keeps the invariant, and what is on disk.
LEMMA StepInv ==
    TypeOK /\ ElectionInv /\ [Next]_vars => TypeOK' /\ ElectionInv' /\ DisksKept
<1> SUFFICES ASSUME TypeOK, ElectionInv, [Next]_vars
             PROVE  TypeOK' /\ StepKept
  BY DEF StepKept
<1>1. TypeOK'
  BY StepType
<1>2. CASE Next
  BY <1>1, <1>2, ElectionStepInv, LeaderStepInv, FollowerStepInv, MisfortuneInv
     DEF Next
<1>3. CASE UNCHANGED vars
  <2>1. CallsInv'
    BY <1>3 DEF ElectionInv, CallsInv, vars, appendVars, snapVars
  <2> QED
    BY <1>1, <1>3, <2>1, SilentStep DEF vars, voteVars
<1> QED
  BY <1>1, <1>2, <1>3

\* ElectionInv holds in every reachable state, whatever the size of the
\* cluster, the faults of the stores and the restarts.
THEOREM ElectionsInvariant == Spec => [](TypeOK /\ ElectionInv)
<1>1. Init => TypeOK /\ ElectionInv
  BY InitType, InitElection
<1> QED
  BY <1>1, StepInv, PTL DEF Spec

\* At most one node ever wins the election of a term (startElection and
\* RequestVote), whatever crashes, store errors, delays and losses happen.
THEOREM ElectionsSafe == Spec => []ElectionSafety
<1>1. TypeOK /\ ElectionInv => ElectionSafety
  BY DEF ElectionInv
<1> QED
  BY <1>1, ElectionsInvariant, PTL

\* A vote counted or on its way is on the voter's disk, and is the voter's
\* only one in that term (RequestVote saves it before it answers).
THEOREM VotesAreBacked == Spec => []VotesBacked
<1>1. TypeOK /\ ElectionInv => VotesBacked
  <2> SUFFICES ASSUME TypeOK, CastInv PROVE VotesBacked
    BY DEF ElectionInv
  <2>1. \A r \in voteReps : r.term \in Nat
    BY DEF TypeOK, VoteReps
  <2>2. \A s \in Server : node[s].currentTerm \in Nat
    BY DEF TypeOK, IsNode
  <2> QED
    BY <2>1, <2>2 DEF CastInv, VotesBacked
<1> QED
  BY <1>1, ElectionsInvariant, PTL

\* The leaderID of a node, to which Write and Read forward, always names the
\* winner of the term the node is in.
THEOREM LeaderHintsTrue == Spec => []LeaderHint
<1>1. TypeOK /\ ElectionInv => LeaderHint
  BY DEF ElectionInv, HintInv, LeaderHint
<1> QED
  BY <1>1, ElectionsInvariant, PTL

\* The winner of a term is in it, or in a later one: its own vote for itself
\* is on its disk.
LEMMA WinnerTerm ==
    ASSUME TypeOK, ElectionInv, NEW l \in Server, NEW T \in Nat,
           [term |-> T, leader |-> l] \in elected
    PROVE  node[l].currentTerm >= T
<1> DEFINE e == [term |-> T, leader |-> l]
<1>1. VoteMade(l, T, l)
  <2>1. Won(e)
    BY DEF ElectionInv, ElectedInv
  <2> QED
    BY <2>1 DEF Won
<1>2. node[l].store.current_term >= T
  BY <1>1, NodeFacts DEF VoteMade, OnDisk
<1> QED
  BY <1>2, NodeFacts DEF VoteInv

\* A call that Write or Read forwards reaches a node that leads, knows no
\* leader, or is in a later term: it is never forwarded in a circle.
THEOREM ForwardingEnds == Spec => []NoForwardingLoop
<1>1. TypeOK /\ ElectionInv => NoForwardingLoop
  <2> SUFFICES ASSUME TypeOK, ElectionInv, NEW s \in Server, NEW l,
                      l = node[s].leaderID, node[s].role # "leader", l # Nobody
               PROVE  /\ l # s
                      /\ \/ node[l].role = "leader"
                         \/ node[l].leaderID = Nobody
                         \/ node[l].currentTerm > node[s].currentTerm
    BY DEF NoForwardingLoop
  <2> DEFINE T == node[s].currentTerm
             e == [term |-> T, leader |-> l]
  <2>1. e \in elected /\ l # s /\ T \in Nat
    BY NodeFacts DEF HintInv
  <2>2. l \in Server
    BY <2>1 DEF TypeOK
  <2>3. node[l].currentTerm >= T
    BY <2>1, <2>2, WinnerTerm
  <2>4. ASSUME node[l].currentTerm = T, node[l].leaderID # Nobody
        PROVE  node[l].role = "leader"
    <3> DEFINE x == node[l].leaderID
    <3>1. [term |-> T, leader |-> x] \in elected
      BY <2>2, <2>4, NodeFacts DEF HintInv
    <3>2. x = l
      BY <2>1, <3>1 DEF ElectionInv, ElectionSafety
    <3> QED
      BY <2>2, <3>2, NodeFacts DEF HintInv
  <2> QED
    BY <2>1, <2>2, <2>3, <2>4, NodeFacts
<1> QED
  BY <1>1, ElectionsInvariant, PTL

\* No step, a restart included, lowers the term SaveTermVote saved or
\* replaces a vote saved in it.
THEOREM VotesDurable == Spec => VoteDurable
<1> DEFINE Kept == \A s \in Server :
                LET old == node[s].store
                    new == node[s].store'
                IN  /\ new.current_term >= old.current_term
                    /\ (new.current_term = old.current_term /\ old.voted_for # Nobody)
                            => new.voted_for = old.voted_for
<1>1. TypeOK /\ ElectionInv /\ [Next]_vars => [Kept]_vars
  BY StepInv DEF DisksKept, DiskKept
<1> QED
  BY <1>1, ElectionsInvariant, PTL DEF Spec, VoteDurable

----------------------------------------------------------------------------
(* Facts for the proofs that build on elections                            *)

\* The winners of past elections are never forgotten.
LEMMA ElectedGrows == [Next]_vars => elected \subseteq elected'
<1> SUFFICES ASSUME [Next]_vars PROVE elected \subseteq elected'
  OBVIOUS
<1>1. ElectionStep => elected \subseteq elected'
  BY DEF ElectionStep, StartElection, StartElectionError, WinAlone,
         RequestVoteStale, RequestVoteGranted, RequestVoteRejected,
         RequestVoteError, VoteReplyStepDown, VoteReplyCounted, VoteAnswer
<1>2. LeaderStep => elected' = elected
  BY DEF LeaderStep, SendAppend, SendSnapshot, AppendReplyStepDown,
         AppendReplySuccess, AppendReplyFailure, SnapReplyStepDown,
         SnapReplySuccess, Write
<1>3. FollowerStep => elected' = elected
  BY DEF FollowerStep, AppendStale, AppendRefused, AppendAccepted, AppendError,
         SnapshotStale, SnapshotIgnored, SnapshotInstalled, SnapshotError,
         AppendAnswer, SnapAnswer
<1>4. Misfortune => elected' = elected
  BY DEF Misfortune, AppendTimeout, AppendReplyLost, SnapTimeout,
         SnapReplyLost, Restart
<1> QED
  BY <1>1, <1>2, <1>3, <1>4 DEF Next, vars

\* No answer to a leader comes from the leader itself.
AnswersInv == \A r \in appendReps \cup snapReps : r.src # r.dst

\* Answers are made of requests, so they have two ends, too.
LEMMA AnswersStep ==
    TypeOK /\ ElectionInv /\ AnswersInv /\ [Next]_vars => AnswersInv'
<1> SUFFICES ASSUME TypeOK, ElectionInv, AnswersInv, [Next]_vars
             PROVE  AnswersInv'
  OBVIOUS
<1>1. ASSUME appendReps' \subseteq appendReps, snapReps' \subseteq snapReps
      PROVE  AnswersInv'
  BY <1>1 DEF AnswersInv
<1>2. \A q \in appendReqs \cup snapReqs : q.src # q.dst
  BY DEF ElectionInv, CallsInv
<1>3. ASSUME NEW q \in appendReqs, NEW term, NEW success, NEW match,
             AppendAnswer(q, term, success, match)
      PROVE  AnswersInv'
  <2>1. ASSUME NEW r \in appendReps' \ appendReps
        PROVE  r.src = q.src /\ r.dst = q.dst
    BY <1>3, <2>1 DEF AppendAnswer, Answers
  <2> QED
    BY <1>2, <1>3, <2>1 DEF AnswersInv, AppendAnswer, snapVars
<1>4. ASSUME NEW q \in snapReqs, NEW term, SnapAnswer(q, term)
      PROVE  AnswersInv'
  <2>1. ASSUME NEW r \in snapReps' \ snapReps
        PROVE  r.src = q.src /\ r.dst = q.dst
    BY <1>4, <2>1 DEF SnapAnswer, Answers
  <2> QED
    BY <1>2, <1>4, <2>1 DEF AnswersInv, SnapAnswer, appendVars
<1>5. ElectionStep => AnswersInv'
  BY <1>1 DEF ElectionStep, StartElection, StartElectionError, WinAlone,
         RequestVoteStale, RequestVoteGranted, RequestVoteRejected,
         RequestVoteError, VoteReplyStepDown, VoteReplyCounted, VoteAnswer,
         appendVars, snapVars
<1>6. LeaderStep => AnswersInv'
  BY <1>1 DEF LeaderStep, SendAppend, SendSnapshot, AppendReplyStepDown,
         AppendReplySuccess, AppendReplyFailure, SnapReplyStepDown,
         SnapReplySuccess, Write, appendVars, snapVars
<1>7. FollowerStep => AnswersInv'
  BY <1>1, <1>3, <1>4
     DEF FollowerStep, AppendStale, AppendRefused, AppendAccepted, AppendError,
         SnapshotStale, SnapshotIgnored, SnapshotInstalled, SnapshotError,
         appendVars, snapVars
<1>8. Misfortune => AnswersInv'
  BY <1>1 DEF Misfortune, AppendTimeout, AppendReplyLost, SnapTimeout,
         SnapReplyLost, Restart, appendVars, snapVars
<1> QED
  BY <1>1, <1>5, <1>6, <1>7, <1>8 DEF Next, vars, appendVars, snapVars
=============================================================================
