-------------------------- MODULE RaftCommitProofs --------------------------
(***************************************************************************)
(* Committed rows are safe: StateMachineSafety, LeaderCompleteness,        *)
(* CommittedOnMajority, AppliedRowsStay, DurableStateMachine, for every    *)
(* cluster that compacts no logs, whose SaveTermVote does not fail and     *)
(* whose batches can hold a whole log.  Without the first hypothesis       *)
(* `rollback' and `stalesnap', without the second `lostterm', without the  *)
(* third `batch' show what goes wrong.  (LastAppliedIsDurable needs the    *)
(* first hypothesis only.)  Where, moreover, stores can always read and    *)
(* apply a row, what is committed is applied (CommittedIsApplied).         *)
(*                                                                         *)
(* The argument is about points: a point is the rows L of a log up to some *)
(* index k.  It is safe with Q if the nodes of Q hold it and nobody who    *)
(* could make them lose it has been elected, or will be with their votes.  *)
(*  - OrderInv: terms never fall along a log, and a candidate's request    *)
(*    tells where its log ends.  So a vote of Q goes to logs with row k.   *)
(*  - SentInv: a row that a leader writes is safe with those who have      *)
(*    acknowledged it, or a majority has left the leader's term without    *)
(*    them.  The leader that counts a majority is therefore right.         *)
(*  - CommitInv: what a node has for committed is settled, that is, part   *)
(*    of a point that is safe with a majority; so is what requests tell    *)
(*    of; and the state machine has run the rows up to lastApplied.        *)
(***************************************************************************)
EXTENDS RaftAckProofs

----------------------------------------------------------------------------
(* Elections, seen by those who count on logs                              *)

\* Node c, from n to m: a candidate is new or stays one, and it counts its own
\* vote and the votes that were cast for it.
VoteMove(n, m, c) ==
    /\ m.role = "candidate" =>
            \/ m.currentTerm > n.currentTerm
            \/ n.role = "candidate" /\ m.currentTerm = n.currentTerm
    /\ \A v \in m.votes :
            \/ v = c
            \/ /\ n.role = "candidate" /\ m.currentTerm = n.currentTerm
               /\ Cast(v, n.currentTerm, c)

\* q is request o, which may have been given up by the candidate.
SameAsk(q, o) ==
    /\ <<q.src, q.dst, q.term>> = <<o.src, o.dst, o.term>>
    /\ <<q.lastLogIndex, q.lastLogTerm>> = <<o.lastLogIndex, o.lastLogTerm>>

\* q is a new request for a vote, and tells where its sender's log ends.
Asks(q) == /\ q.term = node'[q.src].currentTerm
           /\ q.lastLogIndex = LastIndex(node'[q.src].store)
           /\ q.lastLogTerm = LastTerm(node'[q.src].store)

\* r answers q; a vote is only for a log as good as the voter's.
VotesOn(r, q) == /\ <<r.src, r.dst, r.term>> = <<q.src, q.dst, q.term>>
                 /\ r.granted => LogUpToDate(node[q.dst], q)

VoteStep ==
    /\ \A c \in Server : VoteMove(node[c], node'[c], c)
    /\ \A q \in voteReqs' : Asks(q) \/ \E o \in voteReqs : SameAsk(q, o)
    /\ \A r \in voteReps' : r \in voteReps \/ \E q \in voteReqs : VotesOn(r, q)

\* A node that stays as it is makes such a move, ...
LEMMA StayMove ==
    ASSUME ElectionInv, NEW c \in Server
    PROVE  VoteMove(node[c], node[c], c)
<1>1. VoteInv(node[c], c)
  BY DEF ElectionInv
<1> QED
  BY <1>1 DEF VoteMove, VoteInv, Cast

\* ... and so do all if one does and the others stay.
LEMMA TurnMoves ==
    ASSUME TypeOK, ElectionInv, NEW s \in Server, NEW m,
           node' = [node EXCEPT ![s] = m], VoteMove(node[s], m, s)
    PROVE  \A c \in Server : VoteMove(node[c], node'[c], c)
<1>1. \A c \in Server : node'[c] = IF c = s THEN m ELSE node[c]
  BY DEF TypeOK
<1> QED
  BY <1>1, StayMove

\* Answering a request for a vote.
LEMMA AnswerVotes ==
    ASSUME NEW q \in voteReqs, NEW term, NEW granted,
           VoteAnswer(q, term, granted), granted => LogUpToDate(node[q.dst], q)
    PROVE  /\ \A o \in voteReqs' : \E x \in voteReqs : SameAsk(o, x)
           /\ \A r \in voteReps' : r \in voteReps \/ VotesOn(r, q)
<1>1. voteReqs' \subseteq voteReqs
  BY DEF VoteAnswer
<1>2. ASSUME NEW r \in voteReps', r \notin voteReps PROVE VotesOn(r, q)
  <2>1. r = [src |-> q.src, dst |-> q.dst, term |-> q.term,
             rterm |-> term, granted |-> granted]
    BY <1>2 DEF VoteAnswer, Answers
  <2> QED
    BY <2>1 DEF VotesOn
<1> QED
  BY <1>1, <1>2 DEF SameAsk

\* A voter's log is what it was when it considers a request.
LEMMA SeenByVoterMove ==
    ASSUME TypeOK, ElectionInv, NEW q \in voteReqs, NEW f
    PROVE  LET n == SeenByVoter(node[q.dst], q, f)
           IN  /\ q.dst \in Server /\ IsNode(n)
               /\ VoteMove(node[q.dst], n, q.dst)
               /\ LogUpToDate(n, q) <=> LogUpToDate(node[q.dst], q)
<1> DEFINE o == node[q.dst]
           k == stepDownLocked(o, q.term, Nobody, f)
           n == SeenByVoter(o, q, f)
<1>1. q.src \in Server /\ q.dst \in Server /\ q.term \in Nat /\ IsNode(o)
  BY DEF TypeOK, VoteReqs
<1>2. IsNode(n) /\ Calm(o, n)
  BY <1>1, SeenByVoterType, SeenByVoterCalm
<1>3. k.votes = {} /\ k.role = "follower"
  BY <1>1 DEF stepDownLocked, IsNode
<1>4. VoteMove(o, k, q.dst)
  BY <1>3 DEF VoteMove
<1>5. VoteMove(o, o, q.dst)
  BY <1>1, StayMove
<1>6. n \in {k, o}
  BY DEF SeenByVoter
<1>7. LogUpToDate(n, q) <=> LogUpToDate(o, q)
  <2>1. LastIndex(n.store) = LastIndex(o.store) /\ LastTerm(n.store) = LastTerm(o.store)
    BY <1>2, SameLogFacts DEF Calm
  <2> QED
    BY <2>1 DEF LogUpToDate
<1> HIDE DEF k, n, o
<1> QED
  BY <1>1, <1>2, <1>4, <1>5, <1>6, <1>7 DEF n, o

\* The steps of elections.
LEMMA ElectionVotes ==
    ASSUME TypeOK, ElectionInv, ElectionStep
    PROVE  VoteStep
<1>1. \A s \in Server : IsNode(node[s]) /\ VoteInv(node[s], s)
  BY DEF TypeOK, ElectionInv
<1>2. ASSUME voteReqs' \subseteq voteReqs, voteReps' \subseteq voteReps,
             \A c \in Server : VoteMove(node[c], node'[c], c)
      PROVE  VoteStep
  BY <1>2 DEF VoteStep, SameAsk
<1>3. ASSUME NEW s \in Server, StartElection(s) PROVE VoteStep
  <2> DEFINE n == Campaign(node[s], s)
             st == SaveTermVote(n.store, n.currentTerm, s)
             m == [n EXCEPT !.votes = {s}, !.store = st]
             V == {v \in Peers(s) : <<s, v>> \in Ballot[n.currentTerm]}
             ask(p) == [src |-> s, dst |-> p, term |-> n.currentTerm,
                        lastLogIndex |-> LastIndex(n.store),
                        lastLogTerm  |-> LastTerm(n.store),
                        waiting |-> TRUE]
  <2>1. /\ node' = [node EXCEPT ![s] = m]
        /\ voteReqs' = voteReqs \cup {ask(p) : p \in V}
        /\ voteReps' \subseteq voteReps
    BY <1>3 DEF StartElection, Heeded
  <2>2. /\ IsNode(n) /\ n.currentTerm = node[s].currentTerm + 1
        /\ node[s].currentTerm \in Nat
    BY <1>1, CampaignType DEF IsNode
  <2>3. SameLog(n.store, st)
    BY <2>2 DEF SaveTermVote, IsNode, IsStore, SameLog
  <2> HIDE DEF n, st, V
  <2>4. m.currentTerm = n.currentTerm /\ m.votes = {s} /\ m.store = st
    BY <2>2 DEF IsNode
  <2> HIDE DEF m
  <2>5. VoteMove(node[s], m, s)
    BY <2>2, <2>4 DEF VoteMove
  <2>6. \A c \in Server : VoteMove(node[c], node'[c], c)
    BY <2>1, <2>5, TurnMoves
  <2>7. node'[s] = m
    BY <2>1 DEF TypeOK
  <2>8. ASSUME NEW q \in voteReqs' PROVE Asks(q) \/ \E o \in voteReqs : SameAsk(q, o)
    <3>1. CASE q \in voteReqs
      BY <3>1 DEF SameAsk
    <3>2. ASSUME NEW p \in V, q = ask(p) PROVE Asks(q)
      <4>1. /\ q.src = s /\ q.term = n.currentTerm
            /\ q.lastLogIndex = LastIndex(n.store)
            /\ q.lastLogTerm = LastTerm(n.store)
        BY <3>2
      <4>2. LastIndex(st) = LastIndex(n.store) /\ LastTerm(st) = LastTerm(n.store)
        BY <2>3, SameLogFacts
      <4> QED
        BY <2>4, <2>7, <4>1, <4>2 DEF Asks
    <3> QED
      BY <2>1, <3>1, <3>2
  <2> QED
    BY <2>1, <2>6, <2>8 DEF VoteStep
<1>4. ASSUME NEW s \in Server, NEW f \in Faults, StartElectionError(s, f)
      PROVE  VoteStep
  <2> DEFINE n == Campaign(node[s], s)
             st == IF f.method = "SaveTermVote" THEN n.store
                   ELSE SaveTermVote(n.store, n.currentTerm, s)
             m == [n EXCEPT !.votes = {}, !.store = st]
  <2>1. node' = [node EXCEPT ![s] = m] /\ voteReqs' = voteReqs /\ voteReps' = voteReps
    BY <1>4 DEF StartElectionError, voteVars
  <2>2. /\ IsNode(n) /\ n.currentTerm = node[s].currentTerm + 1
        /\ node[s].currentTerm \in Nat
    BY <1>1, CampaignType DEF IsNode
  <2> HIDE DEF n, st
  <2>3. m.currentTerm = n.currentTerm /\ m.votes = {}
    BY <2>2 DEF IsNode
  <2> HIDE DEF m
  <2>4. VoteMove(node[s], m, s)
    BY <2>2, <2>3 DEF VoteMove
  <2> QED
    BY <1>2, <2>1, <2>4, TurnMoves
<1>5. ASSUME NEW s \in Server, NEW n, IsNode(n), n.role = node[s].role,
             n.currentTerm = node[s].currentTerm, node[s].role = "candidate",
             \A v \in n.votes : Cast(v, node[s].currentTerm, s), NEW f
      PROVE  /\ VoteMove(node[s], becomeLeaderLocked(n, s, f), s)
             /\ VoteMove(node[s], n, s)
  <2> DEFINE m == becomeLeaderLocked(n, s, f)
  <2>1. m.votes = {} /\ m.currentTerm = n.currentTerm
    BY <1>5 DEF becomeLeaderLocked, IsNode
  <2> HIDE DEF m
  <2> QED
    BY <1>5, <2>1 DEF VoteMove, m
<1>6. ASSUME NEW s \in Server, WinAlone(s) PROVE VoteStep
  <2>1. /\ node[s].role = "candidate" /\ voteReqs' = voteReqs /\ voteReps' = voteReps
        /\ node' = [node EXCEPT ![s] = becomeLeaderLocked(node[s], s, NoFault)]
    BY <1>6 DEF WinAlone, voteVars
  <2>2. \A v \in node[s].votes : Cast(v, node[s].currentTerm, s)
    BY DEF Cast
  <2> DEFINE m == becomeLeaderLocked(node[s], s, NoFault)
  <2>3. VoteMove(node[s], m, s)
    BY <1>1, <1>5, <2>1, <2>2
  <2> HIDE DEF m
  <2> QED
    BY <1>2, <2>1, <2>3, TurnMoves DEF m
<1>7. ASSUME NEW q \in voteReqs, RequestVoteStale(q) PROVE VoteStep
  <2>1. VoteAnswer(q, node[q.dst].currentTerm, FALSE) /\ node' = node
    BY <1>7 DEF RequestVoteStale
  <2>2. \A c \in Server : VoteMove(node[c], node'[c], c)
    BY <2>1, StayMove
  <2>3. /\ \A o \in voteReqs' : \E x \in voteReqs : SameAsk(o, x)
        /\ \A r \in voteReps' : r \in voteReps \/ VotesOn(r, q)
    BY <2>1, AnswerVotes
  <2> QED
    BY <2>2, <2>3 DEF VoteStep
<1>8. ASSUME NEW q \in voteReqs, RequestVoteGranted(q) PROVE VoteStep
  <2> DEFINE n == SeenByVoter(node[q.dst], q, NoFault)
             st == SaveTermVote(n.store, n.currentTerm, q.src)
             m == [n EXCEPT !.votedFor = q.src, !.store = st]
  <2>1. /\ node' = [node EXCEPT ![q.dst] = m] /\ Grants(n, q)
        /\ VoteAnswer(q, n.currentTerm, TRUE)
    BY <1>8 DEF RequestVoteGranted
  <2>2. /\ q.dst \in Server /\ IsNode(n) /\ VoteMove(node[q.dst], n, q.dst)
        /\ LogUpToDate(n, q) <=> LogUpToDate(node[q.dst], q)
    BY SeenByVoterMove
  <2> HIDE DEF n, st
  <2>3. m.role = n.role /\ m.currentTerm = n.currentTerm /\ m.votes = n.votes
    BY <2>2 DEF IsNode
  <2> HIDE DEF m
  <2>4. VoteMove(node[q.dst], m, q.dst)
    BY <2>2, <2>3 DEF VoteMove
  <2>5. \A c \in Server : VoteMove(node[c], node'[c], c)
    BY <2>1, <2>2, <2>4, TurnMoves
  <2>6. LogUpToDate(node[q.dst], q)
    BY <2>1, <2>2 DEF Grants
  <2>7. /\ \A o \in voteReqs' : \E x \in voteReqs : SameAsk(o, x)
        /\ \A r \in voteReps' : r \in voteReps \/ VotesOn(r, q)
    BY <2>1, <2>6, AnswerVotes
  <2> QED
    BY <2>5, <2>7 DEF VoteStep
<1>9. ASSUME NEW q \in voteReqs, NEW f \in Faults, RequestVoteRejected(q, f)
      PROVE  VoteStep
  <2> DEFINE n == SeenByVoter(node[q.dst], q, f)
  <2>1. /\ node' = [node EXCEPT ![q.dst] = n]
        /\ VoteAnswer(q, n.currentTerm, FALSE)
    BY <1>9 DEF RequestVoteRejected
  <2>2. q.dst \in Server /\ VoteMove(node[q.dst], n, q.dst)
    BY SeenByVoterMove
  <2> HIDE DEF n
  <2>3. \A c \in Server : VoteMove(node[c], node'[c], c)
    BY <2>1, <2>2, TurnMoves
  <2>4. /\ \A o \in voteReqs' : \E x \in voteReqs : SameAsk(o, x)
        /\ \A r \in voteReps' : r \in voteReps \/ VotesOn(r, q)
    BY <2>1, AnswerVotes
  <2> QED
    BY <2>3, <2>4 DEF VoteStep
<1>10. ASSUME NEW q \in voteReqs, NEW f \in Faults, RequestVoteError(q, f)
       PROVE  VoteStep
  <2>0. PICK g \in {f, NoFault} :
            LET n == SeenByVoter(node[q.dst], q, g)
            IN  \/ node' = [node EXCEPT ![q.dst] = n]
                \/ node' = [node EXCEPT ![q.dst] = [n EXCEPT !.votedFor = q.src]]
    BY <1>10 DEF RequestVoteError
  <2> DEFINE n == SeenByVoter(node[q.dst], q, g)
             m == [n EXCEPT !.votedFor = q.src]
  <2>1. /\ \E x \in {n, m} : node' = [node EXCEPT ![q.dst] = x]
        /\ voteReqs' \subseteq voteReqs /\ voteReps' = voteReps
    BY <1>10, <2>0 DEF RequestVoteError
  <2>2. q.dst \in Server /\ IsNode(n) /\ VoteMove(node[q.dst], n, q.dst)
    BY SeenByVoterMove
  <2> HIDE DEF n
  <2>3. m.role = n.role /\ m.currentTerm = n.currentTerm /\ m.votes = n.votes
    BY <2>2 DEF IsNode
  <2> HIDE DEF m
  <2>4. VoteMove(node[q.dst], m, q.dst)
    BY <2>2, <2>3 DEF VoteMove
  <2> QED
    BY <1>2, <2>1, <2>2, <2>4, TurnMoves
<1>11. ASSUME NEW r \in voteReps, NEW f \in Faults, VoteReplyStepDown(r, f)
       PROVE  VoteStep
  <2> DEFINE m == stepDownLocked(node[r.src], r.rterm, Nobody, f)
  <2>1. /\ node' = [node EXCEPT ![r.src] = m] /\ voteReqs' = voteReqs
        /\ voteReps' \subseteq voteReps
    BY <1>11 DEF VoteReplyStepDown, Heeded
  <2>2. r.src \in Server
    BY DEF TypeOK, VoteReps
  <2>3. m.votes = {} /\ m.role = "follower"
    BY <1>1, <2>2 DEF stepDownLocked, IsNode
  <2> HIDE DEF m
  <2>4. VoteMove(node[r.src], m, r.src)
    BY <2>3 DEF VoteMove
  <2> QED
    BY <1>2, <2>1, <2>2, <2>4, TurnMoves
<1>12. ASSUME NEW r \in voteReps, NEW f \in Faults, VoteReplyCounted(r, f)
       PROVE  VoteStep
  <2> DEFINE s == r.src
             V == node[s].votes \cup {r.dst}
             n == [node[s] EXCEPT !.votes = V]
             won == Cardinality(n.votes) >= Majority
             b == becomeLeaderLocked(n, s, f)
  <2>1. s \in Server /\ r.dst \in Server /\ IsNode(node[s])
    BY <1>1 DEF TypeOK, VoteReps
  <2>2. /\ node' = [node EXCEPT ![s] = IF won THEN b ELSE n]
        /\ voteReqs' = voteReqs /\ voteReps' \subseteq voteReps
        /\ VoteCounts(node[s], r)
    BY <1>12 DEF VoteReplyCounted, Heeded
  <2>3. /\ node[s].role = "candidate" /\ node[s].currentTerm = r.term
        /\ r.granted
    BY <2>2 DEF VoteCounts
  <2>4. \A v \in V : Cast(v, node[s].currentTerm, s)
    BY <2>3 DEF Cast
  <2>5. V \in SUBSET Server
    BY <2>1 DEF IsNode
  <2> HIDE DEF s, V
  <2>6. /\ IsNode(n) /\ n.role = node[s].role
        /\ n.currentTerm = node[s].currentTerm /\ n.votes = V
    BY <2>1, <2>5 DEF IsNode
  <2> HIDE DEF n
  <2>7. VoteMove(node[s], b, s) /\ VoteMove(node[s], n, s)
    BY <1>5, <2>1, <2>3, <2>4, <2>6
  <2> DEFINE m == IF won THEN b ELSE n
  <2>8. VoteMove(node[s], m, s)
    BY <2>7
  <2> HIDE DEF m
  <2> QED
    BY <1>2, <2>1, <2>2, <2>8, TurnMoves DEF m
<1> QED
  BY <1>3, <1>4, <1>6, <1>7, <1>8, <1>9, <1>10, <1>11, <1>12 DEF ElectionStep

\* The other steps leave candidates and their calls alone.
LEMMA StepVotes ==
    ASSUME TypeOK, ElectionInv, ElectionInv', RowStep, [Next]_vars
    PROVE  VoteStep
<1>1. CASE ElectionStep
  BY <1>1, ElectionVotes
<1>2. CASE ~ElectionStep
  <2>1. /\ \A q \in voteReqs' : \E o \in voteReqs : SameAsk(q, o)
        /\ voteReps' \subseteq voteReps
    <3>1. CASE voteReqs' = voteReqs /\ voteReps' = voteReps
      BY <3>1 DEF SameAsk
    <3>2. ASSUME NEW s \in Unstable, Restart(s)
          PROVE  /\ \A q \in voteReqs' : \E o \in voteReqs : SameAsk(q, o)
                 /\ voteReps' \subseteq voteReps
      <4>1. voteReqs' = Abandon(voteReqs, s) /\ voteReps' \subseteq voteReps
        BY <3>2 DEF Restart
      <4>2. ASSUME NEW q \in voteReqs' PROVE \E o \in voteReqs : SameAsk(q, o)
        <5>1. PICK o \in voteReqs : q = [o EXCEPT !.waiting = @ /\ o.src # s]
          BY <4>1 DEF Abandon
        <5>2. o \in VoteReqs
          BY DEF TypeOK
        <5> QED
          BY <5>1, <5>2 DEF SameAsk, VoteReqs
      <4> QED
        BY <4>1, <4>2
    <3>3. CASE LeaderStep
      BY <3>1, <3>3 DEF LeaderStep, SendAppend, SendSnapshot,
            AppendReplyStepDown, AppendReplySuccess, AppendReplyFailure,
            SnapReplyStepDown, SnapReplySuccess, Write, voteVars
    <3>4. CASE FollowerStep
      BY <3>1, <3>4 DEF FollowerStep, AppendStale, AppendRefused, AppendAccepted,
            AppendError, SnapshotStale, SnapshotIgnored, SnapshotInstalled,
            SnapshotError, AppendAnswer, SnapAnswer, voteVars
    <3>5. CASE Misfortune
      BY <3>1, <3>2, <3>5 DEF Misfortune, AppendTimeout, AppendReplyLost,
            SnapTimeout, SnapReplyLost, voteVars
    <3>6. CASE UNCHANGED vars
      BY <3>1, <3>6 DEF vars, voteVars
    <3> QED
      BY <1>2, <3>3, <3>4, <3>5, <3>6 DEF Next
  <2>2. ASSUME NEW c \in Server, node'[c].role = "candidate"
        PROVE  node'[c] = node[c]
    <3>1. ASSUME NEW s \in Server, NEW m, node' = [node EXCEPT ![s] = m],
                 m.role = "candidate" => m = node[s]
          PROVE  node'[c] = node[c]
      <4>1. node'[c] = IF c = s THEN m ELSE node[c]
        BY <3>1 DEF TypeOK
      <4> QED
        BY <2>2, <3>1, <4>1
    <3>2. \A q \in appendReqs : q.dst \in Server
      BY DEF TypeOK, IsAppendReq
    <3> QED
      BY <1>2, <3>1, <3>2
         DEF RowStep, LogStays, Sends, SendAppend, Merges, Appends, Turns
  <2>3. ASSUME NEW c \in Server PROVE VoteMove(node[c], node'[c], c)
    <3>1. node'[c].votes # {} => node'[c].role = "candidate"
      BY DEF ElectionInv, VoteInv
    <3>2. CASE node'[c].role = "candidate"
      BY <2>2, <3>2, StayMove
    <3>3. CASE node'[c].role # "candidate"
      BY <3>1, <3>3 DEF VoteMove
    <3> QED
      BY <3>2, <3>3
  <2> QED
    BY <2>1, <2>3 DEF VoteStep
<1> QED
  BY <1>1, <1>2

----------------------------------------------------------------------------
(* Logs are in the order of terms                                          *)

\* The terms of the rows of A, and of the row they follow, never fall,
Sorted(A) == \A i \in DOMAIN A.rows :
                /\ A.at <= A.rows[i].term
                /\ \A j \in DOMAIN A.rows :
                        i <= j => A.rows[i].term <= A.rows[j].term

\* ... and do not pass term.
UpTo(A, term) == \A i \in DOMAIN A.rows : A.rows[i].term <= term

\* What a request for a vote says of its sender's log is true for as long as
\* the sender stands in the term of the request.
AskInv(q) ==
    /\ q.term <= node[q.src].currentTerm
    /\ (node[q.src].role = "candidate" /\ node[q.src].currentTerm = q.term) =>
            /\ q.lastLogIndex = LastIndex(node[q.src].store)
            /\ q.lastLogTerm = LastTerm(node[q.src].store)

OrderInv ==
    /\ \A A \in Segments : Sorted(A)
    /\ \A s \in Server : UpTo(LogOf(node[s].store), node[s].currentTerm)
    /\ \A q \in appendReqs : UpTo(RowsOf(q), q.term)
    /\ \A q \in voteReqs : AskInv(q)
    /\ \A r \in voteReps : r.term <= node[r.src].currentTerm

\* A part of a sorted segment is sorted,
LEMMA PartSorted ==
    ASSUME NEW A, NEW a, NEW P, NEW p, Seg(A, a), Seg(P, p), Part(P, A),
           Sorted(A)
    PROVE  Sorted(P)
<1>1. /\ A.lo \in Nat /\ P.lo \in Nat /\ a \in Nat /\ p \in Nat
      /\ DOMAIN P.rows = (P.lo + 1)..p /\ DOMAIN A.rows = (A.lo + 1)..a
  BY DEF Seg
<1>2. ASSUME NEW i \in DOMAIN P.rows
      PROVE  P.at <= P.rows[i].term /\ i \in DOMAIN A.rows
             /\ P.rows[i] = A.rows[i]
  <2>1. i \in DOMAIN A.rows /\ P.rows[i] = A.rows[i] /\ P.lo <= i
    BY <1>1 DEF Part
  <2> QED
    BY <1>1, <2>1 DEF Part, Sorted
<1> QED
  BY <1>2 DEF Sorted

\* ... and so is a log merged with a request.
LEMMA MergeSorted ==
    ASSUME NEW M, NEW C, NEW Q, NEW c, NEW l, NEW d, MergeOf(M, C, Q, c, l, d),
           Match(C, Q), Sorted(C), Sorted(Q)
    PROVE  Sorted(M)
<1>1. /\ Q.lo \in Nat /\ c \in Nat /\ l \in Nat /\ Q.lo <= c
      /\ DOMAIN C.rows = 1..c /\ DOMAIN Q.rows = (Q.lo + 1)..l
      /\ DOMAIN M.rows = 1..l /\ M.at = 0 /\ Q.lo <= l
      /\ Q.lo # 0 => Q.at = C.rows[Q.lo].term
  BY DEF MergeOf, Seg
<1>2. \A i \in DOMAIN M.rows : M.rows[i].term \in Nat
  BY DEF MergeOf, Seg
<1>3. /\ \A j \in (Q.lo + 1)..l : M.rows[j] = Q.rows[j]
      /\ \A j \in 1..Q.lo : M.rows[j] = C.rows[j]
  BY MergeParts
<1>4. ASSUME NEW i \in 1..l, NEW j \in 1..l, i <= j
      PROVE  M.rows[i].term <= M.rows[j].term
  <2>1. CASE j <= Q.lo
    <3>1. i \in 1..Q.lo /\ j \in 1..Q.lo /\ i \in 1..c /\ j \in 1..c
      BY <1>1, <1>4, <2>1
    <3> QED
      BY <1>1, <1>3, <1>4, <3>1 DEF Sorted
  <2>2. CASE i > Q.lo
    <3>1. i \in (Q.lo + 1)..l /\ j \in (Q.lo + 1)..l
      BY <1>1, <1>4, <2>2
    <3> QED
      BY <1>1, <1>3, <1>4, <3>1 DEF Sorted
  <2>3. CASE i <= Q.lo /\ j > Q.lo
    <3>1. /\ i \in 1..Q.lo /\ j \in (Q.lo + 1)..l /\ Q.lo # 0
          /\ i \in 1..c /\ Q.lo \in 1..c
      BY <1>1, <1>4, <2>3
    <3>2. C.rows[i].term <= Q.at /\ Q.at <= Q.rows[j].term
      BY <1>1, <2>3, <3>1 DEF Sorted
    <3>3. M.rows[i] = C.rows[i] /\ M.rows[j] = Q.rows[j]
      BY <1>3, <3>1
    <3>4. Q.at \in Nat
      BY DEF MergeOf, Seg
    <3>5. M.rows[i].term \in Nat /\ M.rows[j].term \in Nat
      BY <1>1, <1>2
    <3> QED
      BY <3>2, <3>3, <3>4, <3>5
  <2> QED
    BY <1>1, <2>1, <2>2, <2>3
<1> QED
  BY <1>1, <1>2, <1>4 DEF Sorted

\* A log with one more row, of a term that none of its rows passes, is sorted.
LEMMA AppendSorted ==
    ASSUME NEW M, NEW C, NEW c, NEW row, AppendOf(M, C, c, row), C.lo = 0,
           C.at = 0, Sorted(C), UpTo(C, row.term)
    PROVE  Sorted(M) /\ UpTo(M, row.term)
<1>1. /\ c \in Nat /\ DOMAIN C.rows = 1..c /\ DOMAIN M.rows = 1..(c + 1)
      /\ M.at = 0 /\ \A j \in 1..c : M.rows[j] = C.rows[j]
      /\ M.rows[c + 1] = row
  BY DEF AppendOf, Seg
<1>2. \A i \in DOMAIN M.rows : M.rows[i].term \in Nat
  BY DEF AppendOf, Seg
<1>3. ASSUME NEW i \in 1..(c + 1) PROVE M.rows[i].term <= row.term
  BY <1>1, <1>2, <1>3 DEF UpTo
<1>4. ASSUME NEW i \in 1..(c + 1), NEW j \in 1..(c + 1), i <= j
      PROVE  M.rows[i].term <= M.rows[j].term
  <2>1. CASE j = c + 1
    BY <1>1, <1>3, <2>1
  <2>2. CASE j # c + 1
    <3>1. i \in 1..c /\ j \in 1..c
      BY <1>1, <1>4, <2>2
    <3> QED
      BY <1>1, <1>4, <3>1 DEF Sorted
  <2> QED
    BY <2>1, <2>2
<1> QED
  BY <1>1, <1>2, <1>3, <1>4 DEF Sorted, UpTo

----------------------------------------------------------------------------
(* Steps, seen by one log and by one request                               *)

\* No request is cut short: a batch can hold a whole log.
FullBatch == AppendBatchSize >= MaxIndex

\* s, which is in no later term than request q, cuts its log where it differs
\* from the request, and has appended the rows of the request, or not yet.
Takes(s, q) ==
    LET N == LogOf(node'[s].store)
        C == LogOf(node[s].store)
    IN  /\ q.dst = s /\ q.term >= node[s].currentTerm
        /\ node'[s].currentTerm = q.term /\ node'[s].role = "follower"
        /\ \E d \in Nat : \E M :
             /\ MergeOf(M, C, RowsOf(q), LastIndex(node[s].store), LastSent(q), d)
             /\ N = M \/ (Seg(N, d - 1) /\ N.lo = 0 /\ Part(N, C))

\* s, which leads, appends a row of its term.
Grows(s) ==
    /\ Leads(s, node[s].currentTerm) /\ Leads(s, node[s].currentTerm)'
    /\ node'[s].currentTerm = node[s].currentTerm
    /\ \E row : /\ row.term = node[s].currentTerm
                /\ AppendOf(LogOf(node'[s].store), LogOf(node[s].store),
                            LastIndex(node[s].store), row)

RowsMove(s) == \/ LogOf(node'[s].store) = LogOf(node[s].store)
               \/ \E q \in appendReqs : Takes(s, q)
               \/ Grows(s)

\* Leader s sends q: a part of its log, up to the end if batches are full.
Sent(q, s) ==
    /\ q.src = s /\ Leads(s, q.term)
    /\ Part(RowsOf(q), LogOf(node[s].store))
    /\ q.leaderCommit = node[s].commitIndex
    /\ FullBatch => LastSent(q) = LastIndex(node[s].store)

CallMove(q) == \/ \E o \in appendReqs : SameRequest(q, o)
               \/ \E s \in Server : Sent(q, s)

LogsMove == /\ \A s \in Server : RowsMove(s)
            /\ \A q \in appendReqs' : CallMove(q)

\* That is all that happens to logs and requests.
LEMMA StepMoves ==
    ASSUME TypeOK, LogInv, MatchInv, RowStep
    PROVE  LogsMove
<1>1. ASSUME NEW t \in Server, NEW m, node' = [node EXCEPT ![t] = m],
             RowsMove(t)
      PROVE  \A s \in Server : RowsMove(s)
  <2>1. \A s \in Server : node'[s] = IF s = t THEN m ELSE node[s]
    BY <1>1 DEF TypeOK
  <2> QED
    BY <1>1, <2>1 DEF RowsMove
<1>2. ASSUME CallsKept PROVE \A q \in appendReqs' : CallMove(q)
  BY <1>2 DEF CallsKept, CallMove
<1>3. Uncompacted
  BY DEF MatchInv
<1>4. ASSUME NEW s \in Server, NEW m, LogStays(s, m) PROVE LogsMove
  <2>1. node'[s] = m
    BY <1>4 DEF LogStays, Turns, TypeOK
  <2>2. RowsMove(s)
    BY <1>4, <2>1 DEF LogStays, SameLog, RowsMove, LogOf
  <2> QED
    BY <1>1, <1>2, <1>4, <2>2 DEF LogStays, Turns, LogsMove
<1>5. ASSUME NEW s \in Server, NEW p, NEW w, Sends(s, p, w) PROVE LogsMove
  <2> DEFINE r == Request(s, p, w)
  <2>1. /\ node' = node /\ node[s].role = "leader"
        /\ appendReqs' = appendReqs \cup {r}
    BY <1>5 DEF Sends, SendAppend, Request
  <2>2. /\ r.src = s /\ r.term = node[s].currentTerm
        /\ r.leaderCommit = node[s].commitIndex
    BY DEF Request
  <2>3. /\ Part(RowsOf(r), LogOf(node[s].store))
        /\ AppendBatchSize >= LastIndex(node[s].store) =>
                LastSent(r) = LastIndex(node[s].store)
    BY <1>3, <1>5, SentPart
  <2>4. FullBatch => AppendBatchSize >= LastIndex(node[s].store)
    <3>1. LastIndex(node[s].store) \in Index
      BY LastIndexType DEF TypeOK, IsNode
    <3>2. AppendBatchSize \in Nat /\ MaxIndex \in Nat
      BY RaftConstants
    <3> QED
      BY <3>1, <3>2 DEF FullBatch, Index
  <2> HIDE DEF r
  <2>5. Sent(r, s)
    BY <2>1, <2>2, <2>3, <2>4 DEF Sent, Leads
  <2>6. \A q \in appendReqs' : CallMove(q)
    BY <2>1, <2>5 DEF CallMove, SameRequest
  <2> QED
    BY <2>1, <2>6 DEF RowsMove, LogsMove
<1>6. ASSUME NEW q \in appendReqs, NEW m, NEW st, Merges(q, m, st) PROVE LogsMove
  <2> DEFINE s == q.dst
             N == LogOf(m.store)
             C == LogOf(node[s].store)
  <2>1. s \in Server /\ node'[s] = m
    BY <1>6 DEF Merges, Turns, TypeOK, IsAppendReq
  <2>2. \/ N = C
        \/ /\ Part(N, C)
           /\ \E d \in Nat : \E M :
                /\ Seg(N, d - 1)
                /\ MergeOf(M, C, RowsOf(q), LastIndex(node[s].store), LastSent(q), d)
        \/ \E d \in Nat :
              MergeOf(N, C, RowsOf(q), LastIndex(node[s].store), LastSent(q), d)
    BY <1>3, <1>6, MergesLog
  <2>3. N.lo = 0 /\ N = LogOf(node'[s].store)
    BY <2>1 DEF LogOf
  <2>4. /\ q.term >= node[s].currentTerm /\ node'[s].currentTerm = q.term
        /\ node'[s].role = "follower"
    BY <1>6, <2>1 DEF Merges
  <2> HIDE DEF N, C
  <2>7. RowsMove(s)
    <3>1. CASE N = C
      BY <2>3, <3>1 DEF RowsMove, C
    <3>2. CASE N # C
      <4>1. \E d \in Nat : \E M :
               /\ MergeOf(M, C, RowsOf(q), LastIndex(node[s].store), LastSent(q), d)
               /\ N = M \/ (Seg(N, d - 1) /\ N.lo = 0 /\ Part(N, C))
        BY <2>2, <2>3, <3>2
      <4>2. Takes(s, q)
        BY <2>3, <2>4, <4>1 DEF Takes, C
      <4> QED
        BY <4>2 DEF RowsMove
    <3> QED
      BY <3>1, <3>2
  <2> QED
    BY <1>1, <1>2, <1>6, <2>1, <2>7 DEF Merges, Turns, LogsMove
<1>7. ASSUME NEW s \in Server, NEW m, NEW row, Appends(s, m, row) PROVE LogsMove
  <2>1. node'[s] = m
    BY <1>7 DEF Appends, Turns, TypeOK
  <2>2. AppendOf(LogOf(m.store), LogOf(node[s].store), LastIndex(node[s].store), row)
    BY <1>3, <1>7, AppendsLog
  <2>3. Grows(s)
    BY <1>7, <2>1, <2>2 DEF Appends, Grows, Leads
  <2> QED
    BY <1>1, <1>2, <1>7, <2>3 DEF Appends, Turns, RowsMove, LogsMove
<1> QED
  BY <1>4, <1>5, <1>6, <1>7 DEF RowStep

\* The log before and after a request was taken, and the request, all match
\* each other and are segments.
LEMMA TakesFacts ==
    ASSUME TypeOK, LogInv, MatchInv, NEW q \in appendReqs, q.dst \in Server
    PROVE  /\ LogOf(node[q.dst].store) \in Segments /\ RowsOf(q) \in Segments
           /\ Match(LogOf(node[q.dst].store), RowsOf(q))
           /\ Seg(LogOf(node[q.dst].store), LastIndex(node[q.dst].store))
           /\ Seg(RowsOf(q), LastSent(q))
<1>1. LogOf(node[q.dst].store) \in Segments /\ RowsOf(q) \in Segments
  BY DEF Segments
<1>2. IsAppendReq(q) /\ InOrder(q)
  BY DEF TypeOK, LogInv, AppendReqInv, InOrder
<1> QED
  BY <1>1, <1>2, LogFacts, RowsSeg DEF MatchInv

----------------------------------------------------------------------------
(* OrderInv is inductive                                                   *)

\* The log of s after a step.
LEMMA LogOrder ==
    ASSUME TypeOK, LogInv, MatchInv, OrderInv, TypeOK', NEW s \in Server, RowsMove(s),
           node'[s].currentTerm >= node[s].currentTerm
    PROVE  /\ Sorted(LogOf(node'[s].store))
           /\ UpTo(LogOf(node'[s].store), node'[s].currentTerm)
<1> DEFINE C == LogOf(node[s].store)
           N == LogOf(node'[s].store)
           T == node[s].currentTerm
           U == node'[s].currentTerm
           c == LastIndex(node[s].store)
<1>1. T \in Nat /\ U \in Nat /\ U >= T
  BY DEF TypeOK, IsNode
<1>2. C \in Segments /\ Sorted(C) /\ UpTo(C, T) /\ Seg(C, c) /\ C.lo = 0 /\ C.at = 0
  BY LogFacts DEF OrderInv, LogOf
<1>3. \A i \in DOMAIN C.rows : C.rows[i].term \in Nat
  BY <1>2 DEF Seg
<1> HIDE DEF C, N, T, U, c
<1>4. CASE N = C
  BY <1>1, <1>2, <1>3, <1>4 DEF UpTo, N, U
<1>5. ASSUME NEW q \in appendReqs, Takes(s, q)
      PROVE  Sorted(N) /\ UpTo(N, U)
  <2> DEFINE Q == RowsOf(q)
             l == LastSent(q)
  <2>1. q.dst = s /\ q.dst \in Server
    BY <1>5 DEF Takes
  <2>2. Q \in Segments /\ Match(C, Q) /\ Seg(Q, l)
    BY <2>1, TakesFacts DEF C
  <2>3. Sorted(Q) /\ UpTo(Q, U)
    <3>1. q.term = U
      BY <1>5 DEF Takes, U
    <3> QED
      BY <2>2, <3>1 DEF OrderInv
  <2>4. \E d \in Nat : \E M : /\ MergeOf(M, C, Q, c, l, d)
                              /\ N = M \/ (Seg(N, d - 1) /\ N.lo = 0 /\ Part(N, C))
    BY <1>5 DEF Takes, C, N, c
  <2> HIDE DEF Q, l
  <2>5. ASSUME NEW d \in Nat, Seg(N, d - 1), Part(N, C)
        PROVE  Sorted(N) /\ UpTo(N, U)
    <3>1. Sorted(N)
      BY <1>2, <2>5, PartSorted
    <3>2. UpTo(N, U)
      BY <1>1, <1>2, <1>3, <2>5 DEF UpTo, Part
    <3> QED
      BY <3>1, <3>2
  <2>6. ASSUME NEW d \in Nat, MergeOf(N, C, Q, c, l, d)
        PROVE  Sorted(N) /\ UpTo(N, U)
    <3>1. Sorted(N)
      BY <1>2, <2>2, <2>3, <2>6, MergeSorted
    <3>2. ASSUME NEW i \in DOMAIN N.rows PROVE N.rows[i].term <= U
      <4>1. i \in 1..l /\ l \in Nat /\ d \in Nat /\ c \in Nat /\ d <= c + 1
            /\ d > Q.lo /\ Q.lo \in Nat
            /\ DOMAIN C.rows = 1..c /\ DOMAIN Q.rows = (Q.lo + 1)..l
            /\ N.rows[i] = IF i < d THEN C.rows[i] ELSE Q.rows[i]
        BY <2>6 DEF MergeOf, Seg
      <4>2. CASE i < d
        <5>1. i \in DOMAIN C.rows /\ N.rows[i] = C.rows[i]
          BY <4>1, <4>2
        <5> QED
          BY <1>1, <1>2, <1>3, <5>1 DEF UpTo
      <4>3. CASE ~(i < d)
        <5>1. i \in DOMAIN Q.rows /\ N.rows[i] = Q.rows[i]
          BY <4>1, <4>3
        <5> QED
          BY <2>3, <5>1 DEF UpTo
      <4> QED
        BY <4>2, <4>3
    <3> QED
      BY <3>1, <3>2 DEF UpTo
  <2> QED
    BY <2>4, <2>5, <2>6
<1>6. CASE Grows(s)
  <2>1. PICK row : row.term = T /\ AppendOf(N, C, c, row)
    BY <1>6 DEF Grows, N, C, T, c
  <2>2. T = U
    BY <1>6 DEF Grows, T, U
  <2> QED
    BY <1>2, <2>1, <2>2, AppendSorted DEF N, U
<1> QED
  BY <1>4, <1>5, <1>6 DEF RowsMove, N, C, U

\* The rows of a request after a step.
LEMMA CallOrder ==
    ASSUME TypeOK, LogInv, MatchInv, OrderInv, TypeOK', LogInv',
           NEW q \in appendReqs', CallMove(q)
    PROVE  Sorted(RowsOf(q)) /\ UpTo(RowsOf(q), q.term)
<1>1. ASSUME NEW o \in appendReqs, SameRequest(q, o)
      PROVE  Sorted(RowsOf(q)) /\ UpTo(RowsOf(q), q.term)
  <2>1. RowsOf(q) = RowsOf(o) /\ q.term = o.term
    BY <1>1 DEF SameRequest, RowsOf
  <2>2. RowsOf(o) \in Segments
    BY DEF Segments
  <2> QED
    BY <2>1, <2>2 DEF OrderInv
<1>2. ASSUME NEW s \in Server, Sent(q, s)
      PROVE  Sorted(RowsOf(q)) /\ UpTo(RowsOf(q), q.term)
  <2> DEFINE C == LogOf(node[s].store)
             P == RowsOf(q)
  <2>1. /\ C \in Segments /\ Sorted(C) /\ UpTo(C, node[s].currentTerm)
        /\ Seg(C, LastIndex(node[s].store))
    BY LogFacts DEF OrderInv
  <2>2. Part(P, C) /\ q.term = node[s].currentTerm
    BY <1>2 DEF Sent, Leads
  <2>3. Seg(P, LastSent(q))
    BY RowsSeg DEF TypeOK, LogInv, AppendReqInv, InOrder
  <2> HIDE DEF C, P
  <2>4. Sorted(P) /\ UpTo(P, q.term)
    BY <2>1, <2>2, <2>3, PartSorted DEF UpTo, Part
  <2> QED
    BY <2>4 DEF P
<1> QED
  BY <1>1, <1>2 DEF CallMove

\* A candidate has the log it had.
LEMMA CandidateLog ==
    ASSUME MatchInv, MatchInv', NEW c \in Server, RowsMove(c),
           node'[c].role = "candidate"
    PROVE  SameLog(node[c].store, node'[c].store)
<1>1. LogOf(node'[c].store) = LogOf(node[c].store)
  BY DEF RowsMove, Takes, Grows, Leads
<1>2. node'[c].store.log_entries = node[c].store.log_entries
  BY <1>1 DEF LogOf
<1> QED
  BY <1>2 DEF SameLog, MatchInv, Uncompacted

\* What requests for votes say stays true.
LEMMA AskOrder ==
    ASSUME TypeOK, TypeOK', MatchInv, MatchInv', OrderInv, LogsMove, VoteStep,
           \A x \in Server : node'[x].currentTerm >= node[x].currentTerm
    PROVE  /\ (\A q \in voteReqs : AskInv(q))'
           /\ (\A r \in voteReps : r.term <= node[r.src].currentTerm)'
<1>1. \A x \in Server : node[x].currentTerm \in Nat /\ node'[x].currentTerm \in Nat
  BY DEF TypeOK, IsNode
<1>2. ASSUME NEW q \in voteReqs' PROVE AskInv(q)'
  <2>1. q.src \in Server /\ q.term \in Nat
    BY DEF TypeOK, VoteReqs
  <2>2. CASE Asks(q)
    BY <1>1, <2>1, <2>2 DEF Asks, AskInv
  <2>3. ASSUME NEW o \in voteReqs, SameAsk(q, o) PROVE AskInv(q)'
    <3> DEFINE s == q.src
    <3>1. /\ o.src = s /\ o.term = q.term /\ o.lastLogIndex = q.lastLogIndex
          /\ o.lastLogTerm = q.lastLogTerm
      BY <2>3 DEF SameAsk
    <3>2. /\ q.term <= node[s].currentTerm
          /\ (node[s].role = "candidate" /\ node[s].currentTerm = q.term) =>
                /\ q.lastLogIndex = LastIndex(node[s].store)
                /\ q.lastLogTerm = LastTerm(node[s].store)
      BY <3>1 DEF OrderInv, AskInv
    <3>3. q.term <= node'[s].currentTerm
      BY <1>1, <2>1, <3>2
    <3>4. ASSUME node'[s].role = "candidate", node'[s].currentTerm = q.term
          PROVE  /\ q.lastLogIndex = LastIndex(node'[s].store)
                 /\ q.lastLogTerm = LastTerm(node'[s].store)
      <4>1. node[s].role = "candidate" /\ node[s].currentTerm = q.term
        BY <1>1, <2>1, <3>2, <3>4 DEF VoteStep, VoteMove
      <4>2. SameLog(node[s].store, node'[s].store)
        BY <2>1, <3>4, CandidateLog DEF LogsMove
      <4> QED
        BY <3>2, <4>1, <4>2, SameLogFacts
    <3> QED
      BY <3>3, <3>4 DEF AskInv
  <2> QED
    BY <2>2, <2>3 DEF VoteStep
<1>3. ASSUME NEW r \in voteReps' PROVE r.term <= node'[r.src].currentTerm
  <2>1. r.src \in Server /\ r.term \in Nat
    BY DEF TypeOK, VoteReps
  <2>2. r.term <= node[r.src].currentTerm
    BY DEF VoteStep, VotesOn, OrderInv, AskInv
  <2> QED
    BY <1>1, <2>1, <2>2
<1> QED
  BY <1>2, <1>3

\* OrderInv is inductive, relative to what was shown before.
LEMMA StepOrder ==
    ASSUME TypeOK, LogInv, MatchInv, OrderInv, TypeOK', LogInv', MatchInv',
           LogsMove, VoteStep,
           \A x \in Server : node'[x].currentTerm >= node[x].currentTerm
    PROVE  OrderInv'
<1>1. ASSUME NEW s \in Server
      PROVE  /\ Sorted(LogOf(node'[s].store))
             /\ UpTo(LogOf(node'[s].store), node'[s].currentTerm)
  BY LogOrder DEF LogsMove
<1>2. ASSUME NEW q \in appendReqs'
      PROVE  Sorted(RowsOf(q)) /\ UpTo(RowsOf(q), q.term)
  BY CallOrder DEF LogsMove
<1>3. ASSUME NEW A \in Segments' PROVE Sorted(A)
  <2>1. \/ \E s \in Server : A = LogOf(node'[s].store)
        \/ \E q \in appendReqs' : A = RowsOf(q)
    BY DEF Segments, LogOf, RowsOf
  <2> QED
    BY <1>1, <1>2, <2>1
<1> QED
  BY <1>1, <1>2, <1>3, AskOrder DEF OrderInv, Sorted, UpTo, LogOf, RowsOf

----------------------------------------------------------------------------
(* Rows that stay                                                          *)

\* L holds the rows of a log up to index k.
IsPoint(L, k) == /\ k \in Nat /\ k > 0 /\ DOMAIN L = 1..k
                 /\ \A j \in 1..k : L[j].term \in Nat

Has(log, k, T) == k \in DOMAIN log /\ log[k].term = T

\* A has a row that, in a log, comes with or after row k of term T ...
Later(A, k, T) == \E i \in DOMAIN A.rows : \/ A.rows[i].term > T
                                           \/ A.rows[i].term = T /\ i >= k

\* ... and has row k, or follows it.
Passes(A, k, T) == /\ A.lo < k => Has(A.rows, k, T)
                   /\ A.lo = k => A.at = T
                   /\ A.lo > k => A.at >= T

\* The rows of a request contradict no row of L.
Fits(A, L, k) == /\ \A j \in DOMAIN A.rows : j <= k => A.rows[j] = L[j]
                 /\ A.lo \in 1..k => A.at = L[A.lo].term
                 /\ A.lo > k => A.at >= L[k].term

\* Where request Q is cut off from log C, C has other rows than L: what C has
\* of L stays.
LEMMA CutKeeps ==
    ASSUME NEW M, NEW C, NEW Q, NEW c, NEW l, NEW d, MergeOf(M, C, Q, c, l, d),
           NEW N, N = M \/ (Seg(N, d - 1) /\ N.lo = 0 /\ Part(N, C)),
           NEW L, NEW k, IsPoint(L, k), Fits(Q, L, k),
           NEW i \in Nat, i <= k, Agree(L, C.rows, i)
    PROVE  Agree(L, N.rows, i)
<1>1. /\ Q.lo \in Nat /\ c \in Nat /\ l \in Nat /\ d \in Nat
      /\ DOMAIN C.rows = 1..c /\ DOMAIN Q.rows = (Q.lo + 1)..l
      /\ DOMAIN M.rows = 1..l /\ d > Q.lo /\ d <= l /\ d <= c + 1
      /\ d <= c => C.rows[d].term # Q.rows[d].term
  BY DEF MergeOf, Seg
<1>2. k \in Nat /\ DOMAIN L = 1..k
  BY DEF IsPoint
<1>3. d > i
  <2> SUFFICES ASSUME d <= i PROVE FALSE
    BY <1>1
  <2>1. d \in DOMAIN L /\ d \in DOMAIN Q.rows /\ d <= k
    BY <1>1, <1>2
  <2>2. d \in DOMAIN C.rows /\ C.rows[d] = L[d] /\ Q.rows[d] = L[d]
    BY <2>1 DEF Agree, Fits
  <2> QED
    BY <1>1, <2>2
<1>4. \A j \in 1..(d - 1) : j \in DOMAIN N.rows /\ N.rows[j] = C.rows[j]
  <2>1. CASE N = M
    <3>1. \A j \in 1..(d - 1) : j \in 1..l /\ j < d
      BY <1>1
    <3>2. \A j \in 1..l : M.rows[j] = IF j < d THEN C.rows[j] ELSE Q.rows[j]
      BY DEF MergeOf
    <3> QED
      BY <1>1, <2>1, <3>1, <3>2
  <2>2. CASE Seg(N, d - 1) /\ N.lo = 0 /\ Part(N, C)
    BY <1>1, <2>2 DEF Seg, Part
  <2> QED
    BY <2>1, <2>2
<1>5. ASSUME NEW j \in DOMAIN L, j <= i PROVE j \in 1..(d - 1)
  BY <1>1, <1>2, <1>3, <1>5
<1> QED
  BY <1>4, <1>5 DEF Agree

\* A part of a log that has row k passes it, if it has a later row.
LEMMA PartPasses ==
    ASSUME NEW A, NEW a, NEW P, NEW p, Seg(A, a), A.lo = 0, Sorted(A),
           Seg(P, p), Part(P, A), NEW k \in Nat, k > 0, NEW T \in Nat,
           Has(A.rows, k, T), Later(P, k, T)
    PROVE  Passes(P, k, T)
<1>1. /\ P.lo \in Nat /\ a \in Nat /\ p \in Nat
      /\ DOMAIN P.rows = (P.lo + 1)..p /\ DOMAIN A.rows = 1..a
      /\ \A j \in DOMAIN A.rows : A.rows[j].term \in Nat
      /\ k \in DOMAIN A.rows /\ A.rows[k].term = T
  BY DEF Seg, Has
<1>2. PICK i \in DOMAIN P.rows : \/ P.rows[i].term > T
                                 \/ P.rows[i].term = T /\ i >= k
  BY DEF Later
<1>3. i \in DOMAIN A.rows /\ P.rows[i] = A.rows[i] /\ i \in Nat
  BY <1>1 DEF Part
<1>4. i >= k
  <2> SUFFICES ASSUME i < k PROVE FALSE
    BY <1>1, <1>3
  <2>1. A.rows[i].term <= T
    BY <1>1, <1>3 DEF Sorted
  <2> QED
    BY <1>1, <1>2, <1>3, <2>1
<1>5. ASSUME P.lo < k PROVE Has(P.rows, k, T)
  <2>1. k \in DOMAIN P.rows
    BY <1>1, <1>4, <1>5
  <2> QED
    BY <1>1, <2>1 DEF Has, Part
<1>6. ASSUME P.lo >= k PROVE P.lo \in DOMAIN A.rows /\ P.at = A.rows[P.lo].term
  BY <1>1, <1>6 DEF Part
<1>7. ASSUME P.lo > k PROVE P.at >= T
  BY <1>1, <1>6, <1>7 DEF Sorted
<1> QED
  BY <1>1, <1>5, <1>6, <1>7 DEF Passes

\* If the log and the request pass row k or have no later row, then this is
\* true of the merged log.
LEMMA MergePasses ==
    ASSUME NEW M, NEW C, NEW Q, NEW c, NEW l, NEW d, MergeOf(M, C, Q, c, l, d),
           Match(C, Q), Sorted(C), NEW k \in Nat, k > 0, NEW T \in Nat,
           Later(C, k, T) => Passes(C, k, T),
           Later(Q, k, T) => Passes(Q, k, T), Later(M, k, T)
    PROVE  Passes(M, k, T)
<1>1. /\ Q.lo \in Nat /\ c \in Nat /\ l \in Nat /\ d \in Nat /\ Q.lo <= c
      /\ DOMAIN C.rows = 1..c /\ DOMAIN Q.rows = (Q.lo + 1)..l
      /\ DOMAIN M.rows = 1..l /\ d > Q.lo /\ d <= l /\ d <= c + 1
      /\ C.lo = 0 /\ M.lo = 0
      /\ Q.lo # 0 => Q.at = C.rows[Q.lo].term
      /\ \A j \in DOMAIN C.rows : C.rows[j].term \in Nat
  BY DEF MergeOf, Seg
<1>2. \A j \in 1..l : M.rows[j] = IF j < d THEN C.rows[j] ELSE Q.rows[j]
  BY DEF MergeOf
<1>3. /\ \A j \in (Q.lo + 1)..l : M.rows[j] = Q.rows[j]
      /\ \A j \in 1..Q.lo : M.rows[j] = C.rows[j]
  BY MergeParts
<1>4. SUFFICES k \in 1..l /\ M.rows[k].term = T
  BY <1>1 DEF Passes, Has
<1>5. ASSUME Later(C, k, T) PROVE k \in 1..c /\ C.rows[k].term = T
  BY <1>1, <1>5 DEF Passes, Has
<1>6. PICK i \in 1..l : \/ M.rows[i].term > T
                        \/ M.rows[i].term = T /\ i >= k
  BY <1>1 DEF Later
<1>7. CASE i < d
  <2>1. i \in 1..c /\ M.rows[i] = C.rows[i]
    BY <1>1, <1>2, <1>7
  <2>2. Later(C, k, T)
    BY <1>1, <1>6, <2>1 DEF Later
  <2>3. k \in 1..c /\ C.rows[k].term = T
    BY <1>5, <2>2
  <2>4. i >= k
    <3> SUFFICES ASSUME i < k PROVE FALSE
      BY <1>1
    <3>1. C.rows[i].term <= T
      BY <1>1, <2>1, <2>3 DEF Sorted
    <3> QED
      BY <1>1, <1>6, <2>1, <3>1
  <2>5. k \in 1..l /\ k < d
    BY <1>1, <1>7, <2>4
  <2> QED
    BY <1>2, <2>3, <2>5
<1>8. CASE ~(i < d)
  <2>1. i \in (Q.lo + 1)..l /\ M.rows[i] = Q.rows[i]
    BY <1>1, <1>2, <1>8
  <2>2. Passes(Q, k, T)
    BY <1>1, <1>6, <2>1 DEF Later
  <2>3. CASE Q.lo < k
    BY <1>1, <1>3, <2>2, <2>3 DEF Passes, Has
  <2>4. CASE Q.lo = k
    <3>1. k \in 1..Q.lo /\ k \in 1..l
      BY <1>1, <2>4
    <3> QED
      BY <1>1, <1>3, <2>2, <2>4, <3>1 DEF Passes
  <2>5. CASE Q.lo > k
    <3>1. Q.lo \in 1..c /\ C.rows[Q.lo].term >= T
      BY <1>1, <2>2, <2>5 DEF Passes
    <3>2. Later(C, k, T)
      BY <1>1, <2>5, <3>1 DEF Later
    <3>3. C.rows[k].term = T /\ k \in 1..Q.lo /\ k \in 1..l
      BY <1>1, <1>5, <2>5, <3>2
    <3> QED
      BY <1>3, <3>3
  <2> QED
    BY <1>1, <2>3, <2>4, <2>5
<1> QED
  BY <1>7, <1>8

\* And so it is of a log with one more row.
LEMMA AppendPasses ==
    ASSUME NEW N, NEW C, NEW c, NEW row, AppendOf(N, C, c, row), C.lo = 0,
           NEW k \in Nat, k > 0, NEW T \in Nat,
           Later(C, k, T) => Passes(C, k, T),
           row.term >= T => Has(C.rows, k, T), Later(N, k, T)
    PROVE  Passes(N, k, T)
<1>1. /\ c \in Nat /\ DOMAIN C.rows = 1..c /\ DOMAIN N.rows = 1..(c + 1)
      /\ N.lo = 0 /\ \A j \in 1..c : N.rows[j] = C.rows[j]
      /\ N.rows[c + 1] = row /\ row.term \in Nat
  BY DEF AppendOf, Seg
<1>2. Has(C.rows, k, T)
  <2>1. PICK i \in 1..(c + 1) : \/ N.rows[i].term > T
                                \/ N.rows[i].term = T /\ i >= k
    BY <1>1 DEF Later
  <2>2. CASE i = c + 1
    BY <1>1, <2>1, <2>2
  <2>3. CASE i # c + 1
    <3>1. i \in 1..c
      BY <1>1, <2>3
    <3>2. Later(C, k, T)
      BY <1>1, <2>1, <3>1 DEF Later
    <3> QED
      BY <3>2 DEF Passes
  <2> QED
    BY <2>2, <2>3
<1> QED
  BY <1>1, <1>2 DEF Passes, Has

----------------------------------------------------------------------------
(* Safe points                                                             *)

\* All that is known so far.
CoreInv == MatchingInv /\ AckInv /\ OrderInv

\* The nodes of Q hold the rows of L,
Held(Q, L, k) ==
    \A p \in Q : /\ Agree(L, node[p].store.log_entries, k)
                 /\ node[p].currentTerm >= L[k].term

\* ... who stands for a later term with a vote of theirs has row k of term T,
Voted(Q, k, T) ==
    \A p \in Q : \A c \in Server :
        (/\ node[c].role = "candidate" /\ node[c].currentTerm > T
         /\ Cast(p, node[c].currentTerm, c)) =>
            Has(node[c].store.log_entries, k, T)

\* ... who leads that term or a later one has it,
Led(k, T) ==
    \A s \in Server :
        (node[s].role = "leader" /\ node[s].currentTerm >= T) =>
            Has(node[s].store.log_entries, k, T)

\* ... and so has whatever has a later row,
Passed(k, T) == \A A \in Segments : Later(A, k, T) => Passes(A, k, T)

\* ... and no request of that term or a later one contradicts L.
Fitting(L, k) ==
    \A q \in appendReqs : q.term >= L[k].term => Fits(RowsOf(q), L, k)

\* The rows of L, which a majority of Q holds, cannot be lost any more; if Q
\* is smaller, nobody who could make it lose them has been elected yet.
Safe(Q, L, k) == /\ Held(Q, L, k)
                 /\ Voted(Q, k, L[k].term)
                 /\ Led(k, L[k].term)
                 /\ Passed(k, L[k].term)
                 /\ Fitting(L, k)

\* A majority that has left term T without asking anybody of Q.
Blocked(Q, T) == \E V \in SUBSET Server :
                    /\ Cardinality(V) >= Majority /\ V \cap Q = {}
                    /\ \A v \in V : node[v].currentTerm > T

\* A log that has one row of a log p with L has all before it.
LEMMA HasAgree ==
    ASSUME CoreInv, NEW L, NEW k, IsPoint(L, k), NEW p \in Server,
           Agree(L, node[p].store.log_entries, k),
           NEW s \in Server, NEW i \in 1..k,
           Has(node[s].store.log_entries, i, L[i].term)
    PROVE  Agree(L, node[s].store.log_entries, i)
<1> DEFINE A == LogOf(node[p].store)
           B == LogOf(node[s].store)
           a == LastIndex(node[p].store)
           b == LastIndex(node[s].store)
<1>1. /\ A \in Segments /\ B \in Segments /\ Seg(A, a) /\ Seg(B, b)
      /\ A.lo = 0 /\ B.lo = 0
      /\ A.rows = node[p].store.log_entries /\ B.rows = node[s].store.log_entries
  BY LogFacts DEF CoreInv, MatchingInv
<1>2. Match(A, B)
  BY <1>1 DEF CoreInv, MatchingInv, MatchInv
<1>3. k \in Nat /\ DOMAIN L = 1..k /\ i \in DOMAIN L
  BY DEF IsPoint
<1> HIDE DEF A, B, a, b
<1>4. /\ DOMAIN A.rows = 1..a /\ DOMAIN B.rows = 1..b /\ a \in Nat /\ b \in Nat
  BY <1>1 DEF Seg
<1>5. i \in DOMAIN A.rows /\ A.rows[i] = L[i]
  BY <1>1, <1>3 DEF Agree
<1>6. i \in DOMAIN B.rows /\ B.rows[i].term = A.rows[i].term
  BY <1>1, <1>5 DEF Has
<1>7. \A j \in Common(A, B) : j <= i => A.rows[j] = B.rows[j]
  BY <1>2, <1>5, <1>6 DEF Match, SameUpTo, Common
<1>8. ASSUME NEW j \in DOMAIN L, j <= i
      PROVE  j \in DOMAIN B.rows /\ B.rows[j] = L[j]
  <2>1. j \in DOMAIN A.rows /\ A.rows[j] = L[j] /\ j \in DOMAIN B.rows
    <3>1. j <= k
      BY <1>3, <1>8
    <3>2. j \in DOMAIN A.rows /\ A.rows[j] = L[j]
      BY <1>1, <3>1 DEF Agree
    <3>3. j \in 1..b
      BY <1>3, <1>4, <1>6, <1>8
    <3> QED
      BY <1>4, <3>2, <3>3
  <2> QED
    BY <1>7, <1>8, <2>1 DEF Common
<1> QED
  BY <1>1, <1>8 DEF Agree

\* What a node in that term or a later one has of L it keeps.
LEMMA PointKept ==
    ASSUME CoreInv, LogsMove, NEW L, NEW k, IsPoint(L, k),
           Fitting(L, k), NEW s \in Server, node[s].currentTerm >= L[k].term,
           NEW i \in Nat, i <= k, Agree(L, node[s].store.log_entries, i)
    PROVE  Agree(L, node'[s].store.log_entries, i)
<1> DEFINE C == LogOf(node[s].store)
           N == LogOf(node'[s].store)
           c == LastIndex(node[s].store)
           T == L[k].term
<1>1. /\ Seg(C, c) /\ C.lo = 0 /\ C.rows = node[s].store.log_entries
      /\ N.rows = node'[s].store.log_entries
  BY LogFacts DEF CoreInv, MatchingInv, LogOf
<1>2. T \in Nat /\ node[s].currentTerm \in Nat
  BY DEF IsPoint, CoreInv, MatchingInv, TypeOK, IsNode
<1>3. RowsMove(s)
  BY DEF LogsMove
<1>4. CASE N = C
  BY <1>1, <1>4
<1>5. ASSUME NEW q \in appendReqs, Takes(s, q)
      PROVE  Agree(L, N.rows, i)
  <2>1. q.term >= T
    <3>1. q.term \in Nat /\ q.term >= node[s].currentTerm
      BY <1>5 DEF Takes, CoreInv, MatchingInv, TypeOK, IsAppendReq
    <3> HIDE DEF T
    <3> QED
      BY <1>2, <3>1 DEF T
  <2>2. Fits(RowsOf(q), L, k)
    BY <2>1 DEF Fitting
  <2>3. PICK d \in Nat : \E M :
              /\ MergeOf(M, C, RowsOf(q), c, LastSent(q), d)
              /\ N = M \/ (Seg(N, d - 1) /\ N.lo = 0 /\ Part(N, C))
    BY <1>5 DEF Takes
  <2>4. PICK M : /\ MergeOf(M, C, RowsOf(q), c, LastSent(q), d)
                 /\ N = M \/ (Seg(N, d - 1) /\ N.lo = 0 /\ Part(N, C))
    BY <2>3
  <2> HIDE DEF C, N, c, T
  <2> QED
    BY <1>1, <2>2, <2>4, CutKeeps
<1>6. CASE Grows(s)
  <2>1. PICK row : AppendOf(N, C, c, row)
    BY <1>6 DEF Grows
  <2> HIDE DEF C, N, c, T
  <2>2. /\ c \in Nat /\ DOMAIN C.rows = 1..c /\ DOMAIN N.rows = 1..(c + 1)
        /\ \A j \in 1..(c + 1) : N.rows[j] = IF j = c + 1 THEN row ELSE C.rows[j]
    BY <1>1, <2>1 DEF AppendOf, Seg
  <2>3. \A j \in DOMAIN C.rows : j \in DOMAIN N.rows /\ N.rows[j] = C.rows[j]
    BY <2>2
  <2> QED
    BY <1>1, <2>3 DEF Agree
<1> HIDE DEF C, N, c, T
<1> QED
  BY <1>1, <1>3, <1>4, <1>5, <1>6 DEF RowsMove, C, N

----------------------------------------------------------------------------
(* Safe points stay safe                                                   *)

\* A leader is the one it was, with the rows it had, or has just won.
LeadersMove ==
    \A s \in Server : node'[s].role = "leader" =>
        \/ /\ Leads(s, node'[s].currentTerm)
           /\ Agree(node[s].store.log_entries, node'[s].store.log_entries,
                    LastIndex(node[s].store))
        \/ /\ Wins(s)
           /\ [term |-> node'[s].currentTerm, leader |-> s] \in elected'
           /\ [term |-> node'[s].currentTerm, leader |-> s] \notin elected

\* That is all that happens to leaders.
LEMMA StepLeaders ==
    ASSUME TypeOK, ElectionInv, LogInv, MatchInv, RowStep, ElectionInv'
    PROVE  LeadersMove
<1> SUFFICES ASSUME NEW s \in Server, node'[s].role = "leader"
             PROVE  \/ /\ Leads(s, node'[s].currentTerm)
                       /\ Agree(node[s].store.log_entries,
                                node'[s].store.log_entries,
                                LastIndex(node[s].store))
                    \/ /\ Wins(s)
                       /\ [term |-> node'[s].currentTerm, leader |-> s] \in elected'
                       /\ [term |-> node'[s].currentTerm, leader |-> s] \notin elected
  BY DEF LeadersMove
<1>0. PICK T : T = node'[s].currentTerm
  OBVIOUS
<1> DEFINE e == [term |-> T, leader |-> s]
<1>1. e \in elected'
  <2>1. HintInv(node'[s], s, elected')
    BY DEF ElectionInv
  <2>2. s # Nobody
    BY RaftConstants
  <2> QED
    BY <1>0, <2>1, <2>2 DEF HintInv
<1>2. CASE e \in elected
  <2>1. Leads(s, T)'
    BY <1>0 DEF Leads
  <2>2. /\ Leads(s, T)
        /\ Agree(node[s].store.log_entries, node'[s].store.log_entries,
                 LastIndex(node[s].store))
    BY <1>2, <2>1, LeaderStays
  <2> QED
    BY <1>0, <2>2
<1>3. CASE e \notin elected
  <2>1. ~(node[s].role = "leader" /\ node[s].currentTerm = T)
    <3>1. HintInv(node[s], s, elected) /\ s # Nobody
      BY RaftConstants DEF ElectionInv
    <3> QED
      BY <1>3, <3>1 DEF HintInv
  <2>2. ElectionStep
    <3>1. ASSUME NEW t \in Server, NEW m, node' = [node EXCEPT ![t] = m], t # s
          PROVE  FALSE
      BY <1>0, <2>1, <3>1 DEF TypeOK
    <3>2. ASSUME NEW m, node' = [node EXCEPT ![s] = m] PROVE node'[s] = m
      BY <3>2 DEF TypeOK
    <3>3. \A q \in appendReqs : q.dst \in Server
      BY DEF TypeOK, IsAppendReq
    <3>4. ASSUME NEW t \in Server, NEW m, LogStays(t, m) PROVE ElectionStep
      <4>1. t = s /\ node'[s] = m
        BY <3>1, <3>2, <3>4 DEF LogStays, Turns
      <4> QED
        BY <1>0, <2>1, <3>4, <4>1 DEF LogStays
    <3>5. ASSUME NEW t \in Server, NEW p, NEW w, Sends(t, p, w) PROVE FALSE
      BY <1>0, <2>1, <3>5 DEF Sends, SendAppend
    <3>6. ASSUME NEW q \in appendReqs, NEW m, NEW st, Merges(q, m, st) PROVE FALSE
      <4>1. q.dst = s /\ node'[s] = m
        BY <3>1, <3>2, <3>3, <3>6 DEF Merges, Turns
      <4> QED
        BY <3>6, <4>1 DEF Merges
    <3>7. ASSUME NEW t \in Server, NEW m, NEW row, Appends(t, m, row) PROVE FALSE
      <4>1. t = s /\ node'[s] = m
        BY <3>1, <3>2, <3>7 DEF Appends, Turns
      <4> QED
        BY <1>0, <2>1, <3>7, <4>1 DEF Appends
    <3> QED
      BY <3>4, <3>5, <3>6, <3>7 DEF RowStep
  <2>3. Wins(s)
    BY <1>0, <1>3, <2>2, NewLeaderWins
  <2> QED
    BY <1>0, <1>1, <1>3, <2>3
<1> QED
  BY <1>2, <1>3

\* What a step does, in the terms of these proofs.
Moves ==
    /\ LogsMove /\ VoteStep /\ LeadersMove /\ elected \subseteq elected'
    /\ \A s \in Server : node'[s].currentTerm >= node[s].currentTerm

\* Q holds what it held.
LEMMA HeldKept ==
    ASSUME CoreInv, CoreInv', Moves, NEW Q \in SUBSET Server, NEW L, NEW k,
           IsPoint(L, k), Held(Q, L, k), Fitting(L, k)
    PROVE  Held(Q, L, k)'
<1>1. k \in Nat /\ L[k].term \in Nat
  BY DEF IsPoint
<1>2. ASSUME NEW p \in Q
      PROVE  /\ Agree(L, node'[p].store.log_entries, k)
             /\ node'[p].currentTerm >= L[k].term
  <2>1. p \in Server /\ Agree(L, node[p].store.log_entries, k)
        /\ node[p].currentTerm >= L[k].term
    BY DEF Held
  <2>2. node[p].currentTerm \in Nat /\ node'[p].currentTerm \in Nat
    BY <2>1 DEF CoreInv, MatchingInv, TypeOK, IsNode
  <2>3. Agree(L, node'[p].store.log_entries, k)
    BY <1>1, <2>1, PointKept DEF Moves
  <2>4. node'[p].currentTerm >= node[p].currentTerm
    BY <2>1 DEF Moves
  <2> QED
    BY <1>1, <2>1, <2>2, <2>3, <2>4
<1> QED
  BY <1>2 DEF Held

\* A log that is as good as one with row k has a row that is later than k.
LEMMA UpToDateLater ==
    ASSUME CoreInv, NEW p \in Server, NEW c \in Server, NEW q,
           LogUpToDate(node[p], q),
           q.lastLogIndex = LastIndex(node[c].store),
           q.lastLogTerm = LastTerm(node[c].store),
           NEW k \in Nat, k > 0, NEW T \in Nat,
           Has(node[p].store.log_entries, k, T)
    PROVE  Later(LogOf(node[c].store), k, T)
<1> DEFINE A == LogOf(node[p].store)
           B == LogOf(node[c].store)
           a == LastIndex(node[p].store)
           b == LastIndex(node[c].store)
<1>1. /\ A \in Segments /\ Seg(A, a) /\ Seg(B, b) /\ A.lo = 0 /\ B.lo = 0
      /\ A.rows = node[p].store.log_entries /\ B.rows = node[c].store.log_entries
  BY LogFacts DEF CoreInv, MatchingInv
<1>2. Sorted(A)
  BY <1>1 DEF CoreInv, OrderInv
<1>3. node[c].store.snapshot_index = 0 /\ node[c].store.snapshot_term = 0
  BY DEF CoreInv, MatchingInv, MatchInv, Uncompacted
<1>4. /\ DOMAIN A.rows = 1..a /\ DOMAIN B.rows = 1..b /\ a \in Nat /\ b \in Nat
      /\ \A i \in 1..a : A.rows[i].term \in Nat
      /\ \A i \in 1..b : B.rows[i].term \in Nat
  <2> HIDE DEF A, B, a, b
  <2> QED
    BY <1>1 DEF Seg
<1>5. k \in 1..a /\ A.rows[k].term = T
  BY <1>1, <1>4 DEF Has
<1>6. a \in 1..a /\ a >= k
  BY <1>4, <1>5
<1>7. A.rows[k].term <= A.rows[a].term
  BY <1>2, <1>4, <1>5, <1>6 DEF Sorted
<1>8. LastTerm(node[p].store) = A.rows[a].term
  <2>1. DOMAIN node[p].store.log_entries # {}
    BY <1>1, <1>4, <1>5
  <2> QED
    BY <1>1, <2>1 DEF LastTerm
<1>9. /\ b = 0 => LastTerm(node[c].store) = 0
      /\ b # 0 => LastTerm(node[c].store) = B.rows[b].term
  <2>1. b = 0 => DOMAIN node[c].store.log_entries = {}
    BY <1>1, <1>4
  <2>2. b # 0 => DOMAIN node[c].store.log_entries # {}
    BY <1>1, <1>4
  <2> QED
    BY <1>1, <1>3, <2>1, <2>2 DEF LastTerm
<1>10. \/ LastTerm(node[c].store) > A.rows[a].term
       \/ LastTerm(node[c].store) = A.rows[a].term /\ b >= a
  BY <1>8 DEF LogUpToDate
<1> DEFINE x == A.rows[a].term
           y == LastTerm(node[c].store)
<1>11. x \in Nat /\ x >= T
  BY <1>4, <1>5, <1>6, <1>7
<1> HIDE DEF A, B, a, b, x, y
<1>12. b # 0
  BY <1>4, <1>6, <1>9, <1>10, <1>11 DEF x, y
<1>13. b \in DOMAIN B.rows /\ B.rows[b].term = y
  BY <1>4, <1>9, <1>12 DEF y
<1>14. y > T \/ (y = T /\ b >= k)
  BY <1>4, <1>6, <1>10, <1>11, <1>13 DEF x, y
<1> QED
  BY <1>13, <1>14 DEF Later, B

\* A node that has the rows of L has the last of them.
LEMMA AgreeHas ==
    ASSUME NEW L, NEW k, IsPoint(L, k), NEW log, Agree(L, log, k)
    PROVE  Has(log, k, L[k].term)
<1>1. k \in DOMAIN L /\ k <= k
  BY DEF IsPoint
<1> QED
  BY <1>1 DEF Agree, Has

\* Q votes for nobody who does not have row k.
LEMMA VotedKept ==
    ASSUME CoreInv, CoreInv', Moves, NEW Q \in SUBSET Server, NEW L, NEW k,
           IsPoint(L, k), Held(Q, L, k), Held(Q, L, k)',
           Voted(Q, k, L[k].term), Passed(k, L[k].term)
    PROVE  Voted(Q, k, L[k].term)'
<1> DEFINE T == L[k].term
<1>1. k \in Nat /\ k > 0 /\ T \in Nat
  BY DEF IsPoint
<1> SUFFICES ASSUME NEW p \in Q, NEW c \in Server,
                    node'[c].role = "candidate", node'[c].currentTerm > T,
                    Cast(p, node[c].currentTerm, c)'
             PROVE  Has(node'[c].store.log_entries, k, T)
  BY DEF Voted
<1> HIDE DEF T
<1>2. SameLog(node[c].store, node'[c].store)
  BY CandidateLog DEF CoreInv, MatchingInv, Moves, LogsMove
<1>3. SUFFICES Has(node[c].store.log_entries, k, T)
  BY <1>2 DEF SameLog
<1>4. /\ p \in Server /\ node[c].currentTerm \in Nat /\ node'[c].currentTerm \in Nat
      /\ node'[c].currentTerm >= node[c].currentTerm
  BY DEF CoreInv, MatchingInv, TypeOK, IsNode, Moves
<1>5. VoteMove(node[c], node'[c], c)
  BY DEF Moves, VoteStep
<1>6. ASSUME node[c].role = "candidate", node'[c].currentTerm = node[c].currentTerm,
             Cast(p, node[c].currentTerm, c)
      PROVE  Has(node[c].store.log_entries, k, T)
  BY <1>6 DEF Voted, T
<1>7. CASE p \in node'[c].votes
  <2>1. CASE p = c
    <3>1. Agree(L, node[p].store.log_entries, k)
      BY DEF Held
    <3> QED
      BY <2>1, <3>1, AgreeHas DEF T
  <2>2. CASE p # c
    BY <1>5, <1>6, <1>7, <2>2 DEF VoteMove
  <2> QED
    BY <2>1, <2>2
<1>8. ASSUME NEW r \in voteReps', r.granted, r.dst = p, r.src = c,
             r.term = node'[c].currentTerm
      PROVE  Has(node[c].store.log_entries, k, T)
  <2>1. ASSUME r.term <= node[c].currentTerm
        PROVE  node[c].role = "candidate" /\ node'[c].currentTerm = node[c].currentTerm
    BY <1>4, <1>5, <1>8, <2>1 DEF VoteMove
  <2>2. CASE r \in voteReps
    <3>1. r.term <= node[c].currentTerm
      BY <1>8, <2>2 DEF CoreInv, OrderInv
    <3>2. Cast(p, node[c].currentTerm, c)
      BY <1>8, <2>1, <2>2, <3>1 DEF Cast
    <3> QED
      BY <1>6, <2>1, <3>1, <3>2
  <2>3. ASSUME NEW q \in voteReqs, VotesOn(r, q)
        PROVE  Has(node[c].store.log_entries, k, T)
    <3>1. /\ q.src = c /\ q.dst = p /\ q.term = r.term
          /\ LogUpToDate(node[p], q)
      BY <1>8, <2>3 DEF VotesOn
    <3>2. AskInv(q)
      BY DEF CoreInv, OrderInv
    <3>3. r.term <= node[c].currentTerm
      BY <3>1, <3>2 DEF AskInv
    <3>4. /\ q.lastLogIndex = LastIndex(node[c].store)
          /\ q.lastLogTerm = LastTerm(node[c].store)
      BY <1>8, <2>1, <3>1, <3>2, <3>3 DEF AskInv
    <3>5. Has(node[p].store.log_entries, k, T)
      BY AgreeHas DEF Held, T
    <3>6. Later(LogOf(node[c].store), k, T)
      BY <1>1, <1>4, <3>1, <3>4, <3>5, UpToDateLater
    <3>7. Passes(LogOf(node[c].store), k, T)
      BY <3>6 DEF Passed, Segments, T
    <3> QED
      BY <1>1, <3>7 DEF Passes, LogOf
  <2> QED
    BY <2>2, <2>3 DEF Moves, VoteStep
<1> QED
  BY <1>7, <1>8 DEF Cast

\* Who leads has row k, or was elected without Q.
LEMMA LedKept ==
    ASSUME CoreInv, CoreInv', Moves, NEW Q \in SUBSET Server, Q # {}, NEW L, NEW k,
           IsPoint(L, k), Held(Q, L, k), Voted(Q, k, L[k].term),
           Led(k, L[k].term), ~Blocked(Q, L[k].term)'
    PROVE  Led(k, L[k].term)'
<1> DEFINE T == L[k].term
<1>1. k \in Nat /\ k > 0 /\ T \in Nat
  BY DEF IsPoint
<1> SUFFICES ASSUME NEW s \in Server, node'[s].role = "leader",
                    node'[s].currentTerm >= T
             PROVE  Has(node'[s].store.log_entries, k, T)
  BY DEF Led
<1> HIDE DEF T
<1>2. \A x \in Server : node[x].currentTerm \in Nat /\ node'[x].currentTerm \in Nat
  BY DEF CoreInv, MatchingInv, TypeOK, IsNode
<1>3. CASE /\ Leads(s, node'[s].currentTerm)
           /\ Agree(node[s].store.log_entries, node'[s].store.log_entries,
                    LastIndex(node[s].store))
  <2>1. Has(node[s].store.log_entries, k, T)
    BY <1>3 DEF Led, Leads, T
  <2>2. /\ Seg(LogOf(node[s].store), LastIndex(node[s].store))
        /\ LogOf(node[s].store).lo = 0
        /\ LogOf(node[s].store).rows = node[s].store.log_entries
    BY LogFacts DEF CoreInv, MatchingInv
  <2>3. k <= LastIndex(node[s].store)
    BY <2>1, <2>2 DEF Seg, Has
  <2> QED
    BY <1>3, <2>1, <2>3 DEF Agree, Has
<1>4. CASE /\ Wins(s)
           /\ [term |-> node'[s].currentTerm, leader |-> s] \in elected'
           /\ [term |-> node'[s].currentTerm, leader |-> s] \notin elected
  <2>1. PICK V \in SUBSET Server :
                /\ Cardinality(V) >= Majority
                /\ \A v \in V : Cast(v, node[s].currentTerm, s)
    BY <1>4 DEF Wins
  <2>2. /\ node[s].role = "candidate" /\ node'[s].store = node[s].store
        /\ node'[s].currentTerm = node[s].currentTerm
    BY <1>4 DEF Wins
  <2>3. node[s].currentTerm # T
    <3> SUFFICES ASSUME node[s].currentTerm = T PROVE FALSE
      OBVIOUS
    <3>1. PICK p \in Q : TRUE
      OBVIOUS
    <3>2. Has(node[p].store.log_entries, k, T) /\ p \in Server
      BY AgreeHas DEF Held, T
    <3>3. PICK e \in elected : e.term = T
      <4>1. LogOf(node[p].store) \in Segments
        BY <3>2 DEF Segments
      <4> QED
        BY <3>2, <4>1 DEF CoreInv, MatchingInv, MatchInv, Written, Has, LogOf
    <3>4. e \in elected'
      BY <3>3 DEF Moves
    <3>5. e = [term |-> node'[s].currentTerm, leader |-> s]
      <4>1. ElectionSafety'
        BY DEF CoreInv, MatchingInv, ElectionInv
      <4> QED
        BY <1>4, <2>2, <3>3, <3>4, <4>1 DEF ElectionSafety
    <3> QED
      BY <1>4, <3>3, <3>5
  <2>4. node[s].currentTerm > T
    BY <1>1, <1>2, <2>2, <2>3
  <2>5. V \cap Q # {}
    <3> SUFFICES ASSUME V \cap Q = {} PROVE FALSE
      OBVIOUS
    <3>1. ASSUME NEW v \in V PROVE node'[v].currentTerm > T
      <4>1. v \in Server /\ Cast(v, node[s].currentTerm, s)
        BY <2>1
      <4>2. OnDisk(v, node[s].currentTerm, s)
        BY <1>2, <4>1 DEF CoreInv, MatchingInv, ElectionInv, CastInv, VoteMade
      <4>3. node[v].store.current_term = node[v].currentTerm
        BY <4>1 DEF CoreInv, AckInv, InTerm
      <4>4. node'[v].currentTerm >= node[v].currentTerm
        BY <4>1 DEF Moves
      <4> QED
        BY <1>1, <1>2, <2>4, <4>1, <4>2, <4>3, <4>4 DEF OnDisk
    <3> QED
      BY <2>1, <3>1 DEF Blocked, T
  <2>6. PICK p \in V \cap Q : TRUE
    BY <2>5
  <2>7. Has(node[s].store.log_entries, k, T)
    BY <2>1, <2>2, <2>4, <2>6 DEF Voted, T
  <2> QED
    BY <2>2, <2>7
<1> QED
  BY <1>3, <1>4 DEF Moves, LeadersMove

\* A part has a later row only if the whole has.
LEMMA PartLater ==
    ASSUME NEW A, NEW P, Part(P, A), NEW k, NEW T, Later(P, k, T)
    PROVE  Later(A, k, T)
BY DEF Part, Later

\* The log of s after a step has row k, if it has a later row.
LEMMA LogPassed ==
    ASSUME CoreInv, CoreInv', Moves, NEW k \in Nat, k > 0, NEW T \in Nat,
           Led(k, T), Passed(k, T), NEW s \in Server,
           Later(LogOf(node'[s].store), k, T)
    PROVE  Passes(LogOf(node'[s].store), k, T)
<1> DEFINE C == LogOf(node[s].store)
           N == LogOf(node'[s].store)
           c == LastIndex(node[s].store)
<1>1. /\ C \in Segments /\ Seg(C, c) /\ C.lo = 0
      /\ C.rows = node[s].store.log_entries
  BY LogFacts DEF CoreInv, MatchingInv
<1>2. Sorted(C) /\ (Later(C, k, T) => Passes(C, k, T))
  BY <1>1 DEF CoreInv, OrderInv, Passed
<1>3. RowsMove(s)
  BY DEF Moves, LogsMove
<1> SUFFICES Passes(N, k, T)
  OBVIOUS
<1>4. Later(N, k, T)
  OBVIOUS
<1>5. CASE N = C
  <2> HIDE DEF N, C
  <2> QED
    BY <1>2, <1>4, <1>5
<1>6. ASSUME NEW q \in appendReqs, Takes(s, q) PROVE Passes(N, k, T)
  <2> DEFINE Q == RowsOf(q)
             l == LastSent(q)
  <2>1. q.dst = s
    BY <1>6 DEF Takes
  <2>2. Q \in Segments /\ Match(C, Q) /\ Seg(Q, l)
    BY <2>1, TakesFacts DEF CoreInv, MatchingInv
  <2>3. Later(Q, k, T) => Passes(Q, k, T)
    BY <2>2 DEF Passed
  <2>4. PICK d \in Nat : \E M :
              /\ MergeOf(M, C, Q, c, l, d)
              /\ N = M \/ (Seg(N, d - 1) /\ N.lo = 0 /\ Part(N, C))
    BY <1>6 DEF Takes
  <2> HIDE DEF N, C, Q, c, l
  <2>5. CASE MergeOf(N, C, Q, c, l, d)
    BY <1>2, <1>4, <2>2, <2>3, <2>5, MergePasses
  <2>6. CASE Seg(N, d - 1) /\ N.lo = 0 /\ Part(N, C)
    <3>1. Passes(C, k, T)
      BY <1>2, <1>4, <2>6, PartLater
    <3>2. Has(C.rows, k, T)
      BY <1>1, <3>1 DEF Passes
    <3> QED
      BY <1>1, <1>2, <1>4, <2>6, <3>2, PartPasses
  <2> QED
    BY <2>4, <2>5, <2>6
<1>7. CASE Grows(s)
  <2>1. PICK row : row.term = node[s].currentTerm /\ AppendOf(N, C, c, row)
    BY <1>7 DEF Grows
  <2>2. row.term >= T => Has(C.rows, k, T)
    BY <1>1, <1>7, <2>1 DEF Grows, Leads, Led
  <2> HIDE DEF N, C, c
  <2> QED
    BY <1>1, <1>2, <1>4, <2>1, <2>2, AppendPasses
<1> HIDE DEF N, C, c
<1> QED
  BY <1>3, <1>5, <1>6, <1>7 DEF RowsMove, N, C

\* So does a request.
LEMMA CallPassed ==
    ASSUME CoreInv, CoreInv', Moves, NEW k \in Nat, k > 0, NEW T \in Nat,
           Passed(k, T), NEW q \in appendReqs', Later(RowsOf(q), k, T)
    PROVE  Passes(RowsOf(q), k, T)
<1>1. ASSUME NEW o \in appendReqs, SameRequest(q, o) PROVE Passes(RowsOf(q), k, T)
  <2>1. RowsOf(q) = RowsOf(o)
    BY <1>1 DEF SameRequest, RowsOf
  <2>2. RowsOf(o) \in Segments
    BY DEF Segments
  <2> QED
    BY <2>1, <2>2 DEF Passed
<1>2. ASSUME NEW s \in Server, Sent(q, s) PROVE Passes(RowsOf(q), k, T)
  <2> DEFINE C == LogOf(node[s].store)
             P == RowsOf(q)
  <2>1. /\ C \in Segments /\ Seg(C, LastIndex(node[s].store)) /\ C.lo = 0
    BY LogFacts DEF CoreInv, MatchingInv
  <2>2. Sorted(C) /\ (Later(C, k, T) => Passes(C, k, T))
    BY <2>1 DEF CoreInv, OrderInv, Passed
  <2>3. Part(P, C) /\ Later(P, k, T)
    BY <1>2 DEF Sent
  <2>4. Seg(P, LastSent(q))
    BY RowsSeg DEF CoreInv, MatchingInv, TypeOK, LogInv, AppendReqInv, InOrder
  <2> HIDE DEF C, P
  <2>5. Has(C.rows, k, T)
    BY <2>1, <2>2, <2>3, PartLater DEF Passes
  <2>6. Passes(P, k, T)
    BY <2>1, <2>2, <2>3, <2>4, <2>5, PartPasses
  <2> QED
    BY <2>6 DEF P
<1> QED
  BY <1>1, <1>2 DEF Moves, LogsMove, CallMove

\* What has a later row has row k.
LEMMA PassedKept ==
    ASSUME CoreInv, CoreInv', Moves, NEW k \in Nat, k > 0, NEW T \in Nat,
           Led(k, T), Passed(k, T)
    PROVE  Passed(k, T)'
<1> SUFFICES ASSUME NEW A \in Segments', Later(A, k, T)
             PROVE  Passes(A, k, T)
  BY DEF Passed, Later, Passes, Has
<1>1. \/ \E s \in Server : A = LogOf(node'[s].store)
      \/ \E q \in appendReqs' : A = RowsOf(q)
  BY DEF Segments, LogOf, RowsOf
<1> QED
  BY <1>1, LogPassed, CallPassed

\* Leaders send what fits L.
LEMMA FittingKept ==
    ASSUME CoreInv, CoreInv', Moves, NEW Q \in SUBSET Server, Q # {}, NEW L, NEW k,
           IsPoint(L, k), Held(Q, L, k), Led(k, L[k].term), Fitting(L, k)
    PROVE  Fitting(L, k)'
<1> DEFINE T == L[k].term
<1>1. k \in Nat /\ k > 0 /\ T \in Nat /\ k \in 1..k /\ DOMAIN L = 1..k
  BY DEF IsPoint
<1> SUFFICES ASSUME NEW q \in appendReqs', q.term >= T
             PROVE  Fits(RowsOf(q), L, k)
  BY DEF Fitting, RowsOf, Fits
<1>2. ASSUME NEW o \in appendReqs, SameRequest(q, o) PROVE Fits(RowsOf(q), L, k)
  BY <1>2 DEF SameRequest, RowsOf, Fitting
<1>3. ASSUME NEW s \in Server, Sent(q, s) PROVE Fits(RowsOf(q), L, k)
  <2> DEFINE C == LogOf(node[s].store)
             P == RowsOf(q)
             c == LastIndex(node[s].store)
  <2>1. /\ C \in Segments /\ Seg(C, c) /\ C.lo = 0
        /\ C.rows = node[s].store.log_entries
    BY LogFacts DEF CoreInv, MatchingInv
  <2>2. Sorted(C)
    BY <2>1 DEF CoreInv, OrderInv
  <2>3. Part(P, C) /\ Leads(s, q.term)
    BY <1>3 DEF Sent
  <2>4. Has(node[s].store.log_entries, k, T)
    BY <2>3 DEF Led, Leads
  <2>5. PICK p \in Q : p \in Server /\ Agree(L, node[p].store.log_entries, k)
    BY DEF Held
  <2>6. Agree(L, C.rows, k)
    BY <1>1, <2>1, <2>4, <2>5, HasAgree
  <2>7. Seg(P, LastSent(q))
    BY RowsSeg DEF CoreInv, MatchingInv, TypeOK, LogInv, AppendReqInv, InOrder
  <2> HIDE DEF C, P, c, T
  <2>8. /\ P.lo \in Nat /\ DOMAIN C.rows = 1..c /\ c \in Nat
        /\ \A j \in DOMAIN C.rows : C.rows[j].term \in Nat
        /\ DOMAIN P.rows = (P.lo + 1)..LastSent(q) /\ LastSent(q) \in Nat
    BY <2>1, <2>7 DEF Seg
  <2>9. \A j \in 1..k : j \in DOMAIN C.rows /\ C.rows[j] = L[j]
    BY <1>1, <2>6 DEF Agree
  <2>10. ASSUME NEW j \in DOMAIN P.rows, j <= k PROVE P.rows[j] = L[j]
    <3>1. j \in 1..k
      BY <1>1, <2>8, <2>10
    <3> QED
      BY <2>3, <2>9, <3>1 DEF Part
  <2>11. ASSUME P.lo \in 1..k PROVE P.at = L[P.lo].term
    <3>1. P.lo # C.lo
      BY <1>1, <2>1, <2>11
    <3> QED
      BY <2>3, <2>9, <2>11, <3>1 DEF Part
  <2>12. ASSUME P.lo > k PROVE P.at >= T
    <3>1. P.lo \in DOMAIN C.rows /\ P.at = C.rows[P.lo].term
      BY <1>1, <2>1, <2>3, <2>8, <2>12 DEF Part
    <3>2. k \in DOMAIN C.rows /\ C.rows[k].term = T
      BY <1>1, <2>9 DEF T
    <3>3. C.rows[k].term <= C.rows[P.lo].term
      BY <1>1, <2>2, <2>8, <2>12, <3>1, <3>2 DEF Sorted
    <3> QED
      BY <1>1, <2>8, <3>1, <3>2, <3>3
  <2>13. Fits(P, L, k)
    BY <2>10, <2>11, <2>12 DEF Fits, T
  <2> QED
    BY <2>13 DEF P
<1> QED
  BY <1>2, <1>3 DEF Moves, LogsMove, CallMove

\* What is safe stays safe, unless a majority without Q has gone on; that is
\* not possible if Q is a majority.
LEMMA SafeKept ==
    ASSUME CoreInv, CoreInv', Moves, NEW Q \in SUBSET Server, Q # {}, NEW L, NEW k,
           IsPoint(L, k), Safe(Q, L, k), ~Blocked(Q, L[k].term)'
    PROVE  Safe(Q, L, k)'
<1>1. k \in Nat /\ k > 0 /\ L[k].term \in Nat
  BY DEF IsPoint
<1>2. /\ Held(Q, L, k) /\ Voted(Q, k, L[k].term) /\ Led(k, L[k].term)
      /\ Passed(k, L[k].term) /\ Fitting(L, k)
  BY DEF Safe
<1>3. Held(Q, L, k)'
  BY <1>2, HeldKept
<1>4. Voted(Q, k, L[k].term)'
  BY <1>2, <1>3, VotedKept
<1>5. Led(k, L[k].term)'
  BY <1>2, LedKept
<1>6. Passed(k, L[k].term)'
  BY <1>1, <1>2, PassedKept
<1>7. Fitting(L, k)'
  BY <1>2, FittingKept
<1> QED
  BY <1>3, <1>4, <1>5, <1>6, <1>7 DEF Safe

----------------------------------------------------------------------------
(* Rows on their way to a majority                                         *)

Prefix(log, k) == [j \in 1..k |-> log[j]]

\* The nodes that, as leader s may know already or will when the answer comes,
\* have its rows up to k.
Acked(s, k) ==
    {s} \cup {p \in Peers(s) : node[s].matchIndex[p] >= k}
        \cup {p \in Server :
                \E r \in appendReps :
                    /\ r.success /\ r.lastSent >= k
                    /\ <<r.src, r.dst, r.term>> = <<s, p, node[s].currentTerm>>}

\* The rows that a leader writes are safe as far as they were acknowledged, or
\* a majority has gone on without those who acknowledged them.
SentInv ==
    \A s \in Server : node[s].role = "leader" =>
        LET log == node[s].store.log_entries
            T   == node[s].currentTerm
        IN  \A k \in DOMAIN log : log[k].term = T =>
                \/ Blocked(Acked(s, k), T)
                \/ Safe(Acked(s, k), Prefix(log, k), k)

\* An acknowledgement comes from a node in the term of the leader, and a leader
\* counts only on acknowledgements.
AcksMove ==
    /\ \A r \in appendReps' : r.success =>
            r \in appendReps \/ node'[r.dst].currentTerm = r.term
    /\ \A s \in Server :
            (node'[s].role = "leader" /\ Leads(s, node'[s].currentTerm)) =>
                Counts(node[s], node'[s], s)

\* That is all that happens to acknowledgements.
LEMMA StepAcks ==
    ASSUME TypeOK, ElectionInv, RowStep
    PROVE  AcksMove
<1>1. \A q \in appendReqs : q.dst \in Server
  BY DEF TypeOK, IsAppendReq
<1>2. ASSUME NEW t \in Server, NEW m, node' = [node EXCEPT ![t] = m]
      PROVE  \A s \in Server : node'[s] = IF s = t THEN m ELSE node[s]
  BY <1>2 DEF TypeOK
<1>3. \A s \in Server : Counts(node[s], node[s], s)
  BY DEF Counts
<1>4. ASSUME NEW t \in Server, NEW m, LogStays(t, m) PROVE AcksMove
  <2>1. ASSUME NEW s \in Server, node'[s].role = "leader",
               Leads(s, node'[s].currentTerm)
        PROVE  Counts(node[s], node'[s], s)
    <3>1. node'[s] = IF s = t THEN m ELSE node[s]
      BY <1>2, <1>4 DEF LogStays, Turns
    <3>2. CASE s # t
      BY <1>3, <3>1, <3>2
    <3>3. CASE s = t
      <4>1. [term |-> m.currentTerm, leader |-> s] \in elected
        <5>1. HintInv(node[s], s, elected) /\ s # Nobody
          BY RaftConstants DEF ElectionInv
        <5> QED
          BY <2>1, <3>1, <3>3, <5>1 DEF HintInv, Leads
      <4> QED
        BY <1>4, <2>1, <3>1, <3>3, <4>1 DEF LogStays
    <3> QED
      BY <3>2, <3>3
  <2> QED
    BY <1>4, <2>1 DEF LogStays, NoNewSuccess, AcksMove
<1>5. ASSUME NEW t \in Server, NEW p, NEW w, Sends(t, p, w) PROVE AcksMove
  BY <1>3, <1>5 DEF Sends, SendAppend, AcksMove
<1>6. ASSUME NEW q \in appendReqs, NEW m, NEW st, Merges(q, m, st) PROVE AcksMove
  <2>1. \A s \in Server : node'[s] = IF s = q.dst THEN m ELSE node[s]
    <3>1. q.dst \in Server /\ node' = [node EXCEPT ![q.dst] = m]
      BY <1>1, <1>6 DEF Merges, Turns
    <3> QED
      BY <1>2, <3>1
  <2>2. \A r \in appendReps' : r.success => r \in appendReps \/ AnswerTo(r, q)
    BY <1>6 DEF Merges, NoNewSuccess
  <2>3. ASSUME NEW r, AnswerTo(r, q) PROVE node'[r.dst].currentTerm = r.term
    <3>1. r.dst = q.dst /\ r.term = q.term /\ m.currentTerm = q.term
      BY <1>6, <2>3 DEF Merges, AnswerTo
    <3> QED
      BY <1>1, <2>1, <3>1
  <2>4. m.role = "follower"
    BY <1>6 DEF Merges
  <2> QED
    BY <1>3, <2>1, <2>2, <2>3, <2>4 DEF AcksMove
<1>7. ASSUME NEW t \in Server, NEW m, NEW row, Appends(t, m, row) PROVE AcksMove
  <2>1. \A s \in Server : node'[s] = IF s = t THEN m ELSE node[s]
    BY <1>2, <1>7 DEF Appends, Turns
  <2>2. Counts(node[t], m, t)
    BY <1>7 DEF Appends, Counts
  <2> QED
    BY <1>3, <1>7, <2>1, <2>2 DEF Appends, NoNewSuccess, AcksMove
<1> QED
  BY <1>4, <1>5, <1>6, <1>7 DEF RowStep

\* Who acknowledges rows to leader s in a step is in its term, and has them.
LEMMA NewAck ==
    ASSUME CoreInv, CoreInv', AcksMove, NEW s \in Server, NEW T, Leads(s, T),
           Leads(s, T)', NEW k \in Nat, k > 0, NEW p \in Acked(s, k)'
    PROVE  /\ p \in Server
           /\ \/ p \in Acked(s, k)
              \/ /\ node'[p].currentTerm = T
                 /\ Agree(node'[s].store.log_entries,
                          node'[p].store.log_entries, k)
<1>1. node[s].currentTerm = T /\ node'[s].currentTerm = T
  BY DEF Leads
<1>2. CASE p = s
  BY <1>2 DEF Acked
<1>3. CASE p \in Peers(s) /\ node'[s].matchIndex[p] >= k
  <2>1. Counts(node[s], node'[s], s)
    BY <1>1 DEF AcksMove, Leads
  <2>2. CASE node'[s].matchIndex[p] = node[s].matchIndex[p]
    BY <1>3, <2>2 DEF Acked, Peers
  <2>3. CASE \E r \in appendReps :
                /\ r.success /\ r.src = s /\ r.dst = p
                /\ r.term = node[s].currentTerm
                /\ node'[s].matchIndex[p] = r.lastSent
    BY <1>3, <2>3 DEF Acked, Peers
  <2> QED
    BY <1>3, <2>1, <2>2, <2>3 DEF Counts
<1>4. ASSUME NEW r \in appendReps', r.success, r.lastSent >= k, p \in Server,
             r.src = s, r.dst = p, r.term = T
      PROVE  \/ p \in Acked(s, k)
             \/ /\ node'[p].currentTerm = T
                /\ Agree(node'[s].store.log_entries,
                         node'[p].store.log_entries, k)
  <2>1. CASE r \in appendReps
    BY <1>1, <1>4, <2>1 DEF Acked
  <2>2. CASE r \notin appendReps
    <3>1. node'[p].currentTerm = T
      BY <1>4, <2>2 DEF AcksMove
    <3>2. Reached(r.src, r.dst, r.term, r.lastSent)'
      BY <1>4 DEF CoreInv, AckInv
    <3>3. Agree(node'[s].store.log_entries, node'[p].store.log_entries, r.lastSent)
      BY <1>4, <3>1, <3>2 DEF Reached
    <3>4. r.lastSent \in Nat /\ DOMAIN node'[s].store.log_entries \subseteq Nat
      <4>1. r.lastSent \in Nat
        BY <1>4, RaftConstants DEF CoreInv, MatchingInv, TypeOK, AppendReps, Index
      <4>2. IsTable(node'[s].store.log_entries, MaxIndex)
        BY DEF CoreInv, MatchingInv, TypeOK, IsNode, IsStore
      <4> QED
        BY <4>1, <4>2 DEF IsTable
    <3> QED
      BY <1>4, <3>1, <3>3, <3>4 DEF Agree
  <2> QED
    BY <2>1, <2>2
<1>5. \/ p = s
      \/ p \in Peers(s) /\ node'[s].matchIndex[p] >= k
      \/ p \in Server /\ \E r \in appendReps' :
            /\ r.success /\ r.lastSent >= k
            /\ r.src = s /\ r.dst = p /\ r.term = node'[s].currentTerm
  BY DEF Acked
<1>6. p \in Server
  BY <1>5 DEF Peers
<1> QED
  BY <1>1, <1>2, <1>3, <1>4, <1>5, <1>6

\* Nobody in term T votes in a later term: what is safe with Q is safe with
\* more nodes in T that have the rows.
LEMMA SafeGrows ==
    ASSUME CoreInv', NEW Q, NEW R \in SUBSET Server, NEW L, NEW k,
           IsPoint(L, k), Safe(Q, L, k)',
           \A p \in R : \/ p \in Q
                        \/ /\ Agree(L, node'[p].store.log_entries, k)
                           /\ node'[p].currentTerm = L[k].term
    PROVE  Safe(R, L, k)'
<1>1. k \in Nat /\ L[k].term \in Nat
  BY DEF IsPoint
<1>2. /\ Held(Q, L, k)' /\ Voted(Q, k, L[k].term)' /\ Led(k, L[k].term)'
      /\ Passed(k, L[k].term)' /\ Fitting(L, k)'
  BY DEF Safe
<1>3. Held(R, L, k)'
  BY <1>1, <1>2 DEF Held
<1>4. ASSUME NEW p \in R, NEW c \in Server, p \notin Q,
             node'[c].currentTerm > L[k].term, Cast(p, node[c].currentTerm, c)'
      PROVE  FALSE
  <2>1. node'[c].currentTerm \in Nat /\ p \in Server
    BY DEF CoreInv, MatchingInv, TypeOK, IsNode
  <2>2. PICK U \in Nat : U = node'[c].currentTerm
    BY <2>1
  <2>3. Cast(p, U, c)'
    BY <1>4, <2>2
  <2>4. OnDisk(p, U, c)'
    BY <2>1, <2>3 DEF CoreInv, MatchingInv, ElectionInv, CastInv, VoteMade
  <2>5. node'[p].store.current_term = node'[p].currentTerm
    BY <2>1 DEF CoreInv, AckInv, InTerm
  <2>6. node'[p].currentTerm = L[k].term
    BY <1>4
  <2> QED
    BY <1>1, <1>4, <2>2, <2>4, <2>5, <2>6 DEF OnDisk
<1>5. Voted(R, k, L[k].term)'
  BY <1>2, <1>4 DEF Voted
<1> QED
  BY <1>2, <1>3, <1>5 DEF Safe

\* The last row of a leader's log, if it is of the leader's term, is safe with
\* the leader alone as long as nobody has won a later term.
FreshRows ==
    \A s \in Server :
        LET st == node[s].store
            T  == node[s].currentTerm
            k  == LastIndex(st)
        IN  (/\ node[s].role = "leader" /\ k \in DOMAIN st.log_entries
             /\ st.log_entries[k].term = T) =>
                \/ Blocked({s}, T)
                \/ Safe({s}, Prefix(st.log_entries, k), k)

\* The rows of a leader's log are a point.
LEMMA PrefixPoint ==
    ASSUME CoreInv, NEW s \in Server, NEW k \in DOMAIN node[s].store.log_entries
    PROVE  LET log == node[s].store.log_entries
               L   == Prefix(log, k)
           IN  /\ IsPoint(L, k) /\ L[k] = log[k] /\ Agree(L, log, k)
               /\ \A j \in 1..k : j \in DOMAIN log /\ L[j] = log[j]
<1> DEFINE log == node[s].store.log_entries
           c == LastIndex(node[s].store)
<1>1. /\ DOMAIN log = 1..c /\ c \in Nat
      /\ \A i \in DOMAIN log : log[i].term \in Nat
  <2> DEFINE A == LogOf(node[s].store)
  <2>1. Seg(A, c) /\ A.lo = 0 /\ A.rows = log
    BY LogFacts DEF CoreInv, MatchingInv
  <2> HIDE DEF A, c, log
  <2> QED
    BY <2>1 DEF Seg
<1> HIDE DEF log, c
<1>2. k \in Nat /\ k > 0 /\ \A j \in 1..k : j \in DOMAIN log
  BY <1>1 DEF log
<1>3. \A j \in 1..k : Prefix(log, k)[j] = log[j]
  BY DEF Prefix
<1>4. DOMAIN Prefix(log, k) = 1..k /\ k \in 1..k
  BY <1>2 DEF Prefix
<1> QED
  BY <1>1, <1>2, <1>3, <1>4 DEF IsPoint, Agree, log

\* A new row is safe with its leader.
LEMMA FreshSafe == CoreInv => FreshRows
<1> SUFFICES ASSUME CoreInv, NEW s \in Server, node[s].role = "leader",
                    LastIndex(node[s].store) \in DOMAIN node[s].store.log_entries,
                    node[s].store.log_entries[LastIndex(node[s].store)].term
                        = node[s].currentTerm,
                    ~Blocked({s}, node[s].currentTerm)
             PROVE  Safe({s}, Prefix(node[s].store.log_entries,
                                     LastIndex(node[s].store)),
                         LastIndex(node[s].store))
  BY DEF FreshRows
<1> DEFINE log == node[s].store.log_entries
           T == node[s].currentTerm
           k == LastIndex(node[s].store)
           L == Prefix(log, k)
<1>1. /\ IsPoint(L, k) /\ L[k] = log[k] /\ Agree(L, log, k)
      /\ \A j \in 1..k : j \in DOMAIN log /\ L[j] = log[j]
  BY PrefixPoint
<1>2. /\ DOMAIN log = 1..k /\ k \in Nat /\ T \in Nat /\ L[k].term = T /\ k > 0
  <2>1. DOMAIN log = 1..k /\ k \in Nat
    BY LogFacts DEF CoreInv, MatchingInv, Seg
  <2>2. T \in Nat
    BY DEF CoreInv, MatchingInv, TypeOK, IsNode
  <2> QED
    BY <1>1, <2>1, <2>2
<1>3. \A x \in Server : node[x].currentTerm \in Nat
                        /\ node[x].store.current_term = node[x].currentTerm
  BY DEF CoreInv, MatchingInv, AckInv, InTerm, TypeOK, IsNode
<1>4. Leads(s, T)
  BY DEF Leads
<1>5. /\ [term |-> T, leader |-> s] \in elected
      /\ \A p \in Server : Leads(p, T) => p = s
      /\ \A q \in appendReqs : q.term = T => q.src = s
  BY <1>4, OneLeader DEF CoreInv, MatchingInv
<1> HIDE DEF log, T, k, L
<1>6. ASSUME NEW e \in elected PROVE e.term <= T
  <2> SUFFICES ASSUME e.term > T PROVE FALSE
    BY <1>2 DEF CoreInv, MatchingInv, TypeOK
  <2>1. e.term \in Nat /\ Won(e)
    BY DEF CoreInv, MatchingInv, TypeOK, ElectionInv, ElectedInv
  <2>2. PICK V \in SUBSET Server :
            /\ Cardinality(V) >= Majority
            /\ \A p \in V : VoteMade(p, e.term, e.leader)
    BY <2>1 DEF Won
  <2>3. ASSUME NEW v \in V PROVE node[v].currentTerm > T
    BY <1>2, <1>3, <2>1, <2>2 DEF VoteMade, OnDisk
  <2>4. s \notin V
    BY <1>2, <2>3 DEF T
  <2>5. V \cap {s} = {}
    BY <2>4
  <2> QED
    BY <2>2, <2>3, <2>5 DEF Blocked, T
<1>7. Held({s}, L, k)
  BY <1>1, <1>2, <1>3 DEF Held, T, log
<1>8. Voted({s}, k, T)
  <2> SUFFICES ASSUME NEW c \in Server, node[c].currentTerm > T,
                      Cast(s, node[c].currentTerm, c)
               PROVE  FALSE
    BY DEF Voted
  <2>1. OnDisk(s, node[c].currentTerm, c)
    BY <1>3 DEF CoreInv, MatchingInv, ElectionInv, CastInv, VoteMade
  <2> QED
    BY <1>2, <1>3, <2>1 DEF OnDisk, T
<1>9. Led(k, T)
  <2> SUFFICES ASSUME NEW t \in Server, node[t].role = "leader",
                      node[t].currentTerm >= T
               PROVE  Has(node[t].store.log_entries, k, T)
    BY DEF Led
  <2>1. [term |-> node[t].currentTerm, leader |-> t] \in elected
    BY RaftConstants DEF CoreInv, MatchingInv, ElectionInv, HintInv
  <2>2. node[t].currentTerm <= T
    BY <1>6, <2>1
  <2>3. node[t].currentTerm = T
    BY <1>2, <1>3, <2>2
  <2>4. t = s
    BY <1>5, <2>3 DEF Leads
  <2> QED
    BY <1>2, <1>1, <2>4 DEF Has, log
<1>10. Passed(k, T)
  <2> SUFFICES ASSUME NEW A \in Segments, Later(A, k, T) PROVE Passes(A, k, T)
    BY DEF Passed
  <2>1. PICK i \in DOMAIN A.rows : \/ A.rows[i].term > T
                                   \/ A.rows[i].term = T /\ i >= k
    BY DEF Later
  <2>2. PICK h : Seg(A, h)
    BY SegmentShape DEF CoreInv, MatchingInv, MatchInv
  <2>3. A.rows[i].term \in Nat /\ i \in Nat /\ A.lo \in Nat /\ i > A.lo
    BY <2>2 DEF Seg
  <2>4. A.rows[i].term <= T
    BY <1>6 DEF CoreInv, MatchingInv, MatchInv, Written
  <2>5. A.rows[i].term = T /\ i >= k
    BY <1>2, <2>1, <2>3, <2>4
  <2>6. i \in DOMAIN log
    BY <2>5 DEF CoreInv, MatchingInv, MatchInv, Covers, log, T
  <2>7. i = k
    BY <1>2, <2>5, <2>6
  <2> QED
    BY <1>2, <2>3, <2>5, <2>7 DEF Passes, Has
<1>11. Fitting(L, k)
  <2> SUFFICES ASSUME NEW q \in appendReqs, q.term >= T PROVE Fits(RowsOf(q), L, k)
    BY <1>2 DEF Fitting
  <2>1. [term |-> q.term, leader |-> q.src] \in elected /\ q.term \in Nat
    BY DEF CoreInv, MatchingInv, ElectionInv, CallsInv, TypeOK, IsAppendReq
  <2>2. q.term <= T
    BY <1>6, <2>1
  <2>3. q.term = T /\ q.src = s
    BY <1>2, <1>5, <2>1, <2>2
  <2> DEFINE P == RowsOf(q)
             C == LogOf(node[s].store)
  <2>4. Part(P, C)
    BY <1>4, <2>3 DEF CoreInv, AckInv
  <2>5. C.rows = log /\ C.lo = 0
    BY DEF LogOf, log
  <2>6. P.lo \in Nat /\ DOMAIN P.rows \subseteq Nat
    <3>1. Seg(P, LastSent(q))
      BY RowsSeg DEF CoreInv, MatchingInv, TypeOK, LogInv, AppendReqInv, InOrder
    <3> HIDE DEF P
    <3> QED
      BY <3>1 DEF Seg
  <2> HIDE DEF P, C
  <2>7. ASSUME NEW j \in DOMAIN P.rows PROVE P.rows[j] = L[j]
    BY <1>1, <1>2, <2>4, <2>5 DEF Part
  <2>8. P.lo # 0 => P.lo \in 1..k /\ P.at = L[P.lo].term
    BY <1>1, <1>2, <2>4, <2>5, <2>6 DEF Part
  <2>9. Fits(P, L, k)
    BY <1>2, <2>6, <2>7, <2>8 DEF Fits
  <2> QED
    BY <2>9 DEF P
<1>12. Safe({s}, L, k)
  BY <1>2, <1>7, <1>8, <1>9, <1>10, <1>11 DEF Safe
<1> QED
  BY <1>12 DEF L, k, log

\* A majority that has left term T holds nobody who acknowledges rows in T.
LEMMA BlockedGrows ==
    ASSUME NEW Q, NEW R \in SUBSET Server, NEW T \in Nat, Blocked(Q, T)',
           \A p \in R : p \in Q \/ node'[p].currentTerm = T
    PROVE  Blocked(R, T)'
<1>1. PICK V \in SUBSET Server :
            /\ Cardinality(V) >= Majority /\ V \cap Q = {}
            /\ \A v \in V : node'[v].currentTerm > T
  BY DEF Blocked
<1>2. V \cap R = {}
  BY <1>1
<1> QED
  BY <1>1, <1>2 DEF Blocked

\* Who has left term T does not come back.
LEMMA BlockedKept ==
    ASSUME CoreInv, CoreInv', Moves, NEW Q, NEW T \in Nat, Blocked(Q, T)
    PROVE  Blocked(Q, T)'
<1>1. PICK V \in SUBSET Server :
            /\ Cardinality(V) >= Majority /\ V \cap Q = {}
            /\ \A v \in V : node[v].currentTerm > T
  BY DEF Blocked
<1>2. ASSUME NEW v \in V PROVE node'[v].currentTerm > T
  <2>1. /\ node[v].currentTerm \in Nat /\ node'[v].currentTerm \in Nat
        /\ node'[v].currentTerm >= node[v].currentTerm
    BY DEF CoreInv, MatchingInv, TypeOK, IsNode, Moves
  <2> QED
    BY <1>1, <2>1
<1> QED
  BY <1>1, <1>2 DEF Blocked

\* A leader that has just won has no row of its term.
LEMMA NoRowYet ==
    ASSUME CoreInv, CoreInv', Moves, NEW s \in Server, Wins(s),
           [term |-> node'[s].currentTerm, leader |-> s] \in elected',
           [term |-> node'[s].currentTerm, leader |-> s] \notin elected,
           NEW k \in DOMAIN node'[s].store.log_entries
    PROVE  node'[s].store.log_entries[k].term # node'[s].currentTerm
<1> SUFFICES ASSUME node'[s].store.log_entries[k].term = node'[s].currentTerm
             PROVE  FALSE
  OBVIOUS
<1>1. node'[s].store = node[s].store
  BY DEF Wins
<1>2. LogOf(node[s].store) \in Segments
  BY DEF Segments
<1>3. PICK e \in elected : e.term = node'[s].currentTerm
  BY <1>1, <1>2 DEF CoreInv, MatchingInv, MatchInv, Written, LogOf
<1>4. e \in elected' /\ ElectionSafety'
  BY DEF Moves, CoreInv, MatchingInv, ElectionInv
<1>5. e = [term |-> node'[s].currentTerm, leader |-> s]
  BY <1>3, <1>4 DEF ElectionSafety
<1> QED
  BY <1>5

\* A row of a leader's log is the last one, and new, or was there.
LEMMA NewRow ==
    ASSUME CoreInv, CoreInv', Moves, NEW s \in Server, Leads(s, node[s].currentTerm)',
           Leads(s, node[s].currentTerm),
           NEW k \in DOMAIN node'[s].store.log_entries
    PROVE  \/ /\ k \in DOMAIN node[s].store.log_entries
              /\ \A j \in 1..k : node'[s].store.log_entries[j]
                                    = node[s].store.log_entries[j]
           \/ k = LastIndex(node'[s].store) /\ k > LastIndex(node[s].store)
<1> DEFINE C == LogOf(node[s].store)
           N == LogOf(node'[s].store)
           c == LastIndex(node[s].store)
<1>1. Seg(C, c) /\ C.lo = 0 /\ C.rows = node[s].store.log_entries
  BY LogFacts DEF CoreInv, MatchingInv
<1>2. N.rows = node'[s].store.log_entries /\ N.lo = 0
  BY DEF LogOf
<1>3. RowsMove(s)
  BY DEF Moves, LogsMove
<1>4. ~\E q \in appendReqs : Takes(s, q)
  BY DEF Takes, Leads
<1>5. CASE N = C
  BY <1>1, <1>2, <1>5
<1>6. CASE Grows(s)
  <2>1. PICK row : AppendOf(N, C, c, row)
    BY <1>6 DEF Grows
  <2>2. /\ DOMAIN N.rows = 1..(c + 1) /\ c \in Nat /\ DOMAIN C.rows = 1..c
        /\ \A j \in 1..(c + 1) : N.rows[j] = IF j = c + 1 THEN row ELSE C.rows[j]
    <3> HIDE DEF N, C, c
    <3> QED
      BY <1>1, <2>1 DEF AppendOf, Seg
  <2>3. LastIndex(node'[s].store) = c + 1
    <3>1. /\ IsStore(node'[s].store) /\ node'[s].store.snapshot_index = 0
      BY DEF CoreInv, MatchingInv, TypeOK, IsNode, MatchInv, Uncompacted
    <3>2. PICK st : st = node'[s].store
      OBVIOUS
    <3>3. DOMAIN st.log_entries = (st.snapshot_index + 1)..(c + 1)
      BY <1>2, <2>2, <3>1, <3>2
    <3>4. c + 1 \in Nat /\ c + 1 >= st.snapshot_index
      BY <2>2, <3>1, <3>2
    <3> HIDE DEF N, C, c
    <3> QED
      BY <3>1, <3>2, <3>3, <3>4, GapFreeForm
  <2> HIDE DEF N, C, c
  <2>4. CASE k = c + 1
    BY <2>2, <2>3, <2>4 DEF c
  <2>5. CASE k # c + 1
    <3>1. k \in DOMAIN C.rows /\ \A j \in 1..k : j \in 1..(c + 1) /\ j # c + 1
      BY <1>2, <2>2, <2>5
    <3> QED
      BY <1>1, <1>2, <2>2, <3>1
  <2> QED
    BY <2>4, <2>5
<1> QED
  BY <1>3, <1>4, <1>5, <1>6 DEF RowsMove

\* SentInv is inductive, relative to what was shown before.
LEMMA StepSent ==
    ASSUME CoreInv, CoreInv', FreshRows', SentInv, Moves, AcksMove
    PROVE  SentInv'
<1> SUFFICES ASSUME NEW s \in Server, node'[s].role = "leader",
                    NEW k \in DOMAIN node'[s].store.log_entries,
                    node'[s].store.log_entries[k].term = node'[s].currentTerm
             PROVE  \/ Blocked(Acked(s, k), node[s].currentTerm)'
                    \/ Safe(Acked(s, k), Prefix(node[s].store.log_entries, k), k)'
  BY DEF SentInv
<1>1. /\ Leads(s, node'[s].currentTerm)
      /\ Agree(node[s].store.log_entries, node'[s].store.log_entries,
               LastIndex(node[s].store))
  BY NoRowYet DEF Moves, LeadersMove
<1>2. PICK T \in Nat : T = node[s].currentTerm /\ T = node'[s].currentTerm
  <2>1. node[s].currentTerm = node'[s].currentTerm
    BY <1>1 DEF Leads
  <2>2. node[s].currentTerm \in Nat
    BY DEF CoreInv, MatchingInv, TypeOK, IsNode
  <2> QED
    BY <2>1, <2>2
<1>3. Leads(s, T) /\ Leads(s, T)'
  BY <1>1, <1>2 DEF Leads
<1>4. PICK L : L = Prefix(node[s].store.log_entries, k)'
  OBVIOUS
<1>5. /\ IsPoint(L, k) /\ k \in Nat /\ k > 0 /\ L[k].term = T
      /\ \A j \in 1..k : j \in DOMAIN node'[s].store.log_entries
                         /\ L[j] = node'[s].store.log_entries[j]
  <2> DEFINE log == node'[s].store.log_entries
  <2>1. /\ DOMAIN log = 1..LastIndex(node'[s].store)
        /\ LastIndex(node'[s].store) \in Nat
        /\ \A i \in DOMAIN log : log[i].term \in Nat
    <3>1. PICK st : st = node'[s].store
      OBVIOUS
    <3>2. IsStore(st) /\ GapFree(st) /\ st.snapshot_index = 0
      BY <3>1 DEF CoreInv, MatchingInv, TypeOK, IsNode, LogInv, MatchInv, Uncompacted
    <3>3. Seg(LogOf(st), LastIndex(st))
      BY <3>2, LogSeg
    <3> QED
      BY <3>1, <3>3 DEF Seg, LogOf
  <2> QED
    BY <1>2, <1>4, <2>1 DEF Prefix, IsPoint
<1>6. PICK Q : Q = Acked(s, k)
  OBVIOUS
<1>7. PICK R : R = Acked(s, k)'
  OBVIOUS
<1>8. ASSUME NEW p \in R
      PROVE  p \in Server /\ (p \in Q \/ (/\ node'[p].currentTerm = T
                                          /\ Agree(L, node'[p].store.log_entries, k)))
  <2>1. /\ p \in Server
        /\ \/ p \in Acked(s, k)
           \/ /\ node'[p].currentTerm = T
              /\ Agree(node'[s].store.log_entries, node'[p].store.log_entries, k)
    BY <1>3, <1>5, <1>7, NewAck
  <2>2. ASSUME Agree(node'[s].store.log_entries, node'[p].store.log_entries, k)
        PROVE  Agree(L, node'[p].store.log_entries, k)
    BY <1>5, <2>2 DEF Agree, IsPoint
  <2> QED
    BY <1>6, <2>1, <2>2
<1>9. R \in SUBSET Server
  BY <1>8
<1>10. ASSUME NEW P, Blocked(P, T)' \/ Safe(P, L, k)',
              \A p \in R : p \in P \/ (/\ node'[p].currentTerm = T
                                       /\ Agree(L, node'[p].store.log_entries, k))
       PROVE  Blocked(R, T)' \/ Safe(R, L, k)'
  BY <1>5, <1>9, <1>10, BlockedGrows, SafeGrows
<1>11. Blocked(R, T)' \/ Safe(R, L, k)'
  <2>1. CASE /\ k \in DOMAIN node[s].store.log_entries
             /\ \A j \in 1..k : node'[s].store.log_entries[j]
                                    = node[s].store.log_entries[j]
    <3>1. L = Prefix(node[s].store.log_entries, k)
      BY <1>4, <2>1 DEF Prefix
    <3>2. node[s].store.log_entries[k].term = T
      BY <1>2, <1>5, <2>1
    <3>3. Blocked(Q, T) \/ Safe(Q, L, k)
      BY <1>2, <1>3, <1>6, <2>1, <3>1, <3>2 DEF SentInv, Leads
    <3>4. Q # {} /\ Q \in SUBSET Server
      BY <1>6 DEF Acked, Peers
    <3>5. Blocked(Q, T)' \/ Safe(Q, L, k)'
      <4>1. CASE Blocked(Q, T)
        BY <4>1, BlockedKept
      <4>2. CASE Safe(Q, L, k)
        BY <1>5, <3>4, <4>2, SafeKept
      <4> QED
        BY <3>3, <4>1, <4>2
    <3> QED
      BY <1>8, <1>10, <3>5
  <2>2. CASE k = LastIndex(node'[s].store) /\ k > LastIndex(node[s].store)
    <3>1. Blocked({s}, T)' \/ Safe({s}, L, k)'
      BY <1>2, <1>4, <2>2 DEF FreshRows
    <3>2. ASSUME NEW p \in Q PROVE p = s
      <4>1. LastIndex(node[s].store) \in Nat
        BY LastIndexType, RaftConstants DEF CoreInv, MatchingInv, TypeOK, IsNode, Index
      <4>2. CASE p \in Peers(s) /\ node[s].matchIndex[p] >= k
        <5>1. node[s].matchIndex[p] <= LastIndex(node[s].store)
          BY <1>3, <4>2 DEF CoreInv, MatchingInv, LogInv, PeersInv, Leads
        <5>2. node[s].matchIndex[p] \in Nat
          BY <4>2, RaftConstants DEF CoreInv, MatchingInv, TypeOK, IsNode, Index, Peers
        <5> QED
          BY <1>5, <2>2, <4>1, <4>2, <5>1, <5>2
      <4>3. ASSUME NEW r \in appendReps, r.lastSent >= k, r.src = s, r.term = T
            PROVE  FALSE
        <5>1. r.lastSent <= LastIndex(node[s].store)
          BY <1>3, <4>3 DEF CoreInv, MatchingInv, LogInv, AppendRepInv
        <5>2. r.lastSent \in Nat
          BY RaftConstants DEF CoreInv, MatchingInv, TypeOK, AppendReps, Index
        <5> QED
          BY <1>5, <2>2, <4>1, <4>3, <5>1, <5>2
      <4> QED
        BY <1>2, <1>6, <4>2, <4>3 DEF Acked
    <3>3. \A p \in R : p \in {s} \/ (/\ node'[p].currentTerm = T
                                     /\ Agree(L, node'[p].store.log_entries, k))
      BY <1>8, <3>2
    <3> QED
      BY <1>10, <3>1, <3>3
  <2>3. Leads(s, node[s].currentTerm)' /\ Leads(s, node[s].currentTerm)
    BY <1>2, <1>3 DEF Leads
  <2> QED
    BY <2>1, <2>2, <2>3, NewRow
<1> QED
  BY <1>2, <1>4, <1>7, <1>11

----------------------------------------------------------------------------
(* Rows that are committed and applied                                     *)

\* n becomes m: it applies the rows of its log that follow the last one it
\* applied, no further than commitIndex, or none.
Ran(n, m) ==
    LET log == m.store.log_entries
        new == (n.lastApplied + 1)..m.lastApplied
    IN  /\ m.lastApplied = m.store.last_applied
        /\ m.lastApplied >= n.lastApplied
        /\ m.lastApplied = n.lastApplied \/ m.lastApplied <= m.commitIndex
        /\ new \subseteq DOMAIN log
        /\ m.applied = n.applied \cup {[index |-> i, row |-> log[i]] : i \in new}
        /\ m.store.kv = IF m.lastApplied = n.lastApplied THEN n.store.kv
                        ELSE KvAfter(n.store.kv, log, new)
        /\ m.store.snapshot_data = n.store.snapshot_data

\* The state machine of m is that of n.
SameState(n, m) ==
    /\ m.lastApplied = n.lastApplied /\ m.applied = n.applied
    /\ m.store.last_applied = n.store.last_applied
    /\ m.store.kv = n.store.kv
    /\ m.store.snapshot_data = n.store.snapshot_data

\* lastApplied in memory and on disk are the same.
Durable(n) == n.lastApplied = n.store.last_applied

\* The methods that stand between committing a row and applying it: Entry and
\* ApplySet of applyCommittedLocked, and SnapshotIndexTerm, which Term calls
\* in advanceCommitLocked.
ApplyMethods == {"Entry", "ApplySet", "SnapshotIndexTerm"}

\* The store reads and applies every committed row.
NoLostApply == Fault \cap ApplyMethods = {}

\* n has applied all it takes for committed.
CaughtUp(n) == n.lastApplied >= n.commitIndex

\* Applying nothing is a special case,
LEMMA SameRan ==
    ASSUME NEW n, n.lastApplied \in Nat, Durable(n), NEW m, SameState(n, m)
    PROVE  Ran(n, m)
BY DEF Ran, SameState, Durable

\* ... and only the state machine matters.
LEMMA RanFrom ==
    ASSUME NEW n, NEW k, SameState(n, k), NEW m, Ran(k, m)
    PROVE  Ran(n, m)
<1>1. /\ k.lastApplied = n.lastApplied /\ k.applied = n.applied
      /\ k.store.kv = n.store.kv
      /\ k.store.snapshot_data = n.store.snapshot_data
  BY DEF SameState
<1> QED
  BY <1>1 DEF Ran

\* applyCommittedLocked of a node that has compacted nothing and never does.
LEMMA ApplyRuns ==
    ASSUME NoCompaction, NEW n, IsNode(n), NEW s \in Server, NEW f,
           n.store.snapshot_index = 0, Durable(n)
    PROVE  LET m == applyCommittedLocked(n, s, f)
           IN  /\ Ran(n, m) /\ m.commitIndex = n.commitIndex
               /\ (/\ f.method \notin ApplyMethods
                   /\ (n.lastApplied + 1)..n.commitIndex
                            \subseteq DOMAIN n.store.log_entries) => CaughtUp(m)
<1> DEFINE log  == n.store.log_entries
           skip == /\ f.method # "SnapshotIndexTerm"
                   /\ f # [method |-> "Entry", at |-> n.lastApplied + 1]
                   /\ n.lastApplied < n.commitIndex
                   /\ n.lastApplied + 1 \notin DOMAIN log
                   /\ n.lastApplied + 1 <= n.store.snapshot_index
           from == IF skip THEN n.store.snapshot_index ELSE n.lastApplied
           R    == {i \in (from + 1)..n.commitIndex :
                        (from + 1)..i \subseteq DOMAIN log}
           full == Max({from} \cup R)
           to   == IF f.method \in {"Entry", "ApplySet"} /\ f.at \in (from + 1)..full
                   THEN f.at - 1 ELSE full
           new  == {[index |-> i, row |-> log[i]] : i \in (from + 1)..to}
           done == [n EXCEPT
                      !.lastApplied = to,
                      !.store       = ApplySets(n.store, from, to),
                      !.applied     = n.applied \cup new]
<1>1. /\ n.lastApplied \in Nat /\ n.lastApplied \in Index /\ MaxIndex \in Nat
      /\ n.commitIndex \in Nat /\ n.commitIndex \in Index
  BY RaftConstants DEF IsNode, Index
<1>2. from = n.lastApplied
  BY <1>1
<1> HIDE DEF from
<1>3. full \in {from} \cup R
  <2>1. {from} \cup R \subseteq 0..MaxIndex
    BY <1>1, <1>2 DEF Index
  <2> HIDE DEF R
  <2> QED
    BY <1>1, <2>1, MaxExists
<1>13. ASSUME (from + 1)..n.commitIndex \subseteq DOMAIN log
       PROVE  full >= n.commitIndex
  <2>1. {from} \cup R \subseteq 0..MaxIndex
    BY <1>1, <1>2 DEF Index
  <2>2. n.commitIndex > from => n.commitIndex \in R
    BY <1>1, <1>2, <1>13
  <2>3. from \in {from} \cup R /\ (n.commitIndex > from => n.commitIndex \in {from} \cup R)
    BY <2>2
  <2> HIDE DEF R
  <2>4. \A i \in {from} \cup R : i <= full
    BY <1>1, <2>1, MaxExists
  <2>5. full \in Nat /\ from \in Nat
    BY <1>1, <1>2, <1>3, <2>1
  <2> HIDE DEF full
  <2> QED
    BY <1>1, <2>3, <2>4, <2>5
<1> HIDE DEF full
<1>4. /\ full \in Nat /\ full >= from /\ (from + 1)..full \subseteq DOMAIN log
      /\ full = from \/ full <= n.commitIndex
  <2> HIDE DEF log
  <2> QED
    BY <1>1, <1>2, <1>3
<1> HIDE DEF R
<1>5. /\ to \in Nat /\ to >= from /\ (from + 1)..to \subseteq DOMAIN log
      /\ to = from \/ to <= n.commitIndex
  <2>1. to \in from..full
    BY <1>1, <1>2, <1>4
  <2> HIDE DEF to, log
  <2> QED
    BY <1>1, <1>2, <1>4, <2>1
<1>14. ASSUME f.method \notin ApplyMethods,
              (n.lastApplied + 1)..n.commitIndex \subseteq DOMAIN log
       PROVE  to >= n.commitIndex
  BY <1>2, <1>13, <1>14 DEF ApplyMethods
<1>6. applyCommittedLocked(n, s, f) =
        IF to < n.commitIndex THEN done ELSE compactIfNeededLocked(done, s, f)
  BY DEF applyCommittedLocked, full, from, R
<1>7. compactIfNeededLocked(done, s, f) = done
  BY DEF compactIfNeededLocked, NoCompaction
<1>8. applyCommittedLocked(n, s, f) = done
  BY <1>6, <1>7
<1> HIDE DEF to, new
<1>9. /\ done.lastApplied = to /\ done.store = ApplySets(n.store, from, to)
      /\ done.applied = n.applied \cup new /\ done.commitIndex = n.commitIndex
  BY DEF IsNode
<1> HIDE DEF done
<1>10. LET st == ApplySets(n.store, from, to)
       IN  /\ st.log_entries = n.store.log_entries
           /\ st.last_applied = to
           /\ st.kv = IF to = from THEN n.store.kv
                      ELSE KvAfter(n.store.kv, log, (from + 1)..to)
           /\ st.snapshot_data = n.store.snapshot_data
  BY <1>2 DEF ApplySets, IsNode, IsStore, Durable
<1>11. /\ done.store.log_entries = log /\ done.store.last_applied = to
       /\ done.store.kv = IF to = from THEN n.store.kv
                          ELSE KvAfter(n.store.kv, log, (from + 1)..to)
       /\ done.store.snapshot_data = n.store.snapshot_data
  BY <1>9, <1>10
<1>12. Ran(n, done)
  BY <1>2, <1>5, <1>9, <1>11 DEF Ran, new
<1> QED
  BY <1>8, <1>9, <1>12, <1>14 DEF CaughtUp

\* A node with another commitIndex is the same otherwise.
LEMMA CommitSet ==
    ASSUME NEW n, IsNode(n), NEW c \in Index
    PROVE  LET k == [n EXCEPT !.commitIndex = c]
           IN  /\ IsNode(k) /\ SameState(n, k) /\ k.store = n.store
               /\ k.commitIndex = c /\ (Durable(n) => Durable(k))
BY DEF IsNode, SameState, Durable

\* Rows up to a commitIndex that was reached already, or is within the log.
LEMMA CommittedRows ==
    ASSUME NEW n, IsNode(n), n.store.snapshot_index = 0, GapFree(n.store),
           CaughtUp(n), NEW c \in Index,
           c = n.commitIndex \/ c <= LastIndex(n.store)
    PROVE  (n.lastApplied + 1)..c \subseteq DOMAIN n.store.log_entries
<1>1. n.commitIndex \in Nat /\ n.lastApplied \in Nat /\ c \in Nat
  BY RaftConstants DEF IsNode, Index
<1>2. DOMAIN n.store.log_entries = 1..LastIndex(n.store) /\ LastIndex(n.store) \in Nat
  BY LastIndexType, RaftConstants DEF IsNode, GapFree, Index
<1> QED
  BY <1>1, <1>2 DEF CaughtUp

\* The leader's commit: rows of its term that a majority has.
LEMMA AdvanceRuns ==
    ASSUME NoCompaction, NEW n, IsNode(n), NEW s \in Server, NEW f,
           n.store.snapshot_index = 0, GapFree(n.store), Durable(n)
    PROVE  LET m == advanceCommitLocked(n, s, f)
           IN  /\ Ran(n, m)
               /\ m.commitIndex = n.commitIndex \/ m.commitIndex \in Committable(n, s)
               /\ f.method \notin ApplyMethods /\ CaughtUp(n) => CaughtUp(m)
<1> DEFINE r == advanceCommitLocked(n, s, f)
<1>1. PICK c \in Index :
            LET k == [n EXCEPT !.commitIndex = c]
            IN  /\ c = n.commitIndex \/ c \in Committable(n, s)
                /\ \/ r = n
                   \/ r = k /\ f.method = "SnapshotIndexTerm"
                   \/ r = applyCommittedLocked(k, s, f)
  BY AdvanceCommitForm, Zenon
<1> DEFINE k == [n EXCEPT !.commitIndex = c]
           m == applyCommittedLocked(k, s, f)
<1>2. /\ c = n.commitIndex \/ c \in Committable(n, s)
      /\ r = n \/ (r = k /\ f.method \in ApplyMethods) \/ r = m
  BY <1>1 DEF ApplyMethods
<1>3. Ran(n, n)
  <2>1. n.lastApplied \in Nat
    BY RaftConstants DEF IsNode, Index
  <2> QED
    BY <2>1, SameRan DEF SameState
<1> HIDE DEF r
<1>4. /\ IsNode(k) /\ SameState(n, k) /\ k.store = n.store
      /\ k.commitIndex = c /\ Durable(k)
  BY CommitSet
<1> HIDE DEF k
<1>5. /\ Ran(k, m) /\ m.commitIndex = k.commitIndex
      /\ (/\ f.method \notin ApplyMethods
          /\ (k.lastApplied + 1)..k.commitIndex
                    \subseteq DOMAIN k.store.log_entries) => CaughtUp(m)
  BY <1>4, ApplyRuns
<1> HIDE DEF m
<1>6. Ran(n, m)
  BY <1>4, <1>5, RanFrom
<1>7. ASSUME CaughtUp(n)
      PROVE  (k.lastApplied + 1)..k.commitIndex \subseteq DOMAIN k.store.log_entries
  <2>1. k.lastApplied = n.lastApplied
    BY <1>4 DEF SameState
  <2>2. c = n.commitIndex \/ c <= LastIndex(n.store)
    BY <1>2 DEF Committable
  <2>3. n.commitIndex \in Nat /\ n.lastApplied \in Nat
    BY RaftConstants DEF IsNode, Index
  <2> QED
    BY <1>4, <1>7, <2>1, <2>2, <2>3, CommittedRows
<1>8. Ran(n, k)
  <2>1. n.lastApplied \in Nat
    BY RaftConstants DEF IsNode, Index
  <2> QED
    BY <1>4, <2>1, SameRan
<1> QED
  BY <1>2, <1>3, <1>4, <1>5, <1>6, <1>7, <1>8 DEF r

\* The follower's commit: what its leader says, as far as its log goes.
LEMMA FollowRuns ==
    ASSUME NoCompaction, NEW n, IsNode(n), NEW s \in Server, NEW q,
           IsAppendReq(q), NEW f, n.store.snapshot_index = 0, GapFree(n.store),
           Durable(n)
    PROVE  LET m == FollowCommit(n, s, q, f)
           IN  /\ Ran(n, m)
               /\ \/ m.commitIndex = n.commitIndex
                  \/ /\ m.commitIndex <= q.leaderCommit
                     /\ \/ m.commitIndex >= n.commitIndex
                        \/ m.commitIndex = LastIndex(n.store)
               /\ f.method \notin ApplyMethods /\ CaughtUp(n) => CaughtUp(m)
<1> DEFINE c == Min({q.leaderCommit, LastIndex(n.store)})
           k == [n EXCEPT !.commitIndex = c]
           m == applyCommittedLocked(k, s, f)
<1>1. /\ c \in Index /\ c <= q.leaderCommit
      /\ c = q.leaderCommit \/ c = LastIndex(n.store)
  <2>1. q.leaderCommit \in Index /\ LastIndex(n.store) \in Index
    BY LastIndexType DEF IsNode, IsAppendReq
  <2>2. MaxIndex \in Nat /\ {q.leaderCommit, LastIndex(n.store)} \subseteq 0..MaxIndex
    BY <2>1, RaftConstants DEF Index
  <2> QED
    BY <2>1, <2>2, MinExists
<1>2. \/ FollowCommit(n, s, q, f) = n
      \/ FollowCommit(n, s, q, f) = m /\ q.leaderCommit > n.commitIndex
  BY DEF FollowCommit
<1>7. q.leaderCommit \in Nat /\ n.commitIndex \in Nat
  BY RaftConstants DEF IsNode, IsAppendReq, Index
<1>3. Ran(n, n)
  <2>1. n.lastApplied \in Nat
    BY RaftConstants DEF IsNode, Index
  <2> QED
    BY <2>1, SameRan DEF SameState
<1> HIDE DEF c
<1>4. /\ IsNode(k) /\ SameState(n, k) /\ k.store = n.store
      /\ k.commitIndex = c /\ Durable(k)
  BY <1>1, CommitSet
<1> HIDE DEF k
<1>5. /\ Ran(k, m) /\ m.commitIndex = k.commitIndex
      /\ (/\ f.method \notin ApplyMethods
          /\ (k.lastApplied + 1)..k.commitIndex
                    \subseteq DOMAIN k.store.log_entries) => CaughtUp(m)
  BY <1>4, ApplyRuns
<1> HIDE DEF m
<1>6. Ran(n, m)
  BY <1>4, <1>5, RanFrom
<1>8. ASSUME CaughtUp(n)
      PROVE  (k.lastApplied + 1)..k.commitIndex \subseteq DOMAIN k.store.log_entries
  <2>1. k.lastApplied = n.lastApplied
    BY <1>4 DEF SameState
  <2>2. c <= LastIndex(n.store)
    BY MinExists, LastIndexType, RaftConstants DEF IsNode, IsAppendReq, Index, c
  <2> QED
    BY <1>1, <1>4, <1>8, <2>1, <2>2, CommittedRows
<1> QED
  BY <1>1, <1>2, <1>3, <1>4, <1>5, <1>6, <1>7, <1>8

----------------------------------------------------------------------------
(* Steps, seen by the state machine                                        *)

\* Nothing is committed or applied.
Pauses(n, m) == SameState(n, m) /\ m.commitIndex = n.commitIndex

\* Leader s counts itself and the peers that have its row at i, of its term.
CountsTo(m, s, i) ==
    /\ m.role = "leader" /\ i \in DOMAIN m.store.log_entries
    /\ m.store.log_entries[i].term = m.currentTerm
    /\ 1 + Cardinality(MatchedBy(m, s, i)) >= Majority

\* A follower that has merged request q learns from it what is committed.
Adopts(q, m) == /\ \E st : Merges(q, m, st)
                /\ LastSent(q) <= LastIndex(m.store)
                /\ m.commitIndex <= q.leaderCommit

\* s, from n to m, applies rows; what is committed stays, is what is applied
\* (after a restart), or is learnt; and all that is committed is applied, if
\* nothing fails.
CommitMove(n, m, s) ==
    /\ Ran(n, m)
    /\ NoLostApply /\ CaughtUp(n) => CaughtUp(m)
    /\ \/ m.commitIndex = n.commitIndex
       \/ m.commitIndex = n.lastApplied
       \/ m.commitIndex >= n.commitIndex /\ CountsTo(m, s, m.commitIndex)
       \/ /\ \E q \in appendReqs : q.dst = s /\ Adopts(q, m)
          /\ \/ m.commitIndex >= n.commitIndex
             \/ m.commitIndex = LastIndex(m.store)

CommitsMove == \A s \in Server : CommitMove(node[s], node'[s], s)

\* A node that pauses makes such a move,
LEMMA PausesMove ==
    ASSUME NEW n, IsNode(n), Durable(n), NEW m, Pauses(n, m), NEW s
    PROVE  CommitMove(n, m, s)
<1>1. n.lastApplied \in Nat
  BY RaftConstants DEF IsNode, Index
<1>2. CaughtUp(n) => CaughtUp(m)
  BY DEF CaughtUp, Pauses, SameState
<1> QED
  BY <1>1, <1>2, SameRan DEF CommitMove, Pauses

\* ... and pausing twice is pausing.
LEMMA PausesTwice ==
    ASSUME NEW n, NEW m, NEW k, Pauses(n, m), Pauses(m, k)
    PROVE  Pauses(n, k)
BY DEF Pauses, SameState

\* All make such a move if one does and the others stay.
LEMMA TurnCommits ==
    ASSUME TypeOK, LastAppliedIsDurable, NEW s \in Server, NEW m,
           node' = [node EXCEPT ![s] = m], CommitMove(node[s], m, s)
    PROVE  CommitsMove
<1> SUFFICES ASSUME NEW t \in Server PROVE CommitMove(node[t], node'[t], t)
  BY DEF CommitsMove
<1>1. node'[t] = IF t = s THEN m ELSE node[t]
  BY DEF TypeOK
<1>2. CASE t = s
  BY <1>1, <1>2
<1>3. CASE t # s
  <2>1. IsNode(node[t]) /\ Durable(node[t])
    BY DEF TypeOK, LastAppliedIsDurable, Durable
  <2>2. Pauses(node[t], node[t])
    BY DEF Pauses, SameState
  <2> QED
    BY <1>1, <1>3, <2>1, <2>2, PausesMove
<1> QED
  BY <1>2, <1>3

\* A turn that is a pause.
LEMMA PausesTurn ==
    ASSUME TypeOK, LastAppliedIsDurable, NEW s \in Server, NEW m,
           node' = [node EXCEPT ![s] = m], Pauses(node[s], m)
    PROVE  CommitsMove
<1>1. IsNode(node[s]) /\ Durable(node[s])
  BY DEF TypeOK, LastAppliedIsDurable, Durable
<1> QED
  BY <1>1, PausesMove, TurnCommits

\* Nobody moves.
LEMMA PausesAll ==
    ASSUME TypeOK, LastAppliedIsDurable, node' = node
    PROVE  CommitsMove
<1> SUFFICES ASSUME NEW t \in Server PROVE CommitMove(node[t], node'[t], t)
  BY DEF CommitsMove
<1>1. IsNode(node[t]) /\ Durable(node[t])
  BY DEF TypeOK, LastAppliedIsDurable, Durable
<1>2. Pauses(node[t], node[t])
  BY DEF Pauses, SameState
<1> QED
  BY <1>1, <1>2, PausesMove

\* Saving terms and votes is no more than a pause,
LEMMA SavePauses ==
    ASSUME NEW n, IsNode(n), NEW term, NEW v
    PROVE  LET st == SaveTermVote(n.store, term, v)
           IN  /\ st.last_applied = n.store.last_applied
               /\ st.kv = n.store.kv /\ st.snapshot_data = n.store.snapshot_data
BY DEF IsNode, IsStore, SaveTermVote

\* ... and so are stepping down,
LEMMA StepDownPauses ==
    ASSUME NEW n, IsNode(n), NEW term, NEW leader, NEW f
    PROVE  Pauses(n, stepDownLocked(n, term, leader, f))
<1> DEFINE st == IF term > n.currentTerm /\ f.method # "SaveTermVote"
                 THEN SaveTermVote(n.store, term, Nobody) ELSE n.store
           m == stepDownLocked(n, term, leader, f)
<1>1. /\ st.last_applied = n.store.last_applied
      /\ st.kv = n.store.kv /\ st.snapshot_data = n.store.snapshot_data
  BY SavePauses
<1>2. /\ m.store = st /\ m.commitIndex = n.commitIndex
      /\ m.lastApplied = n.lastApplied /\ m.applied = n.applied
  BY DEF IsNode, stepDownLocked
<1> HIDE DEF st, m
<1> QED
  BY <1>1, <1>2 DEF Pauses, SameState, m

\* ... seeing a candidate's request,
LEMMA SeenByVoterPauses ==
    ASSUME NEW n, IsNode(n), NEW q, NEW f
    PROVE  Pauses(n, SeenByVoter(n, q, f))
<1>1. Pauses(n, n)
  BY DEF Pauses, SameState
<1> QED
  BY <1>1, StepDownPauses DEF SeenByVoter

\* ... seeing a leader's,
LEMMA SeenByFollowerPauses ==
    ASSUME NEW n, IsNode(n), NEW q, q.src \in Server, q.term \in Nat, NEW f
    PROVE  Pauses(n, SeenByFollower(n, q, f))
<1> DEFINE k == stepDownLocked(n, q.term, q.src, f)
           m == IF q.term > n.currentTerm \/ n.role # "follower" THEN k ELSE n
           x == [m EXCEPT !.leaderID = q.src]
<1>1. IsNode(k) /\ Pauses(n, k)
  BY StepDownType, StepDownPauses DEF Ids
<1>2. IsNode(m) /\ Pauses(n, m)
  <2>1. Pauses(n, n)
    BY DEF Pauses, SameState
  <2> QED
    BY <1>1, <2>1
<1>3. SeenByFollower(n, q, f) = x
  BY DEF SeenByFollower
<1> HIDE DEF m
<1>4. Pauses(m, x)
  BY <1>2 DEF IsNode, Pauses, SameState
<1> HIDE DEF x
<1> QED
  BY <1>2, <1>3, <1>4, PausesTwice

\* ... standing for a term, voting, counting votes,
LEMMA VotePauses ==
    ASSUME NEW n, IsNode(n), NEW v, NEW u, NEW w, NEW term, NEW s \in Server
    PROVE  /\ Pauses(n, Campaign(n, s))
           /\ Pauses(n, [n EXCEPT !.votedFor = v])
           /\ Pauses(n, [n EXCEPT !.votedFor = v,
                                 !.store = SaveTermVote(@, term, w)])
           /\ Pauses(n, [n EXCEPT !.votes = u])
           /\ Pauses(n, [n EXCEPT !.votes = u,
                                 !.store = SaveTermVote(@, term, w)])
           /\ Pauses(n, [n EXCEPT !.votes = u, !.store = @])
<1> DEFINE st == SaveTermVote(n.store, term, w)
<1>1. /\ st.last_applied = n.store.last_applied
      /\ st.kv = n.store.kv /\ st.snapshot_data = n.store.snapshot_data
  BY SavePauses
<1> HIDE DEF st
<1>2. /\ Pauses(n, [n EXCEPT !.votedFor = v, !.store = st])
      /\ Pauses(n, [n EXCEPT !.votes = u, !.store = st])
  BY <1>1 DEF Pauses, SameState, IsNode
<1>3. /\ Pauses(n, Campaign(n, s))
      /\ Pauses(n, [n EXCEPT !.votedFor = v]) /\ Pauses(n, [n EXCEPT !.votes = u])
      /\ Pauses(n, [n EXCEPT !.votes = u, !.store = @])
  BY DEF Pauses, SameState, IsNode, Campaign
<1> QED
  BY <1>2, <1>3 DEF st

\* ... and winning.
LEMMA WinPauses ==
    ASSUME NEW n, IsNode(n), NEW s \in Server, NEW f
    PROVE  Pauses(n, becomeLeaderLocked(n, s, f))
BY DEF becomeLeaderLocked, IsNode, Pauses, SameState

\* Elections commit and apply nothing.
LEMMA ElectionCommits ==
    ASSUME TypeOK, ElectionInv, LastAppliedIsDurable, ElectionStep
    PROVE  CommitsMove
<1>1. ASSUME NEW s \in Server, StartElection(s)
      PROVE  CommitsMove
  <2> DEFINE n == Campaign(node[s], s)
             m == [n EXCEPT !.votes = {s},
                            !.store = SaveTermVote(@, n.currentTerm, s)]
  <2>1. node' = [node EXCEPT ![s] = m]
    BY <1>1 DEF StartElection
  <2>2. IsNode(n) /\ Pauses(node[s], n)
    BY NodeFacts, CampaignType, VotePauses
  <2> HIDE DEF n
  <2>3. Pauses(n, m)
    BY <2>2, VotePauses
  <2> HIDE DEF m
  <2> QED
    BY <2>1, <2>2, <2>3, PausesTwice, PausesTurn
<1>2. ASSUME NEW s \in Server, NEW f \in Faults, StartElectionError(s, f)
      PROVE  CommitsMove
  <2> DEFINE n == Campaign(node[s], s)
             m == [n EXCEPT !.votes = {},
                            !.store = IF f.method = "SaveTermVote" THEN @
                                      ELSE SaveTermVote(@, n.currentTerm, s)]
  <2>1. node' = [node EXCEPT ![s] = m]
    BY <1>2 DEF StartElectionError
  <2>2. IsNode(n) /\ Pauses(node[s], n)
    BY NodeFacts, CampaignType, VotePauses
  <2> HIDE DEF n
  <2>3. Pauses(n, m)
    BY <2>2, VotePauses
  <2> HIDE DEF m
  <2> QED
    BY <2>1, <2>2, <2>3, PausesTwice, PausesTurn
<1>3. ASSUME NEW s \in Server, WinAlone(s)
      PROVE  CommitsMove
  BY <1>3, NodeFacts, WinPauses, PausesTurn DEF WinAlone
<1>4. ASSUME NEW q \in voteReqs
      PROVE  q.src \in Server /\ q.dst \in Server /\ q.term \in Nat
  BY DEF TypeOK, VoteReqs
<1>5. ASSUME NEW q \in voteReqs, NEW f
      PROVE  LET n == SeenByVoter(node[q.dst], q, f)
             IN  IsNode(n) /\ Pauses(node[q.dst], n)
  BY <1>4, NodeFacts, SeenByVoterType, SeenByVoterPauses
<1>6. ASSUME NEW q \in voteReqs, RequestVoteStale(q)
      PROVE  CommitsMove
  BY <1>6, PausesAll DEF RequestVoteStale
<1>7. ASSUME NEW q \in voteReqs, RequestVoteGranted(q)
      PROVE  CommitsMove
  <2> DEFINE n == SeenByVoter(node[q.dst], q, NoFault)
             m == [n EXCEPT !.votedFor = q.src,
                            !.store = SaveTermVote(@, n.currentTerm, q.src)]
  <2>1. node' = [node EXCEPT ![q.dst] = m]
    BY <1>7 DEF RequestVoteGranted
  <2>2. IsNode(n) /\ Pauses(node[q.dst], n)
    BY <1>5
  <2> HIDE DEF n
  <2>3. Pauses(n, m)
    BY <1>4, <2>2, VotePauses
  <2> HIDE DEF m
  <2> QED
    BY <1>4, <2>1, <2>2, <2>3, PausesTwice, PausesTurn
<1>8. ASSUME NEW q \in voteReqs, NEW f \in Faults, RequestVoteRejected(q, f)
      PROVE  CommitsMove
  BY <1>4, <1>5, <1>8, PausesTurn DEF RequestVoteRejected
<1>9. ASSUME NEW q \in voteReqs, NEW f \in Faults, RequestVoteError(q, f)
      PROVE  CommitsMove
  <2>0. PICK g \in {f, NoFault} :
            LET n == SeenByVoter(node[q.dst], q, g)
            IN  \/ node' = [node EXCEPT ![q.dst] = n]
                \/ node' = [node EXCEPT ![q.dst] = [n EXCEPT !.votedFor = q.src]]
    BY <1>9 DEF RequestVoteError
  <2> DEFINE n == SeenByVoter(node[q.dst], q, g)
             m == [n EXCEPT !.votedFor = q.src]
  <2>1. node' \in {[node EXCEPT ![q.dst] = n], [node EXCEPT ![q.dst] = m]}
    BY <1>9, <2>0 DEF RequestVoteError
  <2>2. IsNode(n) /\ Pauses(node[q.dst], n)
    BY <1>5
  <2> HIDE DEF n
  <2>3. Pauses(n, m)
    BY <1>4, <2>2, VotePauses
  <2> HIDE DEF m
  <2> QED
    BY <1>4, <2>1, <2>2, <2>3, PausesTwice, PausesTurn
<1>10. ASSUME NEW r \in voteReps
       PROVE  r.src \in Server /\ r.dst \in Server
  BY DEF TypeOK, VoteReps
<1>11. ASSUME NEW r \in voteReps, NEW f \in Faults, VoteReplyStepDown(r, f)
       PROVE  CommitsMove
  BY <1>10, <1>11, NodeFacts, StepDownPauses, PausesTurn DEF VoteReplyStepDown
<1>12. ASSUME NEW r \in voteReps, NEW f \in Faults, VoteReplyCounted(r, f)
       PROVE  CommitsMove
  <2> DEFINE s == r.src
             n == [node[s] EXCEPT !.votes = @ \cup {r.dst}]
             won == Cardinality(n.votes) >= Majority
             m == IF won THEN becomeLeaderLocked(n, s, f) ELSE n
  <2>1. s \in Server /\ r.dst \in Server /\ IsNode(node[s])
    BY <1>10, NodeFacts
  <2>2. IsNode(n) /\ Pauses(node[s], n)
    <3> HIDE DEF s
    <3>1. IsNode(n)
      BY <2>1 DEF IsNode
    <3>2. Pauses(node[s], n)
      BY <2>1, VotePauses
    <3> QED
      BY <3>1, <3>2
  <2>3. node' = [node EXCEPT ![s] = m]
    BY <1>12 DEF VoteReplyCounted
  <2> HIDE DEF won, n, s
  <2>4. Pauses(n, m)
    <3>1. Pauses(n, n)
      BY DEF Pauses, SameState
    <3> QED
      BY <2>1, <2>2, <3>1, WinPauses
  <2> HIDE DEF m
  <2> QED
    BY <2>1, <2>2, <2>3, <2>4, PausesTwice, PausesTurn
<1> QED
  BY <1>1, <1>2, <1>3, <1>6, <1>7, <1>8, <1>9, <1>11, <1>12 DEF ElectionStep

----------------------------------------------------------------------------
\* A leader that looks for rows to commit.
LEMMA AdvanceCommits ==
    ASSUME NoCompaction, NEW n, IsNode(n), NEW s \in Server, NEW f \in Faults,
           n.store.snapshot_index = 0, GapFree(n.store), Durable(n),
           n.role = "leader"
    PROVE  CommitMove(n, advanceCommitLocked(n, s, f), s)
<1> DEFINE m == advanceCommitLocked(n, s, f)
<1>1. /\ Ran(n, m)
      /\ m.commitIndex = n.commitIndex \/ m.commitIndex \in Committable(n, s)
      /\ f.method \notin ApplyMethods /\ CaughtUp(n) => CaughtUp(m)
  BY AdvanceRuns
<1>2. /\ SameLog(n.store, m.store) /\ m.role = n.role
      /\ m.currentTerm = n.currentTerm /\ m.matchIndex = n.matchIndex
  BY AdvanceRest, RestSame
<1> HIDE DEF m
<1>3. ASSUME m.commitIndex \in Committable(n, s)
      PROVE  m.commitIndex >= n.commitIndex /\ CountsTo(m, s, m.commitIndex)
  <2> DEFINE i == m.commitIndex
  <2>1. /\ i \in (n.commitIndex + 1)..LastIndex(n.store) /\ HasTerm(n.store, i)
        /\ TermAt(n.store, i) = n.currentTerm
        /\ 1 + Cardinality(MatchedBy(n, s, i)) >= Majority
    BY <1>3 DEF Committable
  <2>2. n.commitIndex \in Nat /\ LastIndex(n.store) \in Nat
    BY LastIndexType, RaftConstants DEF IsNode, Index
  <2> HIDE DEF i
  <2>3. i \in Nat /\ i # 0 /\ i >= n.commitIndex
    BY <2>1, <2>2
  <2>4. i \in DOMAIN n.store.log_entries
        /\ n.store.log_entries[i].term = n.currentTerm
    BY <2>1, <2>3, TermOfRow
  <2>5. MatchedBy(m, s, i) = MatchedBy(n, s, i)
    BY <1>2 DEF MatchedBy
  <2> QED
    BY <1>2, <2>1, <2>3, <2>4, <2>5 DEF CountsTo, SameLog, i
<1>4. NoLostApply => f.method \notin ApplyMethods
  BY DEF NoLostApply, Faults, NoFault, ApplyMethods
<1> QED
  BY <1>1, <1>3, <1>4 DEF CommitMove, m

\* Such a move from a node that only paused is a move.
LEMMA MoveFrom ==
    ASSUME NEW n, NEW k, Pauses(n, k), NEW m, NEW s, CommitMove(k, m, s)
    PROVE  CommitMove(n, m, s)
<1>1. SameState(n, k) /\ k.commitIndex = n.commitIndex /\ k.lastApplied = n.lastApplied
  BY DEF Pauses, SameState
<1>2. CaughtUp(n) <=> CaughtUp(k)
  BY <1>1 DEF CaughtUp
<1> QED
  BY <1>1, <1>2, RanFrom DEF CommitMove

\* What a leader learns of a peer is not applied,
LEMMA LearntPauses ==
    ASSUME NEW n, IsNode(n), NEW p \in Server, NEW match
    PROVE  Pauses(n, Learnt(n, p, match))
BY DEF Learnt, IsNode, Pauses, SameState

\* ... nor is the row of a client.
LEMMA AppendPauses ==
    ASSUME NEW n, IsNode(n), NEW rows, NEW s, NEW index
    PROVE  Pauses(n, [n EXCEPT !.store = AppendEntries(@, rows),
                               !.matchIndex[s] = index])
<1> DEFINE st == AppendEntries(n.store, rows)
           m == [n EXCEPT !.store = st, !.matchIndex[s] = index]
<1>1. /\ st.last_applied = n.store.last_applied
      /\ st.kv = n.store.kv /\ st.snapshot_data = n.store.snapshot_data
  BY DEF IsNode, IsStore, AppendEntries
<1> HIDE DEF st
<1>2. Pauses(n, m)
  BY <1>1 DEF IsNode, Pauses, SameState
<1> QED
  BY <1>2 DEF st

\* Leaders commit what a majority has.
LEMMA LeaderCommits ==
    ASSUME NoCompaction, TypeOK, ElectionInv, LogInv, Uncompacted,
           LastAppliedIsDurable, LeaderStep
    PROVE  CommitsMove
<1>1. ASSUME NEW s \in Server
      PROVE  /\ IsNode(node[s]) /\ node[s].store.snapshot_index = 0
             /\ Durable(node[s]) /\ GapFree(node[s].store)
  BY NodeFacts DEF Uncompacted, LastAppliedIsDurable, Durable, LogInv
<1>2. ASSUME NEW r \in appendReps
      PROVE  r.src \in Server /\ r.dst \in Server /\ r \in AppendReps
  BY DEF TypeOK, AppendReps
<1>3. ASSUME NEW r \in appendReps, NEW f \in Faults, AppendReplyStepDown(r, f)
      PROVE  CommitsMove
  BY <1>1, <1>2, <1>3, StepDownPauses, PausesTurn DEF AppendReplyStepDown
<1>4. ASSUME NEW r \in appendReps, NEW f \in Faults, AppendReplySuccess(r, f)
      PROVE  CommitsMove
  <2> DEFINE s == r.src
             n == node[s]
             match == Max({r.matchIndex, r.lastSent, n.matchIndex[r.dst]})
             k == Learnt(n, r.dst, match)
             m == advanceCommitLocked(k, s, f)
  <2>1. n.role = "leader" /\ node' = [node EXCEPT ![s] = m]
    BY <1>4 DEF AppendReplySuccess, SameLeadership, Learnt
  <2>2. IsNode(k)
    BY <1>1, <1>2, MatchedNodeType DEF Learnt
  <2>3. /\ IsNode(n) /\ s \in Server /\ r.dst \in Server
        /\ n.store.snapshot_index = 0 /\ Durable(n) /\ GapFree(n.store)
    BY <1>1, <1>2
  <2> HIDE DEF n, match, s
  <2>4. k.store = n.store /\ k.role = n.role /\ Pauses(n, k)
    BY <2>3, LearntCalm, LearntPauses
  <2> HIDE DEF k
  <2>5. Durable(k)
    BY <2>3, <2>4 DEF Durable, Pauses, SameState
  <2>6. CommitMove(k, m, s)
    BY <2>1, <2>2, <2>3, <2>4, <2>5, AdvanceCommits
  <2> HIDE DEF m
  <2>7. CommitMove(n, m, s)
    BY <2>4, <2>6, MoveFrom
  <2> QED
    BY <2>1, <2>3, <2>7, TurnCommits DEF n
<1>5. ASSUME NEW r \in appendReps, AppendReplyFailure(r)
      PROVE  CommitsMove
  <2> DEFINE s == r.src
             n == node[s]
             x == n.nextIndex[r.dst]
             y == IF x > 1 THEN x - 1 ELSE x
             k == [n EXCEPT !.nextIndex[r.dst] = y]
  <2>1. node' = [node EXCEPT ![s] = k]
    BY <1>5 DEF AppendReplyFailure
  <2>2. IsNode(n) /\ s \in Server
    BY <1>1, <1>2
  <2> HIDE DEF n, s, y
  <2>3. Pauses(n, k)
    BY <2>2 DEF IsNode, Pauses, SameState
  <2> HIDE DEF k
  <2> QED
    BY <2>1, <2>2, <2>3, PausesTurn DEF n
<1>6. ASSUME NEW s \in Server, NEW cmd \in Command, NEW f \in Faults,
             Write(s, cmd, f)
      PROVE  CommitsMove
  <2> DEFINE n == node[s]
             index == LastIndex(n.store) + 1
             row == [term |-> n.currentTerm, cmd |-> cmd]
             rows == [i \in {index} |-> row]
             k == [n EXCEPT !.store = AppendEntries(@, rows),
                            !.matchIndex[s] = index]
             m == IF Majority = 1 THEN advanceCommitLocked(k, s, f) ELSE k
  <2>1. node' = [node EXCEPT ![s] = m] /\ index <= MaxIndex /\ n.role = "leader"
    BY <1>6 DEF Write
  <2>2. IsNode(n) /\ n.store.snapshot_index = 0 /\ Durable(n) /\ GapFree(n.store)
    BY <1>1
  <2>3. IsNode(k)
    BY <2>1, <2>2, WrittenNodeType
  <2>9. GapFree(AppendEntries(n.store, rows))
    <3>1. IsStore(n.store) /\ row \in Row
      BY <2>2 DEF IsNode, Row
    <3> QED
      BY <2>1, <2>2, <3>1, WrittenGapFree
  <2> HIDE DEF n, rows, index
  <2>4. Pauses(n, k)
    BY <2>2, AppendPauses
  <2>5. /\ k.role = n.role /\ k.store.snapshot_index = n.store.snapshot_index
        /\ GapFree(k.store)
    <3>1. k.role = n.role /\ k.store = AppendEntries(n.store, rows)
      BY <2>2 DEF IsNode
    <3>2. AppendEntries(n.store, rows).snapshot_index = n.store.snapshot_index
      BY <2>2 DEF IsNode, IsStore, AppendEntries
    <3> QED
      BY <2>9, <3>1, <3>2
  <2> HIDE DEF k
  <2>6. Durable(k)
    BY <2>2, <2>4 DEF Durable, Pauses, SameState
  <2>7. CommitMove(k, m, s)
    <3>1. CommitMove(k, advanceCommitLocked(k, s, f), s)
      BY <2>1, <2>2, <2>3, <2>5, <2>6, AdvanceCommits
    <3>2. CommitMove(k, k, s)
      <4>1. Pauses(k, k)
        BY DEF Pauses, SameState
      <4> QED
        BY <2>3, <2>6, <4>1, PausesMove
    <3> QED
      BY <3>1, <3>2
  <2> HIDE DEF m
  <2>8. CommitMove(n, m, s)
    BY <2>4, <2>7, MoveFrom
  <2> QED
    BY <2>1, <2>8, TurnCommits DEF n
<1>7. snapReps = {}
  BY DEF Uncompacted
<1> QED
  BY <1>3, <1>4, <1>5, <1>6, <1>7, PausesAll
     DEF LeaderStep, SendAppend, SendSnapshot

\* Timeouts and losses concern no node; a node that restarts takes for
\* committed what it has applied.
LEMMA MisfortuneCommits ==
    ASSUME TypeOK, LastAppliedIsDurable, Misfortune
    PROVE  CommitsMove
<1>1. ASSUME NEW s \in Unstable, Restart(s)
      PROVE  CommitsMove
  <2> DEFINE st == node[s].store
             m == [role        |-> "follower",
                   currentTerm |-> st.current_term,
                   votedFor    |-> st.voted_for,
                   leaderID    |-> Nobody,
                   commitIndex |-> st.last_applied,
                   lastApplied |-> st.last_applied,
                   nextIndex   |-> [p \in Server |-> 0],
                   matchIndex  |-> [p \in Server |-> 0],
                   votes       |-> {},
                   store       |-> st,
                   applied     |-> node[s].applied]
  <2>1. node' = [node EXCEPT ![s] = m]
    BY <1>1 DEF Restart
  <2>2. s \in Server /\ node[s].lastApplied = st.last_applied
    BY RaftConstants DEF LastAppliedIsDurable
  <2>3. /\ m.commitIndex = node[s].lastApplied /\ SameState(node[s], m)
    BY <2>2 DEF SameState
  <2> HIDE DEF m
  <2>4. node[s].lastApplied \in Nat
    BY <2>2, RaftConstants DEF TypeOK, IsNode, Index
  <2>6. CaughtUp(m)
    BY <2>3, <2>4 DEF CaughtUp, SameState
  <2>5. CommitMove(node[s], m, s)
    BY <2>2, <2>3, <2>4, <2>6, SameRan DEF CommitMove, Durable
  <2> QED
    BY <2>1, <2>2, <2>5, TurnCommits
<1> QED
  BY <1>1, PausesAll DEF Misfortune, AppendTimeout, AppendReplyLost,
                         SnapTimeout, SnapReplyLost

----------------------------------------------------------------------------
\* Merging and cutting the log applies nothing.
LEMMA MergePauses ==
    ASSUME NEW n, IsNode(n), NEW q, NEW b \in {Truncated(n.store, q), Merged(n.store, q)}
    PROVE  Pauses(n, [n EXCEPT !.store = b])
<1> DEFINE same(x) == /\ x.last_applied = n.store.last_applied
                      /\ x.kv = n.store.kv /\ x.snapshot_data = n.store.snapshot_data
<1>1. IsStore(n.store)
  BY DEF IsNode
<1>2. ASSUME NEW x, IsStore(x), same(x), NEW rows
      PROVE  same(AppendEntries(x, rows))
  BY <1>2 DEF AppendEntries, IsStore
<1>3. same(DeleteFrom(n.store, Min(Differs(n.store, q))))
  BY <1>1 DEF DeleteFrom, IsStore
<1>4. same(Truncated(n.store, q)) /\ IsStore(Truncated(n.store, q))
  BY <1>1, <1>3, TruncatedType DEF Truncated
<1>5. same(Merged(n.store, q))
  BY <1>2, <1>4 DEF Merged
<1>6. same(b)
  BY <1>4, <1>5
<1> QED
  BY <1>6 DEF IsNode, Pauses, SameState

\* A merged log reaches as far as the request.
LEMMA MergedReach ==
    ASSUME NEW st, IsStore(st), GapFree(st), st.snapshot_index = 0,
           NEW q, IsAppendReq(q), InOrder(q), PrevMatches(st, q)
    PROVE  LastSent(q) <= LastIndex(Merged(st, q))
<1>1. LastIndex(Merged(st, q)) = IF Differs(st, q) = {}
                                 THEN LastIndex(st) ELSE LastSent(q)
  BY MergedGapFree
<1>2. LastSent(q) \in Nat /\ LastIndex(st) \in Nat /\ q.prevLogIndex \in Nat
  BY LastSentType, LastIndexType, RaftConstants DEF Index, IsAppendReq
<1>3. q.prevLogIndex <= LastIndex(st) /\ q.prevLogIndex <= LastSent(q)
  BY PrevInLog, LastSentType
<1>4. ASSUME Differs(st, q) = {}, LastSent(q) > q.prevLogIndex
      PROVE  LastSent(q) <= LastIndex(st)
  <2>1. LastSent(q) \in DOMAIN q.entries
    BY <1>2, <1>4 DEF InOrder
  <2>2. HasTerm(st, LastSent(q))
    BY <1>2, <1>4, <2>1 DEF Differs, Incoming
  <2>3. LastSent(q) \in DOMAIN st.log_entries
    BY <1>2, <1>4, <2>2, TermOfRow
  <2> QED
    BY <1>2, <2>3 DEF GapFree
<1> QED
  BY <1>1, <1>2, <1>3, <1>4

\* Followers commit what their leader tells them.
LEMMA FollowerCommits ==
    ASSUME NoCompaction, TypeOK, ElectionInv, LogInv, Uncompacted,
           LastAppliedIsDurable, FollowerStep
    PROVE  CommitsMove
<1>1. ASSUME NEW q \in appendReqs
      PROVE  /\ q.src \in Server /\ q.dst \in Server /\ q.term \in Nat
             /\ IsAppendReq(q) /\ InOrder(q)
  BY DEF TypeOK, IsAppendReq, LogInv, AppendReqInv, InOrder
<1>2. ASSUME NEW q \in appendReqs, NEW f, q.term >= node[q.dst].currentTerm
      PROVE  LET n == SeenByFollower(node[q.dst], q, f)
             IN  /\ IsNode(n) /\ IsStore(n.store) /\ Calm(node[q.dst], n)
                 /\ n.role = "follower" /\ n.currentTerm = q.term
                 /\ Pauses(node[q.dst], n)
  <2> DEFINE n == SeenByFollower(node[q.dst], q, f)
  <2>1. IsNode(n) /\ Calm(node[q.dst], n) /\ n.role = "follower"
        /\ n.currentTerm = q.term /\ Pauses(node[q.dst], n)
    BY <1>1, <1>2, NodeFacts, SeenByFollowerType, SeenByFollowerCalm,
       SeenByFollowerPauses
  <2>2. IsStore(n.store)
    BY <2>1 DEF IsNode
  <2> QED
    BY <2>1, <2>2
<1>3. ASSUME NEW q \in appendReqs, NEW f, q.term >= node[q.dst].currentTerm,
             node' = [node EXCEPT ![q.dst] = SeenByFollower(node[q.dst], q, f)]
      PROVE  CommitsMove
  BY <1>1, <1>2, <1>3, PausesTurn
<1>4. ASSUME NEW q \in appendReqs, AppendStale(q)
      PROVE  CommitsMove
  BY <1>4, PausesAll DEF AppendStale
<1>5. ASSUME NEW q \in appendReqs, NEW f \in Faults, AppendRefused(q, f)
      PROVE  CommitsMove
  BY <1>3, <1>5 DEF AppendRefused
<1>6. ASSUME NEW q \in appendReqs, NEW f \in Faults, AppendAccepted(q, f)
      PROVE  CommitsMove
  <2> DEFINE s == q.dst
             n == SeenByFollower(node[s], q, f)
             st == Merged(n.store, q)
             m == [n EXCEPT !.store = st]
             k == FollowCommit(m, s, q, f)
  <2>1. /\ q.term >= node[s].currentTerm /\ PrevMatches(n.store, q)
        /\ node' = [node EXCEPT ![s] = k]
        /\ AppendAnswer(q, n.currentTerm, TRUE, MatchedUpTo(m.store, q))
    BY <1>6 DEF AppendAccepted
  <2>2. /\ CallsKept
        /\ \A r \in appendReps' : r \in appendReps \/ AnswerTo(r, q)
    <3>1. MatchedUpTo(m.store, q) <= LastSent(q)
      BY <1>1, LastSentType
    <3> HIDE DEF m, n
    <3> QED
      BY <2>1, <3>1, AppendAnswerKept, AnswerSuccess
  <2>3. /\ IsNode(n) /\ IsStore(n.store) /\ n.role = "follower"
        /\ n.currentTerm = q.term /\ s \in Server /\ Pauses(node[s], n)
        /\ SameLog(node[s].store, n.store)
    BY <1>1, <1>2, <2>1 DEF Calm
  <2>4. GapFree(n.store) /\ n.store.snapshot_index = 0 /\ Durable(n)
    <3>1. /\ GapFree(node[s].store) /\ node[s].store.snapshot_index = 0
          /\ Durable(node[s])
      BY <2>3 DEF LogInv, Uncompacted, LastAppliedIsDurable, Durable
    <3> HIDE DEF n
    <3> QED
      BY <2>3, <3>1, SameLogFacts DEF SameLog, Durable, Pauses, SameState
  <2> HIDE DEF n, s
  <2>5. /\ IsStore(st) /\ st.snapshot_index = 0 /\ GapFree(st)
        /\ LastSent(q) <= LastIndex(st)
    BY <1>1, <2>1, <2>3, <2>4, MergedType, MergedForm, MergedReach, MergedGapFree
  <2>6. Pauses(n, m)
    BY <2>3, MergePauses
  <2> HIDE DEF st
  <2>7. /\ IsNode(m) /\ m.store = st /\ m.role = n.role
        /\ m.currentTerm = n.currentTerm
    BY <2>3, <2>5, StoreSet
  <2> HIDE DEF m
  <2>8. Durable(m)
    BY <2>4, <2>6 DEF Durable, Pauses, SameState
  <2>9. SameLog(m.store, k.store) /\ k.role = m.role /\ k.currentTerm = m.currentTerm
    BY <1>1, <2>3, <2>7, FollowCommitRest, RestSame
  <2>10. /\ Ran(m, k)
         /\ \/ k.commitIndex = m.commitIndex
            \/ /\ k.commitIndex <= q.leaderCommit
               /\ \/ k.commitIndex >= m.commitIndex
                  \/ k.commitIndex = LastIndex(m.store)
         /\ f.method \notin ApplyMethods /\ CaughtUp(m) => CaughtUp(k)
    BY <1>1, <2>3, <2>5, <2>7, <2>8, FollowRuns
  <2> HIDE DEF k
  <2>11. Pauses(node[s], m)
    BY <2>3, <2>6, PausesTwice
  <2>12. ASSUME k.commitIndex <= q.leaderCommit
         PROVE  q.dst = s /\ Adopts(q, k)
    <3>1. Merges(q, k, n.store)
      BY <2>1, <2>2, <2>3, <2>7, <2>9 DEF Merges, Turns, SameLog, st, s
    <3>2. LastIndex(k.store) = LastIndex(st)
      BY <2>7, <2>9, SameLogFacts
    <3> QED
      BY <2>5, <2>12, <3>1, <3>2 DEF Adopts, s
  <2>13. CommitMove(m, k, s)
    <3>1. LastIndex(k.store) = LastIndex(m.store)
      BY <2>9, SameLogFacts
    <3>2. NoLostApply => f.method \notin ApplyMethods
      BY DEF NoLostApply, Faults, NoFault, ApplyMethods
    <3> QED
      BY <2>10, <2>12, <3>1, <3>2 DEF CommitMove
  <2>14. CommitMove(node[s], k, s)
    BY <2>11, <2>13, MoveFrom
  <2> QED
    BY <2>1, <2>3, <2>14, TurnCommits
<1>7. ASSUME NEW q \in appendReqs, NEW f \in Faults, AppendError(q, f)
      PROVE  CommitsMove
  <2> DEFINE s == q.dst
             n == SeenByFollower(node[s], q, f)
  <2>1. q.term >= node[s].currentTerm
    BY <1>7 DEF AppendError
  <2>2. IsNode(n) /\ Pauses(node[s], n) /\ s \in Server
    BY <1>1, <1>2, <2>1
  <2>3. ASSUME NEW b \in {Truncated(n.store, q), Merged(n.store, q)},
               node' = [node EXCEPT ![s] = [n EXCEPT !.store = b]]
        PROVE  CommitsMove
    <3> HIDE DEF n, s
    <3>1. Pauses(n, [n EXCEPT !.store = b])
      BY <2>2, MergePauses
    <3>2. Pauses(node[s], [n EXCEPT !.store = b])
      BY <2>2, <3>1, PausesTwice
    <3> QED
      BY <2>2, <2>3, <3>2, PausesTurn
  <2>4. CASE f.method \in {"SnapshotIndexTerm", "DeleteFrom"}
    <3>1. node' = [node EXCEPT ![s] = n]
      BY <1>7, <2>4 DEF AppendError
    <3> QED
      BY <1>3, <2>1, <3>1
  <2>5. CASE f.method = "AppendEntries"
    <3>1. node' = [node EXCEPT ![s] = [n EXCEPT !.store = Truncated(n.store, q)]]
      BY <1>7, <2>5 DEF AppendError
    <3> QED
      BY <2>3, <3>1
  <2>6. CASE f.method = "LastIndexAndTerm"
    <3>1. node' = [node EXCEPT ![s] = [n EXCEPT !.store = Merged(n.store, q)]]
      BY <1>7, <2>6 DEF AppendError
    <3> QED
      BY <2>3, <3>1
  <2> QED
    BY <1>7, <2>4, <2>5, <2>6 DEF AppendError
<1>8. snapReqs = {}
  BY DEF Uncompacted
<1> QED
  BY <1>4, <1>5, <1>6, <1>7, <1>8 DEF FollowerStep

\* That is all that happens to what is committed and applied.
LEMMA StepCommits ==
    ASSUME NoCompaction, TypeOK, ElectionInv, LogInv, Uncompacted,
           LastAppliedIsDurable, [Next]_vars
    PROVE  CommitsMove
<1>1. CASE UNCHANGED vars
  BY <1>1, PausesAll DEF vars
<1> QED
  BY <1>1, ElectionCommits, LeaderCommits, FollowerCommits, MisfortuneCommits
     DEF Next

\* lastApplied in memory stays what is on disk.
LEMMA StepDurable ==
    ASSUME CommitsMove
    PROVE  LastAppliedIsDurable'
BY DEF CommitsMove, CommitMove, Ran, LastAppliedIsDurable

----------------------------------------------------------------------------
(* Settled rows                                                            *)

\* A majority holds row at index i for good, in a point of term or earlier.
Settled(i, row, term) ==
    \E Q \in SUBSET Server : \E L, k :
        /\ Cardinality(Q) >= Majority
        /\ IsPoint(L, k) /\ Safe(Q, L, k) /\ L[k].term <= term
        /\ i \in 1..k /\ L[i] = row

\* A majority is not empty, and nobody is elected without it.
LEMMA MajorityActs ==
    ASSUME NEW Q \in SUBSET Server, Cardinality(Q) >= Majority, NEW T
    PROVE  Q # {} /\ ~Blocked(Q, T)
<1>1. Q \cap Q # {}
  BY QuorumsMeet
<1> QED
  BY <1>1, QuorumsMeet DEF Blocked

\* This is so after a step, too.
LEMMA MajorityActsNext ==
    ASSUME NEW Q \in SUBSET Server, Cardinality(Q) >= Majority, NEW T
    PROVE  Q # {} /\ ~Blocked(Q, T)'
<1>1. Q \cap Q # {}
  BY QuorumsMeet
<1> QED
  BY <1>1, QuorumsMeet DEF Blocked

\* What is settled stays settled.
LEMMA SettledKept ==
    ASSUME CoreInv, CoreInv', Moves, NEW i, NEW row, NEW t \in Nat,
           Settled(i, row, t), NEW u \in Nat, t <= u
    PROVE  Settled(i, row, u)'
<1>1. PICK Q \in SUBSET Server : \E L, k :
        /\ Cardinality(Q) >= Majority
        /\ IsPoint(L, k) /\ Safe(Q, L, k) /\ L[k].term <= t
        /\ i \in 1..k /\ L[i] = row
  BY DEF Settled
<1>2. PICK L, k : /\ Cardinality(Q) >= Majority
                  /\ IsPoint(L, k) /\ Safe(Q, L, k) /\ L[k].term <= t
                  /\ i \in 1..k /\ L[i] = row
  BY <1>1
<1>3. Q # {} /\ ~Blocked(Q, L[k].term)'
  BY <1>2, MajorityActsNext
<1>4. Safe(Q, L, k)'
  BY <1>2, <1>3, SafeKept
<1>5. L[k].term <= u
  BY <1>2 DEF IsPoint
<1> QED
  BY <1>2, <1>4, <1>5 DEF Settled

\* A settled row of the log of s stays there.
LEMMA RowKept ==
    ASSUME CoreInv, CoreInv', Moves, NEW s \in Server,
           NEW i \in DOMAIN node[s].store.log_entries,
           Settled(i, node[s].store.log_entries[i], node[s].currentTerm)
    PROVE  /\ i \in DOMAIN node'[s].store.log_entries
           /\ node'[s].store.log_entries[i] = node[s].store.log_entries[i]
<1> DEFINE log == node[s].store.log_entries
           T == node[s].currentTerm
<1>1. PICK Q \in SUBSET Server : \E L, k :
        /\ Cardinality(Q) >= Majority
        /\ IsPoint(L, k) /\ Safe(Q, L, k) /\ L[k].term <= T
        /\ i \in 1..k /\ L[i] = log[i]
  BY DEF Settled
<1>2. PICK L, k : /\ Cardinality(Q) >= Majority
                  /\ IsPoint(L, k) /\ Safe(Q, L, k) /\ L[k].term <= T
                  /\ i \in 1..k /\ L[i] = log[i]
  BY <1>1
<1>3. PICK p \in Q : Agree(L, node[p].store.log_entries, k)
  BY <1>2, MajorityActs DEF Safe, Held
<1>4. Agree(L, log, i)
  BY <1>2, <1>3, HasAgree DEF Has
<1>5. T \in Nat /\ T >= L[k].term /\ i \in Nat /\ i <= k
  <2>1. T \in Nat
    BY DEF CoreInv, MatchingInv, TypeOK, IsNode
  <2> QED
    BY <1>2, <2>1 DEF IsPoint
<1>6. LogsMove /\ Fitting(L, k)
  BY <1>2 DEF Moves, Safe
<1>7. Agree(L, node'[s].store.log_entries, i)
  BY <1>2, <1>4, <1>5, <1>6, PointKept
<1>8. i \in DOMAIN L
  BY <1>2 DEF IsPoint
<1> QED
  BY <1>2, <1>5, <1>7, <1>8 DEF Agree

\* What a leader counts on a majority is settled, with all before it.
CommitRule ==
    \A s \in Server : \A c :
        CountsTo(node[s], s, c) =>
            \A i \in 1..c :
                /\ i \in DOMAIN node[s].store.log_entries
                /\ Settled(i, node[s].store.log_entries[i], node[s].currentTerm)

\* That is what SentInv is for.
LEMMA CountedSettled == CoreInv /\ SentInv => CommitRule
<1> SUFFICES ASSUME CoreInv, SentInv, NEW s \in Server, NEW c,
                    CountsTo(node[s], s, c), NEW i \in 1..c
             PROVE  /\ i \in DOMAIN node[s].store.log_entries
                    /\ Settled(i, node[s].store.log_entries[i], node[s].currentTerm)
  BY DEF CommitRule
<1> DEFINE log == node[s].store.log_entries
           T == node[s].currentTerm
           L == Prefix(log, c)
           Q == Acked(s, c)
           P == MatchedBy(node[s], s, c)
<1>1. /\ node[s].role = "leader" /\ c \in DOMAIN log /\ log[c].term = T
      /\ 1 + Cardinality(P) >= Majority
  BY DEF CountsTo
<1>2. /\ IsPoint(L, c) /\ L[c] = log[c]
      /\ \A j \in 1..c : j \in DOMAIN log /\ L[j] = log[j]
  BY <1>1, PrefixPoint
<1>3. Q \in SUBSET Server /\ P \in SUBSET Server /\ s \notin P /\ P \cup {s} \subseteq Q
  BY DEF Acked, MatchedBy, Peers
<1>4. Cardinality(Q) >= Majority
  <2>1. IsFiniteSet(Q) /\ IsFiniteSet(P)
    BY <1>3, FS_Subset, RaftConstants
  <2>2. IsFiniteSet(P \cup {s}) /\ Cardinality(P \cup {s}) = Cardinality(P) + 1
    BY <1>3, <2>1, FS_AddElement
  <2>3. Cardinality(P \cup {s}) <= Cardinality(Q)
    BY <1>3, <2>1, FS_Subset
  <2>4. /\ Cardinality(P) \in Nat /\ Cardinality(Q) \in Nat
        /\ Cardinality(Server) \in Nat
    BY <2>1, FS_CardinalityType, RaftConstants
  <2> HIDE DEF P, Q
  <2> QED
    BY <1>1, <2>2, <2>3, <2>4 DEF Majority
<1>5. ~Blocked(Q, T)
  BY <1>3, <1>4, MajorityActs
<1>6. Safe(Q, L, c)
  BY <1>1, <1>5 DEF SentInv
<1>7. T \in Nat
  BY DEF CoreInv, MatchingInv, TypeOK, IsNode
<1>8. /\ Q \in SUBSET Server /\ Cardinality(Q) >= Majority
      /\ IsPoint(L, c) /\ Safe(Q, L, c) /\ L[c].term <= T
      /\ i \in 1..c /\ L[i] = log[i]
  BY <1>1, <1>2, <1>3, <1>4, <1>6, <1>7
<1>9. Settled(i, log[i], T)
  <2> HIDE DEF Q, L
  <2> QED
    BY <1>8 DEF Settled
<1> QED
  BY <1>2, <1>9

\* A follower that adopts a commitIndex has the rows it stands for.
LEMMA AdoptHas ==
    ASSUME CoreInv, NEW q \in appendReqs, NEW m, IsStore(m.store),
           GapFree(m.store), m.store.snapshot_index = 0, Adopts(q, m),
           NEW Q \in SUBSET Server, Q # {}, NEW L, NEW k, IsPoint(L, k),
           Safe(Q, L, k), L[k].term <= q.term,
           NEW i \in 1..k, i <= LastSent(q)
    PROVE  i \in DOMAIN m.store.log_entries /\ m.store.log_entries[i] = L[i]
<1> DEFINE s == q.dst
           N == LogOf(m.store)
           C == LogOf(node[s].store)
           R == RowsOf(q)
           c == LastIndex(node[s].store)
           l == LastSent(q)
<1>1. TypeOK /\ LogInv /\ MatchInv /\ Uncompacted
  BY DEF CoreInv, MatchingInv, MatchInv
<1>2. /\ s \in Server /\ q.term \in Nat /\ q.dst \in Server
  BY <1>1 DEF TypeOK, IsAppendReq
<1>3. /\ C \in Segments /\ Match(C, R) /\ Seg(C, c) /\ Seg(R, l)
  BY <1>1, <1>2, TakesFacts
<1>4. Seg(N, LastIndex(m.store))
  BY LogSeg
<1>5. PICK st : Merges(q, m, st)
  BY DEF Adopts
<1>6. /\ Follows(C, R, c)
      /\ \/ N = C /\ Known(R, C)
         \/ /\ NoNewSuccess /\ Part(N, C)
            /\ \E d \in Nat : \E M : Seg(N, d - 1) /\ MergeOf(M, C, R, c, l, d)
         \/ \E d \in Nat : MergeOf(N, C, R, c, l, d)
  BY <1>1, <1>5, MergesLog
<1>7. l <= LastIndex(m.store)
  BY DEF Adopts
<1>8. Fits(R, L, k)
  <2>1. q.term >= L[k].term
    BY <1>2 DEF IsPoint
  <2> QED
    BY <2>1 DEF Safe, Fitting
<1>9. PICK p \in Q : p \in Server /\ Agree(L, node[p].store.log_entries, k)
  BY DEF Safe, Held
<1>10. C.rows = node[s].store.log_entries /\ N.rows = m.store.log_entries /\ C.lo = 0
       /\ N.lo = 0
  BY DEF LogOf
<1> HIDE DEF s, N, C, R, c, l
<1>11. /\ i \in Nat /\ k \in Nat /\ k > 0 /\ i > 0 /\ i <= k /\ l \in Nat
       /\ R.lo \in Nat /\ c \in Nat /\ R.lo <= c /\ i <= l
       /\ DOMAIN C.rows = 1..c /\ DOMAIN R.rows = (R.lo + 1)..l
  BY <1>3, <1>6, <1>10 DEF IsPoint, Seg, Follows, l
<1>12. ASSUME i <= R.lo
       PROVE  i \in DOMAIN C.rows /\ C.rows[i] = L[i]
  <2>1. R.lo \in DOMAIN C.rows /\ R.lo # 0 /\ C.rows[R.lo].term = R.at
    BY <1>6, <1>11, <1>12 DEF Follows
  <2>2. i \in DOMAIN L /\ i <= i
    BY <1>11 DEF IsPoint
  <2>3. CASE R.lo <= k
    <3>1. R.lo \in 1..k /\ R.at = L[R.lo].term
      BY <1>8, <1>11, <2>1, <2>3 DEF Fits
    <3>2. Has(node[s].store.log_entries, R.lo, L[R.lo].term)
      BY <1>10, <2>1, <3>1 DEF Has
    <3>3. Agree(L, node[s].store.log_entries, R.lo)
      BY <1>2, <1>9, <3>1, <3>2, HasAgree
    <3> QED
      BY <1>10, <1>12, <2>2, <3>3 DEF Agree
  <2>4. CASE R.lo > k
    <3>1. R.at >= L[k].term
      BY <1>8, <2>4 DEF Fits
    <3>2. Later(C, k, L[k].term)
      <4>1. C.rows[R.lo].term \in Nat /\ L[k].term \in Nat
        BY <1>3, <1>11, <2>1 DEF Seg, IsPoint
      <4>2. C.rows[R.lo].term > L[k].term \/ C.rows[R.lo].term = L[k].term
        BY <2>1, <3>1, <4>1
      <4> QED
        BY <1>11, <2>1, <2>4, <4>2 DEF Later
    <3>3. Has(C.rows, k, L[k].term)
      BY <1>3, <1>10, <1>11, <3>2 DEF Safe, Passed, Passes
    <3>4. Has(node[s].store.log_entries, k, L[k].term) /\ k \in 1..k
      BY <1>10, <1>11, <3>3
    <3>5. Agree(L, node[s].store.log_entries, k)
      BY <1>2, <1>9, <3>4, HasAgree
    <3> QED
      BY <1>10, <1>11, <2>2, <3>5 DEF Agree
  <2> QED
    BY <1>11, <2>3, <2>4
<1>13. ASSUME i > R.lo
       PROVE  i \in DOMAIN R.rows /\ R.rows[i] = L[i]
  BY <1>8, <1>11, <1>13 DEF Fits
<1>14. CASE N = C /\ Known(R, C)
  <2>1. ASSUME i > R.lo PROVE i \in DOMAIN C.rows /\ C.rows[i] = R.rows[i]
    <3>1. i \in DOMAIN R.rows
      BY <1>13, <2>1
    <3>2. i \in Common(C, R) /\ C.rows[i].term = R.rows[i].term
      BY <1>14, <3>1 DEF Known, Common
    <3>3. SameUpTo(C, R, i)
      BY <1>3, <3>2 DEF Match
    <3> QED
      BY <1>11, <3>2, <3>3 DEF SameUpTo, Common
  <2> QED
    BY <1>10, <1>11, <1>12, <1>13, <1>14, <2>1
<1>15. CASE \E d \in Nat : MergeOf(N, C, R, c, l, d)
  <2>1. PICK d \in Nat : MergeOf(N, C, R, c, l, d)
    BY <1>15
  <2>2. /\ \A j \in (R.lo + 1)..l : N.rows[j] = R.rows[j]
        /\ \A j \in 1..R.lo : N.rows[j] = C.rows[j]
    BY <1>3, <2>1, MergeParts
  <2>3. DOMAIN N.rows = 1..l
    BY <1>10, <2>1 DEF MergeOf, Seg
  <2>4. i \in DOMAIN N.rows
    BY <1>11, <2>3
  <2>5. CASE i > R.lo
    BY <1>10, <1>11, <1>13, <2>2, <2>4, <2>5
  <2>6. CASE i <= R.lo
    BY <1>10, <1>11, <1>12, <2>2, <2>4, <2>6
  <2> QED
    BY <1>11, <2>5, <2>6
<1>16. CASE \E d \in Nat : \E M : Seg(N, d - 1) /\ MergeOf(M, C, R, c, l, d)
  <2>1. PICK d \in Nat : \E M : Seg(N, d - 1) /\ MergeOf(M, C, R, c, l, d)
    BY <1>16
  <2>2. d <= l /\ d > 0 /\ DOMAIN N.rows = 1..(d - 1)
    BY <1>10, <1>11, <2>1 DEF MergeOf, Seg
  <2>3. LastIndex(m.store) \in Nat /\ DOMAIN N.rows = 1..LastIndex(m.store)
    BY <1>4, <1>10 DEF Seg
  <2>4. l \in DOMAIN N.rows
    BY <1>7, <1>11, <2>2, <2>3
  <2> QED
    BY <1>11, <2>1, <2>2, <2>4
<1> QED
  BY <1>6, <1>14, <1>15, <1>16

----------------------------------------------------------------------------
(* The invariant of commits                                                *)

\* What s takes for committed is in its log, and settled.
Committed(s) ==
    \A i \in 1..node[s].commitIndex :
        /\ i \in DOMAIN node[s].store.log_entries
        /\ Settled(i, node[s].store.log_entries[i], node[s].currentTerm)

\* A request tells of a commitIndex within its rows, and the row is settled.
Told(q) == /\ q.leaderCommit <= LastSent(q)
           /\ q.leaderCommit > 0 =>
                \E row : Settled(q.leaderCommit, row, q.term)

\* The state machine of n has run the rows of its log up to lastApplied.
Executed(n) ==
    LET log == n.store.log_entries
    IN  /\ n.lastApplied <= n.commitIndex
        /\ n.applied = {[index |-> i, row |-> log[i]] : i \in 1..n.lastApplied}
        /\ n.store.kv = KvAfter(EmptyKv, log, 1..n.lastApplied)
        /\ n.store.snapshot_data = EmptyKv

CommitInv ==
    /\ LastAppliedIsDurable
    /\ \A s \in Server : Committed(s) /\ Executed(node[s])
    /\ \A q \in appendReqs : Told(q)

\* What s had for committed before a step is in its log after it.
LEMMA OldCommitted ==
    ASSUME CoreInv, CoreInv', CommitInv, Moves, NEW s \in Server,
           NEW i \in 1..node[s].commitIndex
    PROVE  /\ i \in DOMAIN node[s].store.log_entries
           /\ i \in DOMAIN node'[s].store.log_entries
           /\ node'[s].store.log_entries[i] = node[s].store.log_entries[i]
           /\ Settled(i, node[s].store.log_entries[i], node[s].currentTerm)'
<1>1. /\ i \in DOMAIN node[s].store.log_entries
      /\ Settled(i, node[s].store.log_entries[i], node[s].currentTerm)
  BY DEF CommitInv, Committed
<1>2. /\ i \in DOMAIN node'[s].store.log_entries
      /\ node'[s].store.log_entries[i] = node[s].store.log_entries[i]
  BY <1>1, RowKept
<1>3. PICK row : row = node[s].store.log_entries[i]
  OBVIOUS
<1>4. PICK t \in Nat : t = node[s].currentTerm
  BY DEF CoreInv, MatchingInv, TypeOK, IsNode
<1>5. PICK u \in Nat : u = node'[s].currentTerm
  BY DEF CoreInv, MatchingInv, TypeOK, IsNode
<1>6. t <= u
  BY <1>4, <1>5 DEF Moves
<1>7. Settled(i, row, u)'
  BY <1>1, <1>3, <1>4, <1>6, SettledKept
<1> QED
  BY <1>1, <1>2, <1>3, <1>5, <1>7

\* A commitIndex that was adopted stands for settled rows.
LEMMA AdoptedCommitted ==
    ASSUME CoreInv, CoreInv', CommitInv, Moves, NEW s \in Server,
           NEW q \in appendReqs, q.dst = s, Adopts(q, node'[s]),
           NEW i \in 1..node'[s].commitIndex
    PROVE  /\ i \in DOMAIN node'[s].store.log_entries
           /\ Settled(i, node[s].store.log_entries[i], node[s].currentTerm)'
<1>1. PICK m : m = node'[s]
  OBVIOUS
<1>2. /\ IsStore(m.store) /\ GapFree(m.store) /\ m.store.snapshot_index = 0
      /\ m.commitIndex \in Nat
  BY <1>1, RaftConstants
     DEF CoreInv, MatchingInv, TypeOK, IsNode, LogInv, MatchInv, Uncompacted, Index
<1>3. Adopts(q, m) /\ m.commitIndex <= q.leaderCommit /\ m.currentTerm = q.term
  <2>1. Adopts(q, m) /\ m.commitIndex <= q.leaderCommit
    BY <1>1 DEF Adopts
  <2>2. m.currentTerm = q.term
    BY <2>1 DEF Adopts, Merges
  <2> QED
    BY <2>1, <2>2
<1>4. q.leaderCommit \in Nat /\ q.term \in Nat /\ LastSent(q) \in Nat
  <2>1. IsAppendReq(q)
    BY DEF CoreInv, MatchingInv, TypeOK
  <2> QED
    BY <2>1, LastSentType, RaftConstants DEF IsAppendReq, Index
<1>5. i \in Nat /\ i > 0 /\ i <= q.leaderCommit /\ q.leaderCommit > 0
  BY <1>1, <1>2, <1>3, <1>4
<1>6. q.leaderCommit <= LastSent(q) /\ \E row : Settled(q.leaderCommit, row, q.term)
  BY <1>5 DEF CommitInv, Told
<1>7. PICK Q \in SUBSET Server : \E L, k :
        /\ Cardinality(Q) >= Majority
        /\ IsPoint(L, k) /\ Safe(Q, L, k) /\ L[k].term <= q.term
        /\ q.leaderCommit \in 1..k
  BY <1>6 DEF Settled
<1>8. PICK L, k : /\ Cardinality(Q) >= Majority
                  /\ IsPoint(L, k) /\ Safe(Q, L, k) /\ L[k].term <= q.term
                  /\ q.leaderCommit \in 1..k
  BY <1>7
<1>9. i \in 1..k /\ i <= LastSent(q)
  BY <1>4, <1>5, <1>6, <1>8 DEF IsPoint
<1>10. Q # {}
  BY <1>8, MajorityActs
<1>11. i \in DOMAIN m.store.log_entries /\ m.store.log_entries[i] = L[i]
  BY <1>2, <1>3, <1>8, <1>9, <1>10, AdoptHas
<1>12. Settled(i, L[i], q.term)
  BY <1>8, <1>9 DEF Settled
<1>13. Settled(i, L[i], q.term)'
  <2>1. PICK row : row = L[i]
    OBVIOUS
  <2>2. Settled(i, row, q.term)'
    BY <1>4, <1>12, <2>1, SettledKept
  <2> QED
    BY <2>1, <2>2
<1> QED
  BY <1>1, <1>3, <1>11, <1>13

\* Committed rows after a step.
LEMMA CommittedKept ==
    ASSUME CoreInv, CoreInv', CommitInv, Moves, CommitsMove, CommitRule',
           NEW s \in Server
    PROVE  Committed(s)' /\ (\A i \in 1..node[s].commitIndex :
                                i \in DOMAIN node[s].store.log_entries)'
<1> SUFFICES ASSUME NEW i \in 1..node'[s].commitIndex
             PROVE  /\ i \in DOMAIN node'[s].store.log_entries
                    /\ Settled(i, node[s].store.log_entries[i],
                               node[s].currentTerm)'
  BY DEF Committed
<1>1. /\ node[s].lastApplied \in Nat /\ node[s].commitIndex \in Nat
      /\ node[s].lastApplied <= node[s].commitIndex
      /\ node'[s].commitIndex \in Nat
  BY RaftConstants
     DEF CoreInv, MatchingInv, TypeOK, IsNode, Index, CommitInv, Executed
<1>2. CASE node'[s].commitIndex \in {node[s].commitIndex, node[s].lastApplied}
  <2>1. i \in 1..node[s].commitIndex
    BY <1>1, <1>2
  <2>2. /\ i \in DOMAIN node'[s].store.log_entries
        /\ Settled(i, node[s].store.log_entries[i], node[s].currentTerm)'
    BY <2>1, OldCommitted
  <2> QED
    BY <2>2
<1>3. CASE CountsTo(node'[s], s, node'[s].commitIndex)
  <2>1. (CountsTo(node[s], s, node[s].commitIndex) =>
            \A j \in 1..node[s].commitIndex :
                /\ j \in DOMAIN node[s].store.log_entries
                /\ Settled(j, node[s].store.log_entries[j], node[s].currentTerm))'
    BY DEF CommitRule
  <2> QED
    BY <1>3, <2>1
<1>4. CASE \E q \in appendReqs : q.dst = s /\ Adopts(q, node'[s])
  BY <1>4, AdoptedCommitted
<1> QED
  BY <1>2, <1>3, <1>4 DEF CommitsMove, CommitMove

\* Requests after a step.
LEMMA ToldKept ==
    ASSUME FullBatch, CoreInv, CoreInv', CommitInv, Moves, NEW q \in appendReqs'
    PROVE  Told(q)'
<1>1. /\ q.leaderCommit \in Nat /\ q.term \in Nat /\ LastSent(q) \in Nat
  <2>1. IsAppendReq(q)
    BY DEF CoreInv, MatchingInv, TypeOK
  <2> QED
    BY <2>1, LastSentType, RaftConstants DEF IsAppendReq, Index
<1>2. ASSUME q.leaderCommit <= LastSent(q),
             q.leaderCommit > 0 => \E row : Settled(q.leaderCommit, row, q.term)
      PROVE  Told(q)'
  <2>1. ASSUME q.leaderCommit > 0
        PROVE  \E row : Settled(q.leaderCommit, row, q.term)'
    <3>1. PICK row : Settled(q.leaderCommit, row, q.term)
      BY <1>2, <2>1
    <3>2. Settled(q.leaderCommit, row, q.term)'
      BY <1>1, <3>1, SettledKept
    <3> QED
      BY <3>2
  <2> QED
    BY <1>2, <2>1 DEF Told
<1>3. CASE \E o \in appendReqs : SameRequest(q, o)
  <2>1. PICK o \in appendReqs : SameRequest(q, o)
    BY <1>3
  <2>2. q.leaderCommit = o.leaderCommit /\ q.term = o.term /\ LastSent(q) = LastSent(o)
    BY <2>1 DEF SameRequest, LastSent
  <2>3. Told(o)
    BY DEF CommitInv
  <2> QED
    BY <1>2, <2>2, <2>3 DEF Told
<1>4. CASE \E s \in Server : Sent(q, s)
  <2>1. PICK s \in Server : Sent(q, s)
    BY <1>4
  <2>2. /\ q.leaderCommit = node[s].commitIndex /\ node[s].currentTerm = q.term
        /\ LastSent(q) = LastIndex(node[s].store)
    BY <2>1 DEF Sent, Leads
  <2>3. ASSUME q.leaderCommit > 0
        PROVE  /\ q.leaderCommit <= LastIndex(node[s].store)
               /\ \E row : Settled(q.leaderCommit, row, q.term)
    <3>1. q.leaderCommit \in 1..node[s].commitIndex
      BY <1>1, <2>2, <2>3
    <3>2. /\ q.leaderCommit \in DOMAIN node[s].store.log_entries
          /\ Settled(q.leaderCommit, node[s].store.log_entries[q.leaderCommit],
                     node[s].currentTerm)
      BY <3>1 DEF CommitInv, Committed
    <3>3. GapFree(node[s].store) /\ node[s].store.snapshot_index = 0
      BY DEF CoreInv, MatchingInv, LogInv, MatchInv, Uncompacted
    <3>4. q.leaderCommit <= LastIndex(node[s].store)
      BY <1>1, <2>2, <3>2, <3>3 DEF GapFree
    <3> QED
      BY <2>2, <3>2, <3>4
  <2>4. q.leaderCommit <= LastSent(q)
    BY <1>1, <2>2, <2>3
  <2> QED
    BY <1>2, <2>3, <2>4
<1> QED
  BY <1>3, <1>4 DEF Moves, LogsMove, CallMove

----------------------------------------------------------------------------
(* The key-value table                                                     *)

\* The greatest element of a set of bounded naturals.
LEMMA MaxIs ==
    ASSUME NEW N \in Nat, NEW S, S \subseteq 0..N, NEW x \in S,
           \A y \in S : y <= x
    PROVE  Max(S) = x
<1>1. PICK m : m = Max(S)
  OBVIOUS
<1>2. m \in S /\ \A y \in S : m >= y
  BY <1>1, MaxExists
<1>3. m <= x /\ m >= x /\ m \in Nat /\ x \in Nat
  BY <1>2
<1> QED
  BY <1>1, <1>3

\* Only the rows that are set matter.
LEMMA KvSame ==
    ASSUME NEW kv, NEW t, NEW u, NEW N \in Nat, \A i \in 1..N : t[i] = u[i]
    PROVE  KvAfter(kv, t, 1..N) = KvAfter(kv, u, 1..N)
<1> DEFINE W(x, k) == {i \in 1..N : x[i].cmd.key = k}
           F(x, k) == IF W(x, k) = {} THEN kv[k] ELSE x[Max(W(x, k))].cmd.value
<1>1. ASSUME NEW k \in Key PROVE F(t, k) = F(u, k)
  <2>1. PICK V : V = W(t, k) /\ V = W(u, k)
    OBVIOUS
  <2>2. V \subseteq 1..N /\ V \subseteq 0..N
    BY <2>1
  <2>3. ASSUME V # {} PROVE t[Max(V)] = u[Max(V)]
    <3>1. Max(V) \in V
      BY <2>2, <2>3, MaxExists
    <3> QED
      BY <2>2, <3>1
  <2> QED
    BY <2>1, <2>3
<1> QED
  BY <1>1 DEF KvAfter

\* Setting some rows, and then the rows that follow them.
LEMMA KvMore ==
    ASSUME NEW kv, NEW t, NEW a \in Nat, NEW b \in Nat, a <= b
    PROVE  KvAfter(KvAfter(kv, t, 1..a), t, (a + 1)..b) = KvAfter(kv, t, 1..b)
<1> DEFINE W(I, k) == {i \in I : t[i].cmd.key = k}
           F(x, I, k) == IF W(I, k) = {} THEN x[k] ELSE t[Max(W(I, k))].cmd.value
           mid == KvAfter(kv, t, 1..a)
<1>1. ASSUME NEW k \in Key
      PROVE  F(mid, (a + 1)..b, k) = F(kv, 1..b, k)
  <2> DEFINE A == W(1..a, k)
             B == W((a + 1)..b, k)
             C == W(1..b, k)
  <2>1. C = A \cup B /\ A \subseteq 1..a /\ B \subseteq (a + 1)..b
    OBVIOUS
  <2>2. mid[k] = IF A = {} THEN kv[k] ELSE t[Max(A)].cmd.value
    BY DEF KvAfter
  <2> HIDE DEF A, B, C, mid
  <2>3. CASE B = {}
    <3>1. A = C
      BY <2>1, <2>3
    <3> QED
      BY <2>2, <2>3, <3>1 DEF A, B, C
  <2>4. CASE B # {}
    <3>1. PICK x : x = Max(B)
      OBVIOUS
    <3>2. x \in B /\ \A y \in B : x >= y
      <4>1. B \subseteq 0..b
        BY <2>1
      <4> QED
        BY <2>4, <3>1, <4>1, MaxExists
    <3>3. C \subseteq 0..b /\ x \in C /\ \A y \in C : y <= x
      <4>1. C \subseteq 0..b /\ x \in C
        BY <2>1, <3>2
      <4>2. ASSUME NEW y \in A PROVE y <= x
        BY <2>1, <3>2
      <4>3. ASSUME NEW y \in B PROVE y <= x
        BY <2>1, <3>2
      <4> QED
        BY <2>1, <4>1, <4>2, <4>3
    <3>4. Max(C) = x
      BY <3>3, MaxIs
    <3>5. C # {}
      BY <3>3
    <3> QED
      BY <2>4, <3>1, <3>4, <3>5 DEF B, C
  <2> QED
    BY <2>3, <2>4
<1> QED
  BY <1>1 DEF KvAfter

\* A state machine that has run its log goes on running it.
LEMMA RanExecuted ==
    ASSUME NEW n, NEW m, n.lastApplied \in Nat, m.lastApplied \in Nat,
           Executed(n), Ran(n, m), m.lastApplied <= m.commitIndex,
           \A i \in 1..n.lastApplied :
                m.store.log_entries[i] = n.store.log_entries[i]
    PROVE  Executed(m)
<1> DEFINE a == n.lastApplied
           b == m.lastApplied
           old == n.store.log_entries
           log == m.store.log_entries
<1>1. /\ a \in Nat /\ b \in Nat /\ a <= b
      /\ \A i \in 1..a : old[i] = log[i]
  BY DEF Ran
<1>2. m.applied = {[index |-> i, row |-> log[i]] : i \in 1..b}
  <2>1. /\ m.applied = n.applied \cup {[index |-> i, row |-> log[i]] : i \in (a + 1)..b}
        /\ n.applied = {[index |-> i, row |-> old[i]] : i \in 1..a}
    BY DEF Ran, Executed
  <2>2. {[index |-> i, row |-> old[i]] : i \in 1..a}
            = {[index |-> i, row |-> log[i]] : i \in 1..a}
    BY <1>1
  <2>3. \A i : i \in 1..b <=> i \in 1..a \/ i \in (a + 1)..b
    BY <1>1
  <2> HIDE DEF a, b, old, log
  <2> QED
    BY <2>1, <2>2, <2>3
<1>3. m.store.kv = KvAfter(EmptyKv, log, 1..b)
  <2>1. n.store.kv = KvAfter(EmptyKv, old, 1..a)
    BY DEF Executed
  <2>2. m.store.kv = IF b = a THEN n.store.kv
                     ELSE KvAfter(n.store.kv, log, (a + 1)..b)
    BY DEF Ran
  <2> HIDE DEF a, b, old, log
  <2>3. KvAfter(EmptyKv, old, 1..a) = KvAfter(EmptyKv, log, 1..a)
    <3>1. PICK kv : kv = EmptyKv
      OBVIOUS
    <3>2. PICK t : t = old
      OBVIOUS
    <3>3. PICK u : u = log
      OBVIOUS
    <3>4. \A i \in 1..a : t[i] = u[i]
      BY <1>1, <3>2, <3>3
    <3>5. KvAfter(kv, t, 1..a) = KvAfter(kv, u, 1..a)
      BY <1>1, <3>4, KvSame
    <3> QED
      BY <3>1, <3>2, <3>3, <3>5
  <2>4. KvAfter(KvAfter(EmptyKv, log, 1..a), log, (a + 1)..b)
            = KvAfter(EmptyKv, log, 1..b)
    BY <1>1, KvMore
  <2> QED
    BY <2>1, <2>2, <2>3, <2>4
<1>4. m.store.snapshot_data = EmptyKv
  BY DEF Ran, Executed
<1> QED
  BY <1>2, <1>3, <1>4 DEF Executed

\* State machines after a step.
LEMMA ExecutedKept ==
    ASSUME CoreInv, CoreInv', CommitInv, Moves, CommitsMove, NEW s \in Server
    PROVE  Executed(node'[s])
<1>1. PICK n : n = node[s]
  OBVIOUS
<1>2. PICK m : m = node'[s]
  OBVIOUS
<1>3. /\ n.lastApplied \in Nat /\ n.commitIndex \in Nat
      /\ m.lastApplied \in Nat /\ m.commitIndex \in Nat
      /\ Executed(n) /\ n.lastApplied <= n.commitIndex
  <2>1. IsNode(n) /\ IsNode(m)
    BY <1>1, <1>2 DEF CoreInv, MatchingInv, TypeOK
  <2>2. n.lastApplied \in Index /\ n.commitIndex \in Index
    BY <2>1 DEF IsNode
  <2>3. m.lastApplied \in Index /\ m.commitIndex \in Index
    BY <2>1 DEF IsNode
  <2>4. Executed(n)
    BY <1>1 DEF CommitInv
  <2>5. n.lastApplied <= n.commitIndex
    BY <2>4 DEF Executed
  <2> QED
    BY <2>2, <2>3, <2>4, <2>5, RaftConstants DEF Index
<1>4. CommitMove(n, m, s)
  BY <1>1, <1>2 DEF CommitsMove
<1>5. ASSUME NEW i \in 1..n.commitIndex
      PROVE  /\ i \in DOMAIN m.store.log_entries
             /\ m.store.log_entries[i] = n.store.log_entries[i]
  BY <1>1, <1>2, OldCommitted
<1>6. LastIndex(m.store) \in Nat /\ n.commitIndex <= LastIndex(m.store)
  <2>1. /\ DOMAIN m.store.log_entries = 1..LastIndex(m.store)
        /\ LastIndex(m.store) \in Nat
    <3>1. IsStore(m.store) /\ GapFree(m.store) /\ m.store.snapshot_index = 0
      BY <1>2 DEF CoreInv, MatchingInv, TypeOK, IsNode, LogInv, MatchInv, Uncompacted
    <3>2. Seg(LogOf(m.store), LastIndex(m.store))
      BY <3>1, LogSeg
    <3> QED
      BY <3>2 DEF Seg, LogOf
  <2>2. n.commitIndex = 0 \/ n.commitIndex \in DOMAIN m.store.log_entries
    BY <1>3, <1>5
  <2> QED
    BY <1>3, <2>1, <2>2
<1>7. m.lastApplied <= m.commitIndex
  <2>1. m.lastApplied = n.lastApplied \/ m.lastApplied <= m.commitIndex
    BY <1>4 DEF CommitMove, Ran
  <2>2. \/ m.commitIndex >= n.commitIndex
        \/ m.commitIndex = n.lastApplied
        \/ m.commitIndex = LastIndex(m.store)
    BY <1>3, <1>4 DEF CommitMove
  <2> QED
    BY <1>3, <1>6, <2>1, <2>2
<1>8. \A i \in 1..n.lastApplied : m.store.log_entries[i] = n.store.log_entries[i]
  BY <1>3, <1>5
<1> QED
  BY <1>2, <1>3, <1>4, <1>7, <1>8, RanExecuted DEF CommitMove

\* CommitInv is inductive, relative to what was shown before.
LEMMA StepCommit ==
    ASSUME FullBatch, CoreInv, CoreInv', CommitInv, Moves, CommitsMove, CommitRule'
    PROVE  CommitInv'
<1>1. LastAppliedIsDurable'
  BY StepDurable
<1>2. ASSUME NEW s \in Server PROVE Committed(s)' /\ Executed(node[s])'
  BY CommittedKept, ExecutedKept
<1>3. ASSUME NEW q \in appendReqs' PROVE Told(q)'
  BY ToldKept
<1> QED
  BY <1>1, <1>2, <1>3 DEF CommitInv

----------------------------------------------------------------------------
(* All steps                                                               *)

\* The invariants at the start: all logs are empty.
LEMMA InitCommit == Init => OrderInv /\ SentInv /\ CommitInv
<1> SUFFICES ASSUME Init PROVE OrderInv /\ SentInv /\ CommitInv
  OBVIOUS
<1>1. /\ \A s \in Server : /\ node[s].store = FreshStore
                           /\ node[s].role = "follower"
                           /\ node[s].commitIndex = 0 /\ node[s].lastApplied = 0
                           /\ node[s].applied = {}
      /\ appendReqs = {} /\ voteReqs = {} /\ voteReps = {}
  BY DEF Init
<1>2. /\ DOMAIN FreshStore.log_entries = {} /\ FreshStore.last_applied = 0
      /\ FreshStore.kv = EmptyKv /\ FreshStore.snapshot_data = EmptyKv
  BY DEF FreshStore
<1>3. \A A \in Segments : DOMAIN A.rows = {}
  BY <1>1, <1>2 DEF Segments, LogOf
<1>4. OrderInv
  <2>1. \A A \in Segments : Sorted(A)
    BY <1>3 DEF Sorted
  <2>2. \A s \in Server : UpTo(LogOf(node[s].store), node[s].currentTerm)
    BY <1>1, <1>2 DEF UpTo, LogOf
  <2> QED
    BY <1>1, <2>1, <2>2 DEF OrderInv
<1>5. SentInv
  BY <1>1 DEF SentInv
<1>6. CommitInv
  <2>1. LastAppliedIsDurable
    BY <1>1, <1>2 DEF LastAppliedIsDurable
  <2>2. ASSUME NEW s \in Server PROVE Committed(s)
    BY <1>1 DEF Committed
  <2>3. ASSUME NEW s \in Server PROVE Executed(node[s])
    <3>1. KvAfter(EmptyKv, node[s].store.log_entries, 1..0) = EmptyKv
      BY DEF KvAfter, EmptyKv
    <3>2. {[index |-> i, row |-> node[s].store.log_entries[i]] : i \in 1..0} = {}
      OBVIOUS
    <3> QED
      BY <1>1, <1>2, <3>1, <3>2 DEF Executed
  <2> QED
    BY <1>1, <2>1, <2>2, <2>3 DEF CommitInv
<1> QED
  BY <1>4, <1>5, <1>6

\* A new row is safe after a step, too,
LEMMA FreshSafeNext == CoreInv' => FreshRows'
BY FreshSafe, PTL

\* ... and so is what a leader counts on a majority.
LEMMA CountedSettledNext == CoreInv' /\ SentInv' => CommitRule'
BY CountedSettled, PTL

\* What a step does to logs, votes, leaders and terms, and that CoreInv is
\* inductive.
LEMMA StepCore ==
    ASSUME NoCompaction, NoLostTerm, CoreInv, [Next]_vars
    PROVE  CoreInv' /\ Moves /\ AcksMove
<1>1. TypeOK /\ ElectionInv /\ LogInv /\ MatchInv /\ Uncompacted /\ AckInv /\ OrderInv
  BY DEF CoreInv, MatchingInv, MatchInv
<1>2. RowStep
  BY <1>1, StepRows
<1>3. TypeOK' /\ ElectionInv' /\ DisksKept
  BY <1>1, StepInv
<1>4. LogInv' /\ MatchInv' /\ MatchingInv'
  <2>1. LogInv'
    BY <1>1, StepLog
  <2>2. MatchInv'
    BY <1>1, StepMatching
  <2> QED
    BY <1>3, <2>1, <2>2 DEF MatchingInv
<1>5. AckInv'
  BY StepAck DEF CoreInv
<1>6. AllInTerm /\ AllInTerm'
  BY <1>1, StepInTerm DEF AllInTerm, AckInv
<1>7. \A s \in Server : node'[s].currentTerm >= node[s].currentTerm
  BY <1>3, <1>6, TermsGrow
<1>8. LogsMove /\ VoteStep /\ LeadersMove
  <2>1. LogsMove
    BY <1>1, <1>2, StepMoves
  <2>2. VoteStep
    BY <1>1, <1>2, <1>3, StepVotes
  <2>3. LeadersMove
    BY <1>1, <1>2, <1>3, StepLeaders
  <2> QED
    BY <2>1, <2>2, <2>3
<1>9. elected \subseteq elected'
  BY ElectedGrows
<1>10. OrderInv'
  BY <1>1, <1>3, <1>4, <1>7, <1>8, StepOrder
<1>11. AcksMove
  BY <1>1, <1>2, StepAcks
<1> QED
  BY <1>4, <1>5, <1>7, <1>8, <1>9, <1>10, <1>11 DEF CoreInv, Moves

\* Everything the theorems below need.
SafetyInv == CoreInv /\ SentInv /\ CommitInv

\* It is inductive.
LEMMA StepSafety ==
    ASSUME NoCompaction, NoLostTerm, FullBatch, SafetyInv, [Next]_vars
    PROVE  SafetyInv' /\ Moves
<1>1. CoreInv /\ SentInv /\ CommitInv
  BY DEF SafetyInv
<1>2. CoreInv' /\ Moves /\ AcksMove
  BY <1>1, StepCore
<1>3. SentInv'
  <2>1. FreshRows'
    BY <1>2, FreshSafeNext
  <2> QED
    BY <1>1, <1>2, <2>1, StepSent
<1>4. CommitsMove
  <2>1. TypeOK /\ ElectionInv /\ LogInv /\ Uncompacted /\ LastAppliedIsDurable
    BY <1>1 DEF CoreInv, MatchingInv, MatchInv, CommitInv
  <2> QED
    BY <2>1, StepCommits
<1>5. CommitInv'
  <2>1. CommitRule'
    BY <1>2, <1>3, CountedSettledNext
  <2> QED
    BY <1>1, <1>2, <1>4, <2>1, StepCommit
<1> QED
  BY <1>2, <1>3, <1>5 DEF SafetyInv

----------------------------------------------------------------------------
(* What was applied                                                        *)

\* A command that was applied is a row that a majority holds for good.
LEMMA HistorySettled ==
    ASSUME SafetyInv, NEW a \in History
    PROVE  /\ a = [index |-> a.index, row |-> a.row] /\ a.index \in Nat /\ a.index > 0
           /\ \E Q \in SUBSET Server : \E L, k :
                /\ Cardinality(Q) >= Majority /\ IsPoint(L, k) /\ Safe(Q, L, k)
                /\ a.index \in 1..k /\ L[a.index] = a.row
<1>1. PICK s \in Server : a \in node[s].applied
  BY DEF History
<1>2. /\ Executed(node[s]) /\ Committed(s)
  BY DEF SafetyInv, CommitInv
<1>3. node[s].lastApplied \in Nat /\ node[s].commitIndex \in Nat
  <2>1. IsNode(node[s])
    BY DEF SafetyInv, CoreInv, MatchingInv, TypeOK
  <2>2. node[s].lastApplied \in Index /\ node[s].commitIndex \in Index
    BY <2>1 DEF IsNode
  <2> QED
    BY <2>2, RaftConstants DEF Index
<1>4. PICK i \in 1..node[s].lastApplied :
            a = [index |-> i, row |-> node[s].store.log_entries[i]]
  BY <1>1, <1>2 DEF Executed
<1>5. i \in 1..node[s].commitIndex
  <2>1. node[s].lastApplied <= node[s].commitIndex
    BY <1>2 DEF Executed
  <2> QED
    BY <1>3, <2>1
<1>6. Settled(i, node[s].store.log_entries[i], node[s].currentTerm)
  BY <1>2, <1>5 DEF Committed
<1>7. a.index = i /\ a.row = node[s].store.log_entries[i]
  BY <1>4
<1>8. Settled(a.index, a.row, node[s].currentTerm)
  BY <1>6, <1>7
<1>9. \E Q \in SUBSET Server : \E L, k :
                /\ Cardinality(Q) >= Majority /\ IsPoint(L, k) /\ Safe(Q, L, k)
                /\ a.index \in 1..k /\ L[a.index] = a.row
  BY <1>8 DEF Settled
<1> QED
  BY <1>3, <1>4, <1>7, <1>9

\* Who holds the rows of L has each of them.
LEMMA HolderHas ==
    ASSUME NEW Q, NEW L, NEW k, IsPoint(L, k), Safe(Q, L, k), NEW p \in Q,
           NEW i \in 1..k
    PROVE  /\ i \in DOMAIN node[p].store.log_entries
           /\ node[p].store.log_entries[i] = L[i]
BY DEF Safe, Held, IsPoint, Agree

\* Two commands that were applied at the same index are the same.
LEMMA SafeHistory == SafetyInv => StateMachineSafety
<1> SUFFICES ASSUME SafetyInv, NEW a \in History, NEW b \in History,
                    a.index = b.index
             PROVE  a = b
  BY DEF StateMachineSafety
<1>1. PICK i : i = a.index
  OBVIOUS
<1>2. PICK Q \in SUBSET Server : \E L, k :
                /\ Cardinality(Q) >= Majority /\ IsPoint(L, k) /\ Safe(Q, L, k)
                /\ i \in 1..k /\ L[i] = a.row
  BY <1>1, HistorySettled
<1>3. PICK L, k : /\ Cardinality(Q) >= Majority /\ IsPoint(L, k) /\ Safe(Q, L, k)
                  /\ i \in 1..k /\ L[i] = a.row
  BY <1>2
<1>4. PICK P \in SUBSET Server : \E M, m :
                /\ Cardinality(P) >= Majority /\ IsPoint(M, m) /\ Safe(P, M, m)
                /\ i \in 1..m /\ M[i] = b.row
  BY <1>1, HistorySettled
<1>5. PICK M, m : /\ Cardinality(P) >= Majority /\ IsPoint(M, m) /\ Safe(P, M, m)
                  /\ i \in 1..m /\ M[i] = b.row
  BY <1>4
<1>6. PICK p : p \in Q /\ p \in P
  BY <1>3, <1>5, QuorumsMeet
<1>7. node[p].store.log_entries[i] = a.row
  BY <1>3, <1>6, HolderHas
<1>8. node[p].store.log_entries[i] = b.row
  BY <1>5, <1>6, HolderHas
<1>9. /\ a = [index |-> a.index, row |-> a.row]
      /\ b = [index |-> b.index, row |-> b.row]
  BY HistorySettled
<1> QED
  BY <1>7, <1>8, <1>9

\* A majority holds what was applied.
LEMMA SafeMajority == SafetyInv => CommittedOnMajority
<1> SUFFICES ASSUME SafetyInv, NEW a \in History
             PROVE  Cardinality({s \in Server : Holds(node[s].store, a.index, a.row)})
                        >= Majority
  BY DEF CommittedOnMajority
<1>1. PICK Q \in SUBSET Server : \E L, k :
                /\ Cardinality(Q) >= Majority /\ IsPoint(L, k) /\ Safe(Q, L, k)
                /\ a.index \in 1..k /\ L[a.index] = a.row
  BY HistorySettled
<1>2. PICK L, k : /\ Cardinality(Q) >= Majority /\ IsPoint(L, k) /\ Safe(Q, L, k)
                  /\ a.index \in 1..k /\ L[a.index] = a.row
  BY <1>1
<1> DEFINE H == {s \in Server : Holds(node[s].store, a.index, a.row)}
<1>3. Q \subseteq H
  BY <1>2, HolderHas DEF Holds
<1>4. /\ IsFiniteSet(Server) /\ Cardinality(Server) \in Nat
  BY RaftConstants, FS_CardinalityType
<1>5. /\ IsFiniteSet(H) /\ Cardinality(H) \in Nat
  BY <1>4, FS_Subset, FS_CardinalityType
<1>6. /\ Cardinality(Q) <= Cardinality(H) /\ Cardinality(Q) \in Nat
  BY <1>3, <1>5, FS_Subset, FS_CardinalityType
<1>7. Majority \in Nat
  BY <1>4 DEF Majority
<1> HIDE DEF H
<1> QED
  BY <1>2, <1>5, <1>6, <1>7 DEF H

\* The leader of the latest term has what was applied.
LEMMA SafeLeader == SafetyInv => LeaderCompleteness
<1> SUFFICES ASSUME SafetyInv, NEW s \in Server, node[s].role = "leader",
                    \A e \in elected : e.term <= node[s].currentTerm,
                    NEW a \in History
             PROVE  Holds(node[s].store, a.index, a.row)
  BY DEF LeaderCompleteness
<1>1. PICK Q \in SUBSET Server : \E L, k :
                /\ Cardinality(Q) >= Majority /\ IsPoint(L, k) /\ Safe(Q, L, k)
                /\ a.index \in 1..k /\ L[a.index] = a.row
  BY HistorySettled
<1>2. PICK L, k : /\ Cardinality(Q) >= Majority /\ IsPoint(L, k) /\ Safe(Q, L, k)
                  /\ a.index \in 1..k /\ L[a.index] = a.row
  BY <1>1
<1>3. PICK p \in Server : p \in Q
  BY <1>2, QuorumsMeet
<1>4. k \in 1..k /\ k \in Nat
  BY <1>2 DEF IsPoint
<1>5. k \in DOMAIN node[p].store.log_entries /\ node[p].store.log_entries[k] = L[k]
  BY <1>2, <1>3, <1>4, HolderHas
<1>6. L[k].term <= node[s].currentTerm
  <2>1. Written(LogOf(node[p].store))
    BY DEF SafetyInv, CoreInv, MatchingInv, MatchInv, Segments
  <2>2. PICK e \in elected : e.term = L[k].term
    BY <1>5, <2>1 DEF Written, LogOf
  <2> QED
    BY <2>2
<1>7. Has(node[s].store.log_entries, k, L[k].term)
  <2>1. L[k].term \in Nat /\ node[s].currentTerm \in Nat
    <3>1. IsNode(node[s])
      BY DEF SafetyInv, CoreInv, MatchingInv, TypeOK
    <3> QED
      BY <1>2, <1>4, <3>1 DEF IsPoint, IsNode
  <2>2. Led(k, L[k].term)
    BY <1>2 DEF Safe
  <2> QED
    BY <1>6, <2>1, <2>2 DEF Led
<1>8. Agree(L, node[p].store.log_entries, k)
  BY <1>2, <1>3 DEF Safe, Held
<1>9. Agree(L, node[s].store.log_entries, k)
  BY <1>2, <1>3, <1>4, <1>7, <1>8, HasAgree DEF SafetyInv
<1>10. /\ a.index \in DOMAIN node[s].store.log_entries
       /\ node[s].store.log_entries[a.index] = L[a.index]
  BY <1>2, <1>9 DEF IsPoint, Agree
<1> QED
  BY <1>2, <1>10 DEF Holds

----------------------------------------------------------------------------
(* The state machine                                                       *)

\* The commands that were applied up to index, of a node that has applied
\* them, are the rows of its log.
LEMMA HistoryRows ==
    ASSUME SafetyInv, StateMachineSafety, NEW s \in Server, NEW a,
           NEW N, N = node[s].lastApplied
    PROVE  /\ N \in 0..MaxIndex
           /\ (a \in History /\ a.index <= N) <=>
                \E i \in 1..N : a = [index |-> i, row |-> node[s].store.log_entries[i]]
<1> DEFINE At(i) == [index |-> i, row |-> node[s].store.log_entries[i]]
<1>1. N \in 0..MaxIndex
  <2>1. IsNode(node[s])
    BY DEF SafetyInv, CoreInv, MatchingInv, TypeOK
  <2> QED
    BY <2>1 DEF IsNode, Index
<1>2. node[s].applied = {At(i) : i \in 1..N}
  BY DEF SafetyInv, CommitInv, Executed
<1>3. ASSUME NEW i \in 1..N PROVE At(i) \in History /\ At(i).index = i
  BY <1>2 DEF History
<1>4. ASSUME a \in History, a.index <= N PROVE \E i \in 1..N : a = At(i)
  <2>1. a.index \in 1..N
    BY <1>1, <1>4, HistorySettled
  <2>2. At(a.index) \in History /\ At(a.index).index = a.index
    BY <1>3, <2>1
  <2>3. a = At(a.index)
    BY <1>4, <2>2 DEF StateMachineSafety
  <2> QED
    BY <2>1, <2>3
<1>5. ASSUME NEW i \in 1..N, a = At(i) PROVE a \in History /\ a.index <= N
  BY <1>1, <1>3, <1>5
<1> QED
  BY <1>1, <1>4, <1>5

\* Setting the rows of the log up to lastApplied gives what the history gives.
LEMMA ReplayIs ==
    ASSUME SafetyInv, StateMachineSafety, NEW s \in Server
    PROVE  KvAfter(EmptyKv, node[s].store.log_entries, 1..node[s].lastApplied)
                = Replay(node[s].lastApplied)
<1>1. PICK N : N = node[s].lastApplied
  OBVIOUS
<1>2. PICK log : log = node[s].store.log_entries
  OBVIOUS
<1> DEFINE At(i) == [index |-> i, row |-> log[i]]
           W(k) == {a \in History : a.index <= N /\ a.row.cmd.key = k}
           V(k) == {i \in 1..N : log[i].cmd.key = k}
           Last(k) == CHOOSE a \in W(k) : \A b \in W(k) : b.index <= a.index
           F(k) == IF V(k) = {} THEN EmptyKv[k] ELSE log[Max(V(k))].cmd.value
           G(k) == IF W(k) = {} THEN NoValue ELSE Last(k).row.cmd.value
<1>3. N \in 0..MaxIndex /\ N \in Nat
  BY <1>1, HistoryRows, RaftConstants
<1>4. ASSUME NEW k \in Key PROVE F(k) = G(k)
  <2>1. W(k) = {At(i) : i \in V(k)}
    <3>1. ASSUME NEW a \in W(k) PROVE a \in {At(i) : i \in V(k)}
      <4>1. PICK i \in 1..N : a = At(i)
        BY <1>1, <1>2, HistoryRows
      <4>2. a.row = log[i]
        BY <4>1
      <4> QED
        BY <4>1, <4>2
    <3>2. ASSUME NEW i \in V(k) PROVE At(i) \in W(k)
      <4>1. At(i) \in History /\ At(i).index <= N
        BY <1>1, <1>2, HistoryRows
      <4>2. At(i).row = log[i]
        OBVIOUS
      <4> QED
        BY <4>1, <4>2
    <3> QED
      BY <3>1, <3>2
  <2>2. EmptyKv[k] = NoValue
    BY DEF EmptyKv
  <2>3. PICK X : X = V(k)
    OBVIOUS
  <2>4. PICK Y : Y = W(k)
    OBVIOUS
  <2>5. X \subseteq 0..N
    BY <2>3
  <2>6. Y = {At(i) : i \in X}
    BY <2>1, <2>3, <2>4
  <2>7. CASE X = {}
    <3>1. Y = {}
      BY <2>6, <2>7
    <3> QED
      BY <2>2, <2>3, <2>4, <2>7, <3>1
  <2>8. CASE X # {}
    <3>1. PICK x : x = Max(X)
      OBVIOUS
    <3>2. x \in X /\ \A y \in X : x >= y
      BY <1>3, <2>5, <2>8, <3>1, MaxExists
    <3>3. PICK c : c = CHOOSE a \in Y : \A b \in Y : b.index <= a.index
      OBVIOUS
    <3>4. At(x) \in Y /\ \A b \in Y : b.index <= At(x).index
      <4>1. At(x) \in Y /\ At(x).index = x
        BY <2>6, <3>2
      <4>2. ASSUME NEW b \in Y PROVE b.index <= x
        <5>1. PICK i \in X : b = At(i)
          BY <2>6
        <5>2. b.index = i /\ i \in Nat /\ x \in Nat /\ x >= i
          BY <2>5, <3>2, <5>1
        <5> QED
          BY <5>2
      <4> QED
        BY <4>1, <4>2
    <3>5. c \in Y /\ \A b \in Y : b.index <= c.index
      BY <3>3, <3>4
    <3>6. c = At(x)
      <4>1. PICK i \in X : c = At(i)
        BY <2>6, <3>5
      <4>2. c.index = i /\ At(x).index = x
        BY <4>1
      <4>3. x <= i /\ x >= i /\ i \in Nat /\ x \in Nat
        BY <2>5, <3>2, <3>4, <3>5, <4>2
      <4> QED
        BY <4>1, <4>3
    <3>7. Y # {}
      BY <3>5
    <3>8. F(k) = log[x].cmd.value
      BY <2>3, <2>8, <3>1
    <3>9. G(k) = c.row.cmd.value
      BY <2>4, <3>3, <3>7
    <3>10. c.row = log[x]
      BY <3>6
    <3> HIDE DEF F, G
    <3> QED
      BY <3>8, <3>9, <3>10
  <2> QED
    BY <2>7, <2>8
<1>5. KvAfter(EmptyKv, log, 1..N) = [k \in Key |-> F(k)]
  BY DEF KvAfter
<1>6. Replay(N) = [k \in Key |-> G(k)]
  BY DEF Replay
<1> HIDE DEF F, G
<1>7. [k \in Key |-> F(k)] = [k \in Key |-> G(k)]
  BY <1>4
<1> QED
  BY <1>1, <1>2, <1>5, <1>6, <1>7

\* The kv table is what the history gives, and there is no snapshot.
LEMMA SafeStateMachine == SafetyInv => DurableStateMachine
<1> SUFFICES ASSUME SafetyInv, NEW s \in Server
             PROVE  /\ node[s].store.kv = Replay(node[s].store.last_applied)
                    /\ node[s].store.snapshot_data = Replay(node[s].store.snapshot_index)
  BY DEF DurableStateMachine
<1>1. /\ node[s].lastApplied = node[s].store.last_applied
      /\ Executed(node[s]) /\ node[s].store.snapshot_index = 0
  BY DEF SafetyInv, CommitInv, LastAppliedIsDurable, CoreInv, MatchingInv, MatchInv,
         Uncompacted
<1>2. node[s].store.kv = Replay(node[s].lastApplied)
  BY <1>1, ReplayIs, SafeHistory DEF Executed
<1>3. Replay(0) = EmptyKv
  <2>1. ASSUME NEW k \in Key
        PROVE  {a \in History : a.index <= 0 /\ a.row.cmd.key = k} = {}
    BY HistorySettled
  <2> QED
    BY <2>1 DEF Replay, EmptyKv
<1>4. node[s].store.snapshot_data = EmptyKv
  BY <1>1 DEF Executed
<1> QED
  BY <1>1, <1>2, <1>3, <1>4

----------------------------------------------------------------------------
(* The theorems                                                            *)

\* lastApplied in memory is last_applied on disk in every state of a cluster
\* that compacts nothing: whatever transaction of ApplySet fails, memory goes
\* as far as the kv table, and a restart reads where it got to.
THEOREM LastAppliedDurable == NoCompaction => (Spec => []LastAppliedIsDurable)
<1> SUFFICES ASSUME NoCompaction PROVE Spec => []LastAppliedIsDurable
  OBVIOUS
<1>1. Init => LastAppliedIsDurable
  BY InitCommit DEF CommitInv
<1>2. MatchingInv /\ LastAppliedIsDurable /\ [Next]_vars => LastAppliedIsDurable'
  <2> SUFFICES ASSUME MatchingInv, LastAppliedIsDurable, [Next]_vars
               PROVE  LastAppliedIsDurable'
    OBVIOUS
  <2>1. TypeOK /\ ElectionInv /\ LogInv /\ Uncompacted
    BY DEF MatchingInv, MatchInv
  <2>2. CommitsMove
    BY <2>1, StepCommits
  <2> QED
    BY <2>2, StepDurable
<1>3. Spec => []MatchingInv
  BY MatchInvariant
<1> QED
  BY <1>1, <1>2, <1>3, PTL DEF Spec

\* Nobody takes a row for committed that it has not applied.
AllCaughtUp == \A s \in Server : CaughtUp(node[s])

\* A step of a cluster that compacts nothing and can apply every row.
LEMMA StepCaughtUp ==
    ASSUME NoLostApply, CommitsMove, AllCaughtUp
    PROVE  AllCaughtUp'
BY DEF CommitsMove, CommitMove, CaughtUp, AllCaughtUp

\* Outside its critical sections a node has applied all it takes for
\* committed, in every cluster that compacts nothing and whose stores can
\* always read a row, or its term, and apply it: advanceCommitLocked applies
\* what it commits, and applyCommittedLocked finds every row up to commitIndex,
\* after whatever truncation, merge or restart.
THEOREM CommittedIsApplied ==
    NoCompaction /\ NoLostApply => (Spec => []AllCaughtUp)
<1> SUFFICES ASSUME NoCompaction, NoLostApply PROVE Spec => []AllCaughtUp
  OBVIOUS
<1>1. Init => AllCaughtUp
  BY DEF Init, AllCaughtUp, CaughtUp
<1>2. MatchingInv /\ LastAppliedIsDurable /\ AllCaughtUp /\ [Next]_vars
            => AllCaughtUp'
  <2> SUFFICES ASSUME MatchingInv, LastAppliedIsDurable, AllCaughtUp, [Next]_vars
               PROVE  AllCaughtUp'
    OBVIOUS
  <2>1. TypeOK /\ ElectionInv /\ LogInv /\ Uncompacted
    BY DEF MatchingInv, MatchInv
  <2>2. CommitsMove
    BY <2>1, StepCommits
  <2> QED
    BY <2>2, StepCaughtUp
<1>3. (Spec => []MatchingInv) /\ (Spec => []LastAppliedIsDurable)
  BY MatchInvariant, LastAppliedDurable
<1> QED
  BY <1>1, <1>2, <1>3, PTL DEF Spec

\* SafetyInv holds in every reachable state of a cluster that compacts nothing,
\* whose stores do not lose a term and whose batches cut no request short.
THEOREM SafetyInvariant ==
    NoCompaction /\ NoLostTerm /\ FullBatch => (Spec => []SafetyInv)
<1> SUFFICES ASSUME NoCompaction, NoLostTerm, FullBatch PROVE Spec => []SafetyInv
  OBVIOUS
<1>1. Init => OrderInv /\ SentInv /\ CommitInv
  BY InitCommit
<1>2. SafetyInv /\ [Next]_vars => SafetyInv'
  BY StepSafety
<1>3. Spec => [](MatchingInv /\ AckInv)
  BY AckInvariant
<1> QED
  BY <1>1, <1>2, <1>3, PTL DEF Spec, SafetyInv, CoreInv

\* Nodes apply the same command at the same index (applyCommittedLocked of
\* every node, before and after restarts): no election, late request, lost
\* answer, truncation or failed transaction makes two state machines differ,
\* in every cluster without compaction, lost terms and short batches.
THEOREM StateMachinesAgree ==
    NoCompaction /\ NoLostTerm /\ FullBatch => (Spec => []StateMachineSafety)
BY SafetyInvariant, SafeHistory, PTL

\* The leader of the latest term has every row that any node has applied
\* (the comparison of logs in RequestVote and the commit rule of
\* advanceCommitLocked, which counts only rows of the leader's term), in those
\* clusters.
THEOREM LeadersAreComplete ==
    NoCompaction /\ NoLostTerm /\ FullBatch => (Spec => []LeaderCompleteness)
BY SafetyInvariant, SafeLeader, PTL

\* What a node has applied is in the stores of a majority, whatever restarts
\* and truncations come after (advanceCommitLocked, AppendEntries), in those
\* clusters.
THEOREM CommitsStayOnMajority ==
    NoCompaction /\ NoLostTerm /\ FullBatch => (Spec => []CommittedOnMajority)
BY SafetyInvariant, SafeMajority, PTL

\* The kv table of every store is what the commands up to last_applied give,
\* none lost and none applied out of order (ApplySet, which writes kv and
\* last_applied in one transaction), in those clusters.
THEOREM StateMachinesAreDurable ==
    NoCompaction /\ NoLostTerm /\ FullBatch => (Spec => []DurableStateMachine)
BY SafetyInvariant, SafeStateMachine, PTL

\* No node loses a row it has applied: a late or reordered AppendEntries
\* truncates nothing that is committed, in those clusters.
THEOREM AppliedRowsAreKept ==
    NoCompaction /\ NoLostTerm /\ FullBatch => (Spec => AppliedRowsStay)
<1> SUFFICES ASSUME NoCompaction, NoLostTerm, FullBatch
             PROVE  Spec => AppliedRowsStay
  OBVIOUS
<1> DEFINE Kept == \A s \in Server : \A a \in node[s].applied :
                        Holds(node[s].store, a.index, a.row) =>
                            Holds(node[s].store', a.index, a.row)
<1>1. SafetyInv /\ [Next]_vars => Kept
  <2> SUFFICES ASSUME SafetyInv, [Next]_vars, NEW s \in Server,
                      NEW a \in node[s].applied
               PROVE  Holds(node[s].store', a.index, a.row)
    OBVIOUS
  <2>1. SafetyInv' /\ Moves
    BY StepSafety
  <2>2. Executed(node[s])
    BY DEF SafetyInv, CommitInv
  <2>3. PICK i \in 1..node[s].lastApplied :
            a = [index |-> i, row |-> node[s].store.log_entries[i]]
    BY <2>2 DEF Executed
  <2>4. i \in 1..node[s].commitIndex
    <3>1. node[s].lastApplied \in Nat /\ node[s].commitIndex \in Nat
      <4>1. IsNode(node[s])
        BY DEF SafetyInv, CoreInv, MatchingInv, TypeOK
      <4>2. node[s].lastApplied \in Index /\ node[s].commitIndex \in Index
        BY <4>1 DEF IsNode
      <4> QED
        BY <4>2, RaftConstants DEF Index
    <3>2. node[s].lastApplied <= node[s].commitIndex
      BY <2>2 DEF Executed
    <3> QED
      BY <3>1, <3>2
  <2>5. /\ i \in DOMAIN node'[s].store.log_entries
        /\ node'[s].store.log_entries[i] = node[s].store.log_entries[i]
    BY <2>1, <2>4, OldCommitted DEF SafetyInv
  <2>6. a.index = i /\ a.row = node[s].store.log_entries[i]
    BY <2>3
  <2> QED
    BY <2>5, <2>6 DEF Holds
<1>2. Spec => []SafetyInv
  BY SafetyInvariant
<1>3. Spec => [][Next]_vars
  BY PTL DEF Spec
<1>4. Spec => [][Kept]_vars
  <2> HIDE DEF Kept
  <2> QED
    BY <1>1, <1>2, <1>3, PTL
<1> QED
  BY <1>4 DEF AppliedRowsStay
=============================================================================
