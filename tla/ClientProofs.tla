---------------------------- MODULE ClientProofs ----------------------------
(***************************************************************************)
(* The client calls of ClientService do nothing to the nodes that Raft     *)
(* does not allow: every behaviour of the composition is a behaviour of    *)
(* Raft, so every theorem about Raft holds with clients, their forwarded   *)
(* calls and their rounds of replication on top.  From elections it        *)
(* follows that a forwarded call cannot go in a circle (HopsClimb).        *)
(*                                                                         *)
(* Where committed rows are safe, what clients were told is true:          *)
(*  - WritesInv, AckedInv: the row that a Write waits for is in the log of *)
(*    its node for as long as that node leads the term of the row; when it *)
(*    is acknowledged, it is settled, and the leader has applied it.       *)
(*    Hence AcknowledgedIsCommitted.                                       *)
(*  - ReadsInv: when a round of Read begins, a majority has been in the    *)
(*    term of the last row acknowledged before the call.  The round counts *)
(*    answers of its own goroutines only (PendingInv), and each tells of   *)
(*    the term of its sender.  So a leader that is confirmed is in that    *)
(*    term or a later one, and if it has applied a row of its term, it has *)
(*    applied the acknowledged row.  Hence ReadsCurrent.                   *)
(***************************************************************************)
EXTENDS ClientService, RaftCommitProofs

----------------------------------------------------------------------------
(* The inductive invariant                                                 *)

Forwarded == [at : {"forwarded"}, req : Requests, node : Server, hop : Nat,
              floor : Index]

Writing == [at : {"write"}, req : Command, node : Server,
            todo : SUBSET Server, acks : SUBSET Server, index : Index,
            term : Nat]

Reading == [at : {"read"}, req : [key : Key], node : Server,
            todo : SUBSET Server, acks : SUBSET Server, floor : Index]

LookingUp == [at : {"lookup"}, req : [key : Key], node : Server,
              floor : Index, settled : BOOLEAN]

Answered == [at : {"answer"}, req : [key : Key], floor : Index,
             settled : BOOLEAN, value : Value \cup {NoValue}]

\* A call has the fields its place in Write or Read needs; its round, if any,
\* calls the peers of its node only; and a call that travels goes to a node
\* that won the term in which it was named.
OpOK(o, won) ==
    /\ o \in {Idling} \cup Forwarded \cup Writing \cup Reading
               \cup LookingUp \cup Answered
    /\ o.at \in {"write", "read"} => o.todo \subseteq Peers(o.node)
    /\ o.at = "forwarded" => [term |-> o.hop, leader |-> o.node] \in won

ClientInv ==
    /\ op = [c \in Client |-> op[c]]
    /\ \A c \in Client : OpOK(op[c], elected)
    /\ acked \subseteq [index : Index, row : Row]

----------------------------------------------------------------------------
\* The place of a call tells which fields it has.
LEMMA CallPlaces ==
    ASSUME ClientInv, NEW c \in Client
    PROVE  /\ At(c, "forwarded") => op[c] \in Forwarded
           /\ At(c, "write") => op[c] \in Writing
           /\ At(c, "read") => op[c] \in Reading
           /\ At(c, "lookup") => op[c] \in LookingUp
           /\ At(c, "answer") => op[c] \in Answered
<1>1. op[c] \in {Idling} \cup Forwarded \cup Writing \cup Reading
                    \cup LookingUp \cup Answered
  BY DEF ClientInv, OpOK
<1>2. /\ Idling.at = "client"
      /\ \A o \in Forwarded : o.at = "forwarded"
      /\ \A o \in Writing : o.at = "write"
      /\ \A o \in Reading : o.at = "read"
      /\ \A o \in LookingUp : o.at = "lookup"
      /\ \A o \in Answered : o.at = "answer"
  BY DEF Idling, Forwarded, Writing, Reading, LookingUp, Answered
<1> QED
  BY <1>1, <1>2 DEF At

\* The peers that a round still has to call are peers of its node.
LEMMA RoundPeers ==
    ASSUME ClientInv, NEW c \in Client, InRound(c), NEW p \in op[c].todo
    PROVE  op[c].node \in Server /\ p \in Peers(op[c].node)
<1>1. op[c] \in Writing \cup Reading
  BY CallPlaces DEF InRound
<1>2. op[c].todo \subseteq Peers(op[c].node)
  BY DEF ClientInv, OpOK, InRound, At
<1> QED
  BY <1>1, <1>2 DEF Writing, Reading

\* A step of the composition is a step of Raft, or leaves the nodes and their
\* messages as they are.
LEMMA ClientStepsAreRaftSteps ==
    ASSUME ClientInv, [ClientNext]_<<vars, clientVars>>
    PROVE  [Next]_vars
<1>1. ASSUME NEW c \in Client, ClientStep(c)
      PROVE  [Next]_vars
  <2>1. ASSUME NEW p \in Server, RoundSend(c, p)
        PROVE  Next
    <3>1. op[c].node \in Server /\ p \in Peers(op[c].node) /\ c \in Worker
      BY <2>1, RoundPeers, ClientConstants DEF RoundSend
    <3> QED
      BY <2>1, <3>1 DEF RoundSend, Next, LeaderStep
  <2>2. ASSUME NEW req \in Command, NEW s \in Server, NEW f \in Faults,
               WriteAppend(c, req, s, f)
        PROVE  Next
    BY <2>2 DEF WriteAppend, Next, LeaderStep
  <2> QED
    BY <1>1, <2>1, <2>2
       DEF ClientStep, Forward, NotLeader, CallFails, WriteSucceeds, WriteFails,
           WriteRetries, ReadStart, ReadConfirmed, ReadFails, ReadGet
<1>2. AnswerStep => Next
  BY DEF AnswerStep, Next, LeaderStep
<1>3. ASSUME NEW s \in Unstable, StopServer(s)
      PROVE  Next
  BY <1>3 DEF StopServer, Next, Misfortune
<1>4. NodeStep => Next
  BY DEF NodeStep, Next, LeaderStep, Misfortune
<1> QED
  BY <1>1, <1>2, <1>3, <1>4 DEF ClientNext

\* The index above which a Read must look is an index.
LEMMA FloorType ==
    ASSUME ClientInv, NEW c \in Client
    PROVE  Floor(c) \in Index
<1>1. CASE At(c, "forwarded")
  <2>1. op[c] \in Forwarded
    BY <1>1, CallPlaces
  <2> QED
    BY <1>1, <2>1 DEF Floor, Forwarded
<1>2. CASE ~At(c, "forwarded")
  <2> DEFINE S == {0} \cup {a.index : a \in acked}
  <2>1. MaxIndex \in Nat /\ S \subseteq 0..MaxIndex /\ S # {}
    BY RaftConstants DEF ClientInv, Index
  <2> HIDE DEF S
  <2>2. Max(S) \in S
    BY <2>1, MaxExists
  <2> QED
    BY <1>2, <2>1, <2>2 DEF Floor, S, Index
<1> QED
  BY <1>1, <1>2

\* One call moves on, the others stay where they are.
LEMMA OneCallMoves ==
    ASSUME ClientInv, NEW c \in Client, NEW o, OpOK(o, elected'), Becomes(c, o),
           elected \subseteq elected', acked' = acked
    PROVE  ClientInv'
<1>1. \A d \in Client : op'[d] = IF d = c THEN o ELSE op[d]
  BY DEF ClientInv, Becomes
<1>2. op' = [d \in Client |-> op'[d]]
  BY DEF ClientInv, Becomes
<1>3. \A d \in Client : OpOK(op'[d], elected')
  BY <1>1 DEF ClientInv, OpOK
<1> QED
  BY <1>2, <1>3 DEF ClientInv, OpOK

\* The counting of an answer keeps every call in order.
LEMMA CountKeeps ==
    ASSUME ClientInv, NEW r, r.dst \in Peers(r.src), NEW done \in BOOLEAN,
           Count(r, done), elected' = elected
    PROVE  ClientInv'
<1>1. ASSUME NEW c \in Client PROVE OpOK(Counted(c, r, done), elected')
  <2> DEFINE A == {p \in {r.dst} : done /\ At(c, "read")}
             D == {p \in {r.dst} : ~done}
             o == op[c]
  <2>1. CASE InRound(c) /\ Of(c, r)
    <3>1. /\ o \in Writing \cup Reading /\ o.todo \subseteq Peers(o.node)
          /\ A \subseteq Peers(o.node) /\ D \subseteq Peers(o.node)
      BY <2>1, CallPlaces DEF InRound, Of, At, ClientInv, OpOK
    <3> HIDE DEF A, D
    <3>2. LET x == [o EXCEPT !.acks = @ \cup A, !.todo = @ \cup D]
          IN  /\ x \in Writing \cup Reading
              /\ x.todo \subseteq Peers(x.node)
      BY <3>1 DEF Writing, Reading, Peers
    <3>3. \A x \in Writing \cup Reading : x.at # "forwarded"
      BY DEF Writing, Reading
    <3> QED
      BY <2>1, <3>2, <3>3, Zenon DEF Counted, OpOK, A, D
  <2>2. CASE ~(InRound(c) /\ Of(c, r))
    BY <2>2 DEF Counted, ClientInv
  <2> QED
    BY <2>1, <2>2
<1>2. /\ op' = [c \in Client |-> op'[c]]
      /\ \A c \in Client : op'[c] = Counted(c, r, done)
      /\ acked' = acked
  BY DEF Count
<1> QED
  BY <1>1, <1>2 DEF ClientInv, OpOK

\* A call that is idle again, on its way to a winner, in a round, looking up
\* its key or answered is in order.
LEMMA CallsInOrder ==
    ASSUME NEW won
    PROVE  /\ OpOK(Idling, won)
           /\ \A o \in Forwarded :
                    [term |-> o.hop, leader |-> o.node] \in won => OpOK(o, won)
           /\ \A o \in Writing \cup Reading :
                    o.todo \subseteq Peers(o.node) => OpOK(o, won)
           /\ \A o \in LookingUp \cup Answered : OpOK(o, won)
<1>1. /\ Idling.at = "client"
      /\ \A o \in Forwarded : o.at = "forwarded"
      /\ \A o \in Writing : o.at = "write"
      /\ \A o \in Reading : o.at = "read"
      /\ \A o \in LookingUp : o.at = "lookup"
      /\ \A o \in Answered : o.at = "answer"
  BY DEF Idling, Forwarded, Writing, Reading, LookingUp, Answered
<1> QED
  BY <1>1 DEF OpOK

\* Each step of a call keeps every call in order.
LEMMA CallStepInv ==
    ASSUME TypeOK, ElectionInv, ClientInv, NEW c \in Client, ClientStep(c),
           elected \subseteq elected'
    PROVE  ClientInv'
<1>1. ASSUME NEW req \in Requests, NEW s \in Server, Forward(c, req, s)
      PROVE  ClientInv'
  <2> DEFINE n == node[s]
             o == [at |-> "forwarded", req |-> req, node |-> n.leaderID,
                   hop |-> n.currentTerm, floor |-> Floor(c)]
  <2>1. /\ n.leaderID \in Server /\ n.currentTerm \in Nat
        /\ [term |-> n.currentTerm, leader |-> n.leaderID] \in elected
    BY <1>1, NodeFacts, RaftConstants DEF Forward, Peers, HintInv
  <2>2. o \in Forwarded /\ o.hop = n.currentTerm /\ o.node = n.leaderID
    BY <2>1, FloorType DEF Forwarded
  <2>3. Becomes(c, o) /\ acked' = acked
    BY <1>1 DEF Forward
  <2> HIDE DEF o
  <2>4. OpOK(o, elected')
    BY <2>1, <2>2, CallsInOrder
  <2> QED
    BY <2>3, <2>4, OneCallMoves
<1>2. NotLeader(c) \/ CallFails(c) \/ WriteFails(c) \/ ReadFails(c) => ClientInv'
  BY CallsInOrder, OneCallMoves DEF NotLeader, CallFails, WriteFails, ReadFails
<1>3. ASSUME InRound(c), NEW T \in SUBSET Peers(op[c].node), acked' = acked,
             op' = [op EXCEPT ![c].todo = T]
      PROVE  ClientInv'
  <2> DEFINE o == [op[c] EXCEPT !.todo = T]
  <2>1. op[c] \in Writing \cup Reading
    BY <1>3, CallPlaces DEF InRound
  <2>2. o \in Writing \cup Reading /\ o.todo \subseteq Peers(o.node)
    BY <2>1 DEF Writing, Reading, Peers
  <2>3. Becomes(c, o)
    BY <1>3 DEF Becomes, ClientInv
  <2> HIDE DEF o
  <2> QED
    BY <1>3, <2>2, <2>3, CallsInOrder, OneCallMoves
<1>4. ASSUME NEW p \in Server, RoundSend(c, p)
      PROVE  ClientInv'
  <2>1. /\ InRound(c) /\ acked' = acked
        /\ op' = [op EXCEPT ![c].todo = op[c].todo \ {p}]
    BY <1>4, CallPlaces DEF RoundSend, ClientInv
  <2>2. op[c].todo \ {p} \subseteq Peers(op[c].node)
    BY <2>1 DEF ClientInv, OpOK, InRound, At
  <2> QED
    BY <1>3, <2>1, <2>2
<1>5. ASSUME WriteRetries(c)
      PROVE  ClientInv'
  BY <1>3, <1>5 DEF WriteRetries, InRound
<1>6. ASSUME NEW req \in Command, NEW s \in Server, NEW f \in Faults,
             WriteAppend(c, req, s, f)
      PROVE  ClientInv'
  <2> DEFINE i == LastIndex(node[s].store) + 1
             o == [at |-> "write", req |-> req, node |-> s,
                   todo |-> Peers(s), acks |-> {}, index |-> i,
                   term |-> node[s].currentTerm]
  <2>1. i \in Index
    <3>1. LastIndex(node[s].store) \in Index /\ i <= MaxIndex
      BY <1>6, NodeFacts, LastIndexType DEF WriteAppend, Write
    <3> QED
      BY <3>1 DEF Index
  <2>2. Becomes(c, o) /\ acked' = acked
    BY <1>6 DEF WriteAppend
  <2> HIDE DEF i
  <2>3. o \in Writing /\ o.todo = Peers(o.node)
    BY <2>1, NodeFacts DEF Writing, Peers
  <2> HIDE DEF o
  <2> QED
    BY <2>2, <2>3, CallsInOrder, OneCallMoves
<1>7. ASSUME WriteSucceeds(c)
      PROVE  ClientInv'
  <2> DEFINE a == [index |-> op[c].index,
                   row |-> [term |-> op[c].term, cmd |-> op[c].req]]
  <2>1. a \in [index : Index, row : Row]
    BY <1>7, CallPlaces DEF WriteSucceeds, Writing, Row
  <2>2. acked' = acked \cup {a} /\ Becomes(c, Idling) /\ UNCHANGED vars
    BY <1>7 DEF WriteSucceeds
  <2> HIDE DEF a
  <2>3. /\ op' = [d \in Client |-> op'[d]]
        /\ \A d \in Client : op'[d] = IF d = c THEN Idling ELSE op[d]
    BY <2>2 DEF Becomes, ClientInv
  <2>4. \A d \in Client : OpOK(op'[d], elected')
    BY <2>2, <2>3, CallsInOrder DEF ClientInv, OpOK
  <2> QED
    BY <2>1, <2>2, <2>3, <2>4 DEF ClientInv, OpOK
<1>8. ASSUME NEW req \in [key : Key], NEW s \in Server, ReadStart(c, req, s)
      PROVE  ClientInv'
  <2> DEFINE o == [at |-> "read", req |-> req, node |-> s,
                   todo |-> Peers(s), acks |-> {}, floor |-> Floor(c)]
  <2>1. o \in Reading /\ o.todo = Peers(o.node)
    BY FloorType DEF Reading, Peers
  <2>2. Becomes(c, o) /\ acked' = acked
    BY <1>8 DEF ReadStart
  <2> HIDE DEF o
  <2> QED
    BY <2>1, <2>2, CallsInOrder, OneCallMoves
<1>9. ASSUME ReadConfirmed(c)
      PROVE  ClientInv'
  <2> DEFINE b == AppliedInTerm(node[op[c].node])
             o == [at |-> "lookup", req |-> op[c].req, node |-> op[c].node,
                   floor |-> op[c].floor, settled |-> b]
  <2>1. b \in BOOLEAN /\ op[c] \in Reading
    BY <1>9, CallPlaces DEF ReadConfirmed, AppliedInTerm
  <2>2. Becomes(c, o) /\ acked' = acked
    BY <1>9 DEF ReadConfirmed
  <2> HIDE DEF b
  <2>3. o \in LookingUp
    BY <2>1 DEF Reading, LookingUp
  <2> HIDE DEF o
  <2> QED
    BY <2>2, <2>3, CallsInOrder, OneCallMoves
<1>10. ASSUME ReadGet(c)
       PROVE  ClientInv'
  <2> DEFINE v == node[op[c].node].store.kv[op[c].req.key]
             o == [at |-> "answer", req |-> op[c].req, floor |-> op[c].floor,
                   settled |-> op[c].settled, value |-> v]
  <2>1. op[c] \in LookingUp
    BY <1>10, CallPlaces DEF ReadGet
  <2>2. v \in Value \cup {NoValue}
    BY <2>1, NodeFacts DEF LookingUp, IsStore, KvTables
  <2>3. Becomes(c, o) /\ acked' = acked
    BY <1>10 DEF ReadGet
  <2> HIDE DEF v
  <2>4. o \in Answered
    BY <2>1, <2>2 DEF LookingUp, Answered
  <2> HIDE DEF o
  <2> QED
    BY <2>3, <2>4, CallsInOrder, OneCallMoves
<1> QED
  BY <1>1, <1>2, <1>4, <1>5, <1>6, <1>7, <1>8, <1>9, <1>10 DEF ClientStep

----------------------------------------------------------------------------
(* Theorems                                                                *)

CompositionInv == TypeOK /\ ElectionInv /\ AnswersInv /\ ClientInv

\* Every step of clients and nodes keeps the invariant.
LEMMA CompositionStep ==
    CompositionInv /\ [ClientNext]_<<vars, clientVars>> => CompositionInv'
<1> SUFFICES ASSUME TypeOK, ElectionInv, AnswersInv, ClientInv,
                    [ClientNext]_<<vars, clientVars>>
             PROVE  CompositionInv'
  BY DEF CompositionInv
<1>1. [Next]_vars
  BY ClientStepsAreRaftSteps
<1>2. TypeOK' /\ ElectionInv' /\ AnswersInv' /\ elected \subseteq elected'
  BY <1>1, StepInv, AnswersStep, ElectedGrows
<1>3. ASSUME UNCHANGED clientVars PROVE ClientInv'
  BY <1>2, <1>3 DEF clientVars, ClientInv, OpOK
<1>4. ASSUME AnswerStep PROVE ClientInv'
  <2>1. PICK r \in appendReps \cup snapReps, done \in BOOLEAN :
            Count(r, done) /\ elected' = elected
    BY <1>4 DEF AnswerStep, AppendReplySuccess, AppendReplyFailure,
                SnapReplySuccess
  <2>2. r.dst \in Peers(r.src)
    BY DEF TypeOK, AppendReps, SnapReps, AnswersInv, Peers
  <2> QED
    BY <2>1, <2>2, CountKeeps
<1>5. ASSUME NEW s \in Unstable, StopServer(s) PROVE ClientInv'
  <2>1. /\ op' = [c \in Client |-> op'[c]] /\ acked' = acked
        /\ \A c \in Client : op'[c] \in {Idling, op[c]}
    BY <1>5 DEF StopServer
  <2>2. \A c \in Client : OpOK(op'[c], elected')
    BY <1>2, <2>1, CallsInOrder DEF ClientInv, OpOK
  <2> QED
    BY <2>1, <2>2 DEF ClientInv, OpOK
<1>6. ClientInv'
  BY <1>2, <1>3, <1>4, <1>5, CallStepInv DEF ClientNext
<1> QED
  BY <1>2, <1>6 DEF CompositionInv

\* The calls of clients are in order in every reachable state.
THEOREM CompositionInvariant == ClientSpec => []CompositionInv
<1>1. ClientInit => CompositionInv
  <2> SUFFICES ASSUME ClientInit PROVE CompositionInv
    OBVIOUS
  <2>1. TypeOK /\ ElectionInv /\ AnswersInv
    BY InitType, InitElection DEF ClientInit, Init, AnswersInv
  <2>2. ClientInv
    BY CallsInOrder DEF ClientInit, ClientInv
  <2> QED
    BY <2>1, <2>2 DEF CompositionInv
<1> QED
  BY <1>1, CompositionStep, PTL DEF ClientSpec

\* With any clients on top, whatever they call, forward, retry and give up,
\* the nodes behave as Raft says: every theorem about Spec is one about the
\* composition (Write, Read and replicateAllOnce add no step of their own).
THEOREM ClientsImplementRaft == ClientSpec => Spec
<1>1. ClientInit => Init
  BY DEF ClientInit
<1>2. CompositionInv /\ [ClientNext]_<<vars, clientVars>> => [Next]_vars
  BY ClientStepsAreRaftSteps DEF CompositionInv
<1> QED
  BY <1>1, <1>2, CompositionInvariant, PTL DEF ClientSpec, Spec

\* A call that Write or Read forwards, although leaderID was looked up before
\* it travelled, finds a leader, a node that knows none, or a later term than
\* that of the node that forwarded it: the terms climb, so it never circles.
THEOREM ForwardedCallsClimb == ClientSpec => []HopsClimb
<1>1. CompositionInv => HopsClimb
  <2> SUFFICES ASSUME TypeOK, ElectionInv, ClientInv, NEW c \in Client,
                      At(c, "forwarded")
               PROVE  LET n == node[op[c].node]
                      IN  \/ n.role = "leader"
                          \/ n.leaderID = Nobody
                          \/ n.currentTerm > op[c].hop
    BY DEF CompositionInv, HopsClimb
  <2> DEFINE l == op[c].node
             T == op[c].hop
             e == [term |-> T, leader |-> l]
  <2>1. l \in Server /\ T \in Nat /\ e \in elected
    BY CallPlaces DEF Forwarded, ClientInv, OpOK, At
  <2>2. node[l].currentTerm >= T
    BY <2>1, WinnerTerm
  <2>3. ASSUME node[l].currentTerm = T, node[l].leaderID # Nobody
        PROVE  node[l].role = "leader"
    <3>1. [term |-> T, leader |-> node[l].leaderID] \in elected
      BY <2>1, <2>3, NodeFacts DEF HintInv
    <3>2. node[l].leaderID = l
      BY <2>1, <3>1 DEF ElectionInv, ElectionSafety
    <3> QED
      BY <2>1, <3>2, NodeFacts DEF HintInv
  <2> QED
    BY <2>1, <2>2, <2>3, NodeFacts
<1> QED
  BY <1>1, CompositionInvariant, PTL

----------------------------------------------------------------------------
(* What a step does to one call                                            *)

\* The round of call c goes on.  Whoever it counts has answered the node in
\* the term it is in.
RoundGoesOn(c) ==
    LET o == op[c]
        n == op'[c]
    IN  /\ InRound(c) /\ n.at = o.at /\ n.node = o.node
        /\ At(c, "write") =>
                <<n.req, n.index, n.term>> = <<o.req, o.index, o.term>>
        /\ At(c, "read") =>
                /\ n.floor = o.floor
                /\ \A v \in n.acks : \/ v \in o.acks
                                     \/ \E r \in appendReps :
                                            /\ r.success /\ Of(c, r) /\ r.dst = v
                                            /\ r.term = node[o.node].currentTerm

CallGoesOn(c) ==
    \/ op'[c] = op[c]
    \/ op'[c] = Idling
    \/ RoundGoesOn(c)
    \/ \E req \in Requests, s \in Server : Forward(c, req, s)
    \/ \E req \in Command, s \in Server, f \in Faults : WriteAppend(c, req, s, f)
    \/ \E req \in [key : Key], s \in Server : ReadStart(c, req, s)
    \/ ReadConfirmed(c)
    \/ ReadGet(c)

\* A round that only has other peers to call.
LEMMA TodoGoesOn ==
    ASSUME ClientInv, NEW c \in Client, InRound(c), NEW T,
           op'[c] = [op[c] EXCEPT !.todo = T]
    PROVE  RoundGoesOn(c)
<1>1. op[c] \in Writing \cup Reading
  BY CallPlaces DEF InRound
<1>2. /\ At(c, "write") => op[c] \in Writing
      /\ At(c, "read") => op[c] \in Reading
  BY CallPlaces
<1>3. /\ op'[c].at = op[c].at /\ op'[c].node = op[c].node
      /\ op'[c].req = op[c].req
  BY <1>1 DEF Writing, Reading
<1>4. At(c, "write") => op'[c].index = op[c].index /\ op'[c].term = op[c].term
  BY <1>2 DEF Writing
<1>5. At(c, "read") => op'[c].floor = op[c].floor /\ op'[c].acks = op[c].acks
  BY <1>2 DEF Reading
<1> QED
  BY <1>3, <1>4, <1>5 DEF RoundGoesOn

\* An answer that is counted, or sends its goroutine round its loop again.
LEMMA CountGoesOn ==
    ASSUME ClientInv, NEW c \in Client, NEW r \in appendReps,
           NEW done \in BOOLEAN, op'[c] = Counted(c, r, done),
           done => r.success /\ r.term = node[r.src].currentTerm
    PROVE  op'[c] = op[c] \/ RoundGoesOn(c)
<1>1. CASE ~(InRound(c) /\ Of(c, r))
  BY <1>1 DEF Counted
<1>2. CASE InRound(c) /\ Of(c, r)
  <2> DEFINE A == {p \in {r.dst} : done /\ At(c, "read")}
             D == {p \in {r.dst} : ~done}
  <2>1. op'[c] = [op[c] EXCEPT !.acks = @ \cup A, !.todo = @ \cup D]
    BY <1>2 DEF Counted
  <2>2. \A v \in A : done /\ v = r.dst
    OBVIOUS
  <2> HIDE DEF A, D
  <2>3. op[c] \in Writing \cup Reading
    BY <1>2, CallPlaces DEF InRound
  <2>4. /\ At(c, "write") => op[c] \in Writing
        /\ At(c, "read") => op[c] \in Reading
    BY CallPlaces
  <2>5. /\ op'[c].at = op[c].at /\ op'[c].node = op[c].node
        /\ op'[c].req = op[c].req
    BY <2>1, <2>3 DEF Writing, Reading
  <2>6. At(c, "write") => op'[c].index = op[c].index /\ op'[c].term = op[c].term
    BY <2>1, <2>4 DEF Writing
  <2>7. At(c, "read") => op'[c].floor = op[c].floor /\ op'[c].acks = op[c].acks \cup A
    BY <2>1, <2>4 DEF Reading
  <2>8. r.src = op[c].node
    BY <1>2 DEF Of
  <2> QED
    BY <1>2, <2>2, <2>5, <2>6, <2>7, <2>8 DEF RoundGoesOn
<1> QED
  BY <1>1, <1>2

\* That is all that happens to a call, where nobody sends snapshots.
LEMMA StepCalls ==
    ASSUME ClientInv, snapReps = {}, [ClientNext]_<<vars, clientVars>>,
           NEW c \in Client
    PROVE  CallGoesOn(c)
<1>1. ASSUME NEW d \in Client, NEW o, Becomes(d, o), d # c
      PROVE  op'[c] = op[c]
  BY <1>1 DEF Becomes, ClientInv
<1>2. ASSUME Becomes(c, Idling)
      PROVE  op'[c] = Idling
  BY <1>2 DEF Becomes, ClientInv
<1>3. ASSUME NEW d \in Client, NEW T, op' = [op EXCEPT ![d].todo = T], InRound(d)
      PROVE  op'[c] = op[c] \/ RoundGoesOn(c)
  <2>1. CASE d = c
    <3>1. op'[c] = [op[c] EXCEPT !.todo = T]
      BY <1>3, <2>1 DEF ClientInv
    <3> QED
      BY <1>3, <2>1, <3>1, TodoGoesOn
  <2>2. CASE d # c
    BY <1>3, <2>2 DEF ClientInv
  <2> QED
    BY <2>1, <2>2
<1>4. ASSUME NEW d \in Client, ClientStep(d)
      PROVE  CallGoesOn(c)
  <2>1. ASSUME NEW p \in Server, RoundSend(d, p)
        PROVE  CallGoesOn(c)
    <3>1. op' = [op EXCEPT ![d].todo = op[d].todo \ {p}] /\ InRound(d)
      BY <2>1, CallPlaces DEF RoundSend, ClientInv
    <3> QED
      BY <1>3, <3>1 DEF CallGoesOn
  <2>2. ASSUME WriteRetries(d)
        PROVE  CallGoesOn(c)
    <3>1. op' = [op EXCEPT ![d].todo = Peers(op[d].node)] /\ InRound(d)
      BY <2>2 DEF WriteRetries, InRound
    <3> QED
      BY <1>3, <3>1 DEF CallGoesOn
  <2>3. CASE d = c
    BY <1>2, <1>4, <2>1, <2>2, <2>3
       DEF ClientStep, CallGoesOn, NotLeader, CallFails, WriteSucceeds,
           WriteFails, ReadFails
  <2>4. CASE d # c
    <3>1. (\E o : Becomes(d, o)) => CallGoesOn(c)
      BY <1>1, <2>4 DEF CallGoesOn
    <3> QED
      BY <1>4, <2>1, <2>2, <3>1
         DEF ClientStep, Forward, NotLeader, CallFails, WriteAppend,
             WriteSucceeds, WriteFails, ReadStart, ReadConfirmed, ReadFails,
             ReadGet
  <2> QED
    BY <2>3, <2>4
<1>5. ASSUME AnswerStep PROVE CallGoesOn(c)
  <2>1. PICK r \in appendReps, done \in BOOLEAN :
            /\ Count(r, done)
            /\ done => r.success /\ r.term = node[r.src].currentTerm
    BY <1>5 DEF AnswerStep, AppendReplySuccess, AppendReplyFailure,
                SameLeadership
  <2>2. op'[c] = Counted(c, r, done)
    BY <2>1 DEF Count
  <2> QED
    BY <2>1, <2>2, CountGoesOn DEF CallGoesOn
<1>6. ASSUME NEW s \in Unstable, StopServer(s) PROVE CallGoesOn(c)
  BY <1>6 DEF StopServer, CallGoesOn
<1>7. ASSUME UNCHANGED clientVars PROVE CallGoesOn(c)
  BY <1>7 DEF clientVars, CallGoesOn
<1> QED
  BY <1>4, <1>5, <1>6, <1>7 DEF ClientNext

----------------------------------------------------------------------------
(* Writes that were acknowledged                                           *)

\* A Write waits for a row that its node has written as the winner of a term,
\* and has in its log for as long as it leads that term.
WriteInv(c) ==
    At(c, "write") =>
        LET o   == op[c]
            log == node[o.node].store.log_entries
        IN  /\ [term |-> o.term, leader |-> o.node] \in elected
            /\ Leads(o.node, o.term) =>
                    /\ o.index \in DOMAIN log
                    /\ log[o.index] = [term |-> o.term, cmd |-> o.req]

\* What was acknowledged is settled.
WritesInv == /\ \A c \in Client : WriteInv(c)
             /\ \A a \in acked : Settled(a.index, a.row, a.row.term)

\* The leader that acknowledged a row has applied it.
AppliedBy(a, t) == /\ [term |-> a.row.term, leader |-> t] \in elected
                   /\ a \in node[t].applied

AckedInv == \A a \in acked : \E t \in Server : AppliedBy(a, t)

\* What is known of the nodes in a step of the composition, with the
\* hypotheses under which committed rows are safe.
NodesMove ==
    /\ SafetyInv /\ SafetyInv' /\ Moves /\ AcksMove /\ CommitsMove
    /\ CompositionInv /\ CompositionInv' /\ [ClientNext]_<<vars, clientVars>>

\* SafetyInv in its parts.
LEMMA SafetyParts ==
    ASSUME SafetyInv
    PROVE  /\ CoreInv /\ CommitInv /\ TypeOK /\ ElectionInv /\ LogInv
           /\ MatchInv /\ Uncompacted /\ OrderInv /\ LastAppliedIsDurable
BY DEF SafetyInv, CoreInv, MatchingInv, MatchInv, CommitInv

\* That is so in every step.
LEMMA StepNodes ==
    ASSUME NoCompaction, NoLostTerm, FullBatch, SafetyInv, CompositionInv,
           [ClientNext]_<<vars, clientVars>>
    PROVE  NodesMove
<1>1. [Next]_vars
  BY ClientStepsAreRaftSteps DEF CompositionInv
<1>2. SafetyInv' /\ Moves
  BY <1>1, StepSafety
<1>3. AcksMove
  BY <1>1, StepCore DEF SafetyInv
<1>4. CommitsMove
  BY <1>1, SafetyParts, StepCommits
<1>5. CompositionInv'
  BY CompositionStep
<1> QED
  BY <1>2, <1>3, <1>4, <1>5 DEF NodesMove

\* Only WriteSucceeds acknowledges.
LEMMA NewAcked ==
    ASSUME [ClientNext]_<<vars, clientVars>>
    PROVE  \/ acked' = acked
           \/ \E c \in Client : WriteSucceeds(c)
BY DEF ClientNext, ClientStep, Forward, NotLeader, CallFails, RoundSend,
       WriteAppend, WriteFails, WriteRetries, ReadStart, ReadConfirmed,
       ReadFails, ReadGet, AnswerStep, Count, StopServer, clientVars

\* The row that Write appends.
LEMMA WriteRow ==
    ASSUME NoCompaction, TypeOK, ElectionInv, LogInv, NEW s \in Server,
           NEW req \in Command, NEW f, Write(s, req, f)
    PROVE  LET i   == LastIndex(node[s].store) + 1
               T   == node[s].currentTerm
               log == node'[s].store.log_entries
           IN  /\ [term |-> T, leader |-> s] \in elected
               /\ i \in DOMAIN log /\ log[i] = [term |-> T, cmd |-> req]
<1> DEFINE n == node[s]
           i == LastIndex(n.store) + 1
           row == [term |-> n.currentTerm, cmd |-> req]
           rows == [j \in {i} |-> row]
           st == AppendEntries(n.store, rows)
           k == [n EXCEPT !.store = st, !.matchIndex[s] = i]
           m == IF Majority = 1 THEN advanceCommitLocked(k, s, f) ELSE k
<1>1. n.role = "leader" /\ i <= MaxIndex /\ node'[s] = m
  BY DEF Write, TypeOK
<1>2. [term |-> n.currentTerm, leader |-> s] \in elected
  BY <1>1, NodeFacts DEF HintInv
<1>3. IsNode(n) /\ IsStore(n.store) /\ GapFree(n.store) /\ row \in Row
  BY NodeFacts DEF LogInv, Row
<1>4. IsNode(k)
  BY <1>1, <1>3, WrittenNodeType
<1>5. k.store = st
  BY <1>3 DEF IsNode
<1>6. i \in DOMAIN st.log_entries /\ st.log_entries[i] = row
  BY <1>3 DEF AppendEntries, IsStore
<1> HIDE DEF k, st, row, i, n
<1>7. SameLog(k.store, m.store)
  <2>1. SameLog(k.store, advanceCommitLocked(k, s, f).store)
    BY <1>4, AdvanceRest, RestSame
  <2>2. SameLog(k.store, k.store)
    BY DEF SameLog
  <2> QED
    BY <2>1, <2>2
<1> HIDE DEF m
<1> QED
  BY <1>1, <1>2, <1>5, <1>6, <1>7 DEF SameLog, n, i, row

\* A node that leads a term it had won before the step has what it had.
LEMMA LeaderKeeps ==
    ASSUME NodesMove, NEW s \in Server, NEW T,
           [term |-> T, leader |-> s] \in elected, Leads(s, T)',
           NEW i, Leads(s, T) => i \in DOMAIN node[s].store.log_entries
    PROVE  /\ Leads(s, T) /\ i \in DOMAIN node'[s].store.log_entries
           /\ node'[s].store.log_entries[i] = node[s].store.log_entries[i]
<1>1. /\ Leads(s, T)
      /\ Agree(node[s].store.log_entries, node'[s].store.log_entries,
               LastIndex(node[s].store))
  BY DEF NodesMove, Moves, LeadersMove, Leads
<1>2. i \in DOMAIN node[s].store.log_entries /\ i <= LastIndex(node[s].store)
  <2>1. GapFree(node[s].store) /\ IsStore(node[s].store)
    BY SafetyParts DEF NodesMove, LogInv, TypeOK, IsNode
  <2>2. DOMAIN node[s].store.log_entries
            = (node[s].store.snapshot_index + 1)..LastIndex(node[s].store)
    BY <2>1, GapFreeFacts
  <2> QED
    BY <1>1, <2>2
<1> QED
  BY <1>1, <1>2 DEF Agree

\* What a Write waits for, after a step.
LEMMA WriteKept ==
    ASSUME NoCompaction, NodesMove, NEW c \in Client, WriteInv(c)
    PROVE  WriteInv(c)'
<1>1. /\ TypeOK /\ ElectionInv /\ LogInv /\ Uncompacted /\ ClientInv /\ ClientInv'
      /\ elected \subseteq elected'
  BY SafetyParts DEF NodesMove, CompositionInv, Moves
<1>2. CallGoesOn(c)
  BY <1>1, StepCalls DEF NodesMove, Uncompacted
<1>3. ASSUME At(c, "write"), op'[c].node = op[c].node,
             <<op'[c].req, op'[c].index, op'[c].term>>
                = <<op[c].req, op[c].index, op[c].term>>
      PROVE  WriteInv(c)'
  <2>6. PICK s, T, i : s = op[c].node /\ T = op[c].term /\ i = op[c].index
    OBVIOUS
  <2>1. op[c] \in Writing
    BY <1>1, <1>3, CallPlaces
  <2>2. s \in Server
    BY <2>1, <2>6 DEF Writing
  <2>3. /\ [term |-> T, leader |-> s] \in elected
        /\ Leads(s, T) =>
                /\ i \in DOMAIN node[s].store.log_entries
                /\ node[s].store.log_entries[i] = [term |-> T, cmd |-> op[c].req]
    BY <1>3, <2>6 DEF WriteInv
  <2>5. op'[c].node = s /\ op'[c].index = i /\ op'[c].term = T /\ op'[c].req = op[c].req
    BY <1>3, <2>6
  <2>4. Leads(s, T)' =>
            /\ i \in DOMAIN node'[s].store.log_entries
            /\ node'[s].store.log_entries[i] = [term |-> T, cmd |-> op[c].req]
    BY <2>2, <2>3, LeaderKeeps
  <2> QED
    BY <1>1, <2>3, <2>4, <2>5 DEF WriteInv, Leads
<1>4. CASE op'[c] = op[c]
  BY <1>3, <1>4 DEF WriteInv, At
<1>5. CASE RoundGoesOn(c)
  BY <1>3, <1>5 DEF RoundGoesOn, WriteInv, At
<1>6. CASE \E req \in Command, s \in Server, f \in Faults : WriteAppend(c, req, s, f)
  <2>1. PICK req \in Command, s \in Server, f \in Faults : WriteAppend(c, req, s, f)
    BY <1>6
  <2> DEFINE i == LastIndex(node[s].store) + 1
             T == node[s].currentTerm
  <2>2. /\ op'[c].node = s /\ op'[c].req = req /\ op'[c].index = i
        /\ op'[c].term = T
    BY <1>1, <2>1 DEF WriteAppend, Becomes, ClientInv
  <2>3. /\ [term |-> T, leader |-> s] \in elected
        /\ i \in DOMAIN node'[s].store.log_entries
        /\ node'[s].store.log_entries[i] = [term |-> T, cmd |-> req]
    BY <1>1, <2>1, WriteRow DEF WriteAppend
  <2> HIDE DEF i, T
  <2> QED
    BY <1>1, <2>2, <2>3 DEF WriteInv
<1>7. ASSUME NEW o, Becomes(c, o), o.at # "write" PROVE WriteInv(c)'
  <2>1. op'[c] = o
    BY <1>1, <1>7 DEF Becomes, ClientInv
  <2> QED
    BY <1>7, <2>1 DEF WriteInv, At
<1>8. CASE op'[c] = Idling
  BY <1>8 DEF WriteInv, At, Idling
<1> QED
  BY <1>2, <1>4, <1>5, <1>6, <1>7, <1>8
     DEF CallGoesOn, Forward, ReadStart, ReadConfirmed, ReadGet

\* A Write that succeeds: the row is the one in the log of its node, which
\* leads and has committed it.
LEMMA SuccessRow ==
    ASSUME SafetyInv, ClientInv, NEW c \in Client, WriteInv(c), WriteSucceeds(c)
    PROVE  LET o   == op[c]
               row == [term |-> o.term, cmd |-> o.req]
               log == node[o.node].store.log_entries
           IN  /\ acked' = acked \cup {[index |-> o.index, row |-> row]}
               /\ UNCHANGED vars /\ o.node \in Server /\ o.index \in Nat
               /\ [term |-> o.term, leader |-> o.node] \in elected
               /\ o.index \in 1..node[o.node].commitIndex /\ log[o.index] = row
               /\ o.term \in Nat /\ node[o.node].currentTerm = o.term
<1>1. op[c] \in Writing /\ At(c, "write") /\ WriteCommitted(node[op[c].node], op[c])
  BY CallPlaces DEF WriteSucceeds
<1>2. op[c].node \in Server /\ op[c].index \in Nat /\ op[c].term \in Nat
  BY <1>1, RaftConstants DEF Writing, Index
<1>3. Leads(op[c].node, op[c].term) /\ node[op[c].node].commitIndex >= op[c].index
  BY <1>1 DEF WriteCommitted, Leads
<1>4. /\ op[c].index \in DOMAIN node[op[c].node].store.log_entries
      /\ node[op[c].node].store.log_entries[op[c].index]
            = [term |-> op[c].term, cmd |-> op[c].req]
      /\ [term |-> op[c].term, leader |-> op[c].node] \in elected
  BY <1>1, <1>3 DEF WriteInv
<1>5. op[c].index > 0 /\ node[op[c].node].commitIndex \in Nat
  <2>1. IsNode(node[op[c].node])
    BY <1>2, SafetyParts DEF TypeOK
  <2> QED
    BY <1>2, <1>4, <2>1, RaftConstants DEF IsNode, IsStore, IsTable, Index
<1>6. op[c].index \in 1..node[op[c].node].commitIndex
  BY <1>2, <1>3, <1>5
<1> QED
  BY <1>2, <1>3, <1>4, <1>6 DEF WriteSucceeds, Leads

\* Writes after a step.
LEMMA WritesStep ==
    ASSUME NoCompaction, NodesMove, WritesInv
    PROVE  WritesInv'
<1>1. ASSUME NEW c \in Client PROVE WriteInv(c)'
  BY WriteKept DEF WritesInv
<1>2. SafetyInv /\ CoreInv /\ CoreInv' /\ Moves /\ CommitInv /\ ClientInv
  BY SafetyParts DEF NodesMove, SafetyInv, CompositionInv
<1>3. ASSUME NEW a \in acked PROVE Settled(a.index, a.row, a.row.term)'
  <2>1. Settled(a.index, a.row, a.row.term) /\ a.row.term \in Nat
    BY <1>2 DEF WritesInv, ClientInv, Row
  <2>2. PICK i, row, T : i = a.index /\ row = a.row /\ T = a.row.term
    OBVIOUS
  <2>3. Settled(i, row, T)'
    BY <1>2, <2>1, <2>2, SettledKept
  <2> QED
    BY <2>2, <2>3
<1>4. ASSUME NEW c \in Client, WriteSucceeds(c), NEW a \in acked', a \notin acked
      PROVE  Settled(a.index, a.row, a.row.term)'
  <2>4. PICK s, i, T, row :
            /\ s = op[c].node /\ i = op[c].index /\ T = op[c].term
            /\ row = [term |-> op[c].term, cmd |-> op[c].req]
    OBVIOUS
  <2>1. /\ acked' = acked \cup {[index |-> i, row |-> row]} /\ UNCHANGED vars
        /\ s \in Server /\ i \in 1..node[s].commitIndex
        /\ node[s].store.log_entries[i] = row
        /\ T \in Nat /\ node[s].currentTerm = T
    BY <1>2, <1>4, <2>4, SuccessRow DEF WritesInv
  <2>2. a.index = i /\ a.row = row /\ row.term = T
    BY <1>4, <2>1, <2>4
  <2>3. Settled(i, row, T)'
    <3>1. Settled(i, node[s].store.log_entries[i], node[s].currentTerm)'
      BY <1>2, <2>1, OldCommitted
    <3>2. node' = node
      BY <2>1 DEF vars
    <3>3. PICK x, y : x = node[s].store.log_entries[i] /\ y = node[s].currentTerm
      OBVIOUS
    <3>4. Settled(i, x, y)'
      BY <3>1, <3>2, <3>3
    <3> QED
      BY <2>1, <3>3, <3>4
  <2> QED
    BY <2>2, <2>3
<1>5. \A a \in acked' : Settled(a.index, a.row, a.row.term)'
  BY <1>3, <1>4, NewAcked DEF NodesMove
<1> QED
  BY <1>1, <1>5 DEF WritesInv

\* The leader that acknowledged a row keeps it among those it has applied, and
\* a Write that succeeds has its row applied.
LEMMA AckedStep ==
    ASSUME NodesMove, WritesInv, AllCaughtUp, AckedInv
    PROVE  AckedInv'
<1>1. SafetyInv /\ CommitInv /\ ClientInv /\ elected \subseteq elected'
  BY SafetyParts DEF NodesMove, CompositionInv, Moves
<1>2. ASSUME NEW a, NEW t \in Server, AppliedBy(a, t)
      PROVE  AppliedBy(a, t)'
  <2>1. node[t].applied \subseteq node'[t].applied
    BY DEF NodesMove, CommitsMove, CommitMove, Ran
  <2> QED
    BY <1>1, <1>2, <2>1 DEF AppliedBy
<1>3. ASSUME NEW c \in Client, WriteSucceeds(c), NEW a \in acked', a \notin acked
      PROVE  \E t \in Server : AppliedBy(a, t)
  <2> DEFINE s == op[c].node
             i == op[c].index
             T == op[c].term
             row == [term |-> T, cmd |-> op[c].req]
             log == node[s].store.log_entries
             N == node[s].lastApplied
  <2>1. /\ acked' = acked \cup {[index |-> i, row |-> row]}
        /\ s \in Server /\ i \in Nat /\ i \in 1..node[s].commitIndex /\ log[i] = row
        /\ [term |-> T, leader |-> s] \in elected
    BY <1>1, <1>3, SuccessRow DEF WritesInv
  <2>2. a = [index |-> i, row |-> row] /\ a.row.term = T
    BY <1>3, <2>1
  <2> HIDE DEF s, i, T, row
  <2>3. N >= node[s].commitIndex /\ N \in Nat /\ node[s].commitIndex \in Nat
    BY <1>1, <2>1, SafetyParts, RaftConstants
       DEF AllCaughtUp, CaughtUp, TypeOK, IsNode, Index
  <2>4. i \in 1..N
    BY <2>1, <2>3
  <2>5. node[s].applied = {[index |-> j, row |-> log[j]] : j \in 1..N}
    BY <1>1, <2>1 DEF CommitInv, Executed
  <2> HIDE DEF log, N
  <2>6. a \in node[s].applied
    BY <2>1, <2>2, <2>4, <2>5
  <2> QED
    BY <2>1, <2>2, <2>6 DEF AppliedBy
<1>4. ASSUME NEW a \in acked' PROVE \E t \in Server : AppliedBy(a, t)
  BY <1>3, NewAcked DEF NodesMove, AckedInv
<1> QED
  BY <1>2, <1>4 DEF AckedInv

\* A settled row is in the stores of a majority.
LEMMA SettledHeld ==
    ASSUME NEW i, NEW row, NEW term, Settled(i, row, term)
    PROVE  Cardinality({s \in Server : Holds(node[s].store, i, row)}) >= Majority
<1>1. PICK Q \in SUBSET Server : \E L, k :
                /\ Cardinality(Q) >= Majority /\ IsPoint(L, k) /\ Safe(Q, L, k)
                /\ i \in 1..k /\ L[i] = row
  BY DEF Settled
<1>2. PICK L, k : /\ Cardinality(Q) >= Majority /\ IsPoint(L, k) /\ Safe(Q, L, k)
                  /\ i \in 1..k /\ L[i] = row
  BY <1>1
<1> DEFINE H == {s \in Server : Holds(node[s].store, i, row)}
<1>3. Q \subseteq H
  BY <1>2, HolderHas DEF Holds
<1>4. IsFiniteSet(H) /\ Cardinality(H) \in Nat /\ Cardinality(Server) \in Nat
  BY RaftConstants, FS_Subset, FS_CardinalityType
<1>5. Cardinality(Q) <= Cardinality(H) /\ Cardinality(Q) \in Nat
  BY <1>3, <1>4, FS_Subset, FS_CardinalityType
<1>6. Majority \in Nat
  BY <1>4 DEF Majority
<1> HIDE DEF H
<1> QED
  BY <1>2, <1>4, <1>5, <1>6 DEF H

\* SafetyInv and CompositionInv hold with clients, and so does WritesInv.
THEOREM WritesInvariant ==
    NoCompaction /\ NoLostTerm /\ FullBatch =>
        (ClientSpec => [](SafetyInv /\ CompositionInv /\ WritesInv))
<1> SUFFICES ASSUME NoCompaction, NoLostTerm, FullBatch
             PROVE  ClientSpec => [](SafetyInv /\ CompositionInv /\ WritesInv)
  OBVIOUS
<1>1. ClientInit => WritesInv
  BY DEF ClientInit, WritesInv, WriteInv, At, Idling
<1>2. SafetyInv /\ CompositionInv /\ WritesInv /\ [ClientNext]_<<vars, clientVars>>
        => WritesInv'
  BY StepNodes, WritesStep
<1>3. /\ ClientSpec => []CompositionInv
      /\ ClientSpec => Spec
      /\ Spec => []SafetyInv
  BY CompositionInvariant, ClientsImplementRaft, SafetyInvariant
<1> QED
  BY <1>1, <1>2, <1>3, PTL DEF ClientSpec

\* A majority holds every row that a Write was acknowledged for.
AcknowledgedHeld ==
    \A a \in acked :
        Cardinality({s \in Server : Holds(node[s].store, a.index, a.row)})
            >= Majority

\* An acknowledged write is never lost: from the moment Write answers, a
\* majority of the stores has its row, whatever leaders, restarts, late calls
\* and truncations come after, and whatever Entry and ApplySet do, in every
\* cluster without compaction, lost terms and short batches.
THEOREM AcknowledgedWritesHeld ==
    NoCompaction /\ NoLostTerm /\ FullBatch =>
        (ClientSpec => []AcknowledgedHeld)
<1>1. WritesInv => AcknowledgedHeld
  BY SettledHeld DEF WritesInv, AcknowledgedHeld
<1> QED
  BY <1>1, WritesInvariant, PTL

\* What the nodes and the writes of clients guarantee to a Read.
ServiceInv == /\ SafetyInv /\ CompositionInv /\ WritesInv
              /\ AllCaughtUp /\ AckedInv

\* ServiceInv holds in every cluster that can also apply every row.
THEOREM ServiceInvariant ==
    NoCompaction /\ NoLostTerm /\ FullBatch /\ NoLostApply =>
        (ClientSpec => []ServiceInv)
<1> SUFFICES ASSUME NoCompaction, NoLostTerm, FullBatch, NoLostApply
             PROVE  ClientSpec => []ServiceInv
  OBVIOUS
<1>1. ClientInit => AckedInv
  BY DEF ClientInit, AckedInv
<1>2. ServiceInv /\ [ClientNext]_<<vars, clientVars>> => AckedInv'
  BY StepNodes, AckedStep DEF ServiceInv
<1>3. /\ ClientSpec => [](SafetyInv /\ CompositionInv /\ WritesInv)
      /\ ClientSpec => Spec
      /\ Spec => []AllCaughtUp
  BY WritesInvariant, ClientsImplementRaft, CommittedIsApplied
<1> QED
  BY <1>1, <1>2, <1>3, PTL DEF ClientSpec, ServiceInv

\* A write that was acknowledged is the command of its index for good: it has
\* been applied, no other command ever is at that index, and a majority keeps
\* it (the checks of Write after its wait), in every cluster that neither
\* compacts nor loses terms, whose batches are long enough and whose stores
\* can always read a row, or its term, and apply it.
THEOREM AcknowledgedWritesStay ==
    NoCompaction /\ NoLostTerm /\ FullBatch /\ NoLostApply =>
        (ClientSpec => [](AcknowledgedIsCommitted /\ StateMachineSafety))
<1>1. ServiceInv => AcknowledgedIsCommitted /\ StateMachineSafety
  <2> SUFFICES ASSUME ServiceInv
               PROVE  AcknowledgedIsCommitted /\ StateMachineSafety
    OBVIOUS
  <2>1. ASSUME NEW a \in acked PROVE a \in History
    BY DEF ServiceInv, AckedInv, AppliedBy, History
  <2>2. ASSUME NEW a \in acked
        PROVE  Cardinality({s \in Server : Holds(node[s].store, a.index, a.row)})
                    >= Majority
    BY SettledHeld DEF ServiceInv, WritesInv
  <2> QED
    BY <2>1, <2>2, SafeHistory DEF ServiceInv, AcknowledgedIsCommitted
<1> QED
  BY <1>1, ServiceInvariant, PTL

----------------------------------------------------------------------------
(* The goroutines of a round                                               *)

\* A goroutine that s started for call c waits for an answer, or has it.
Pending(c, s) ==
    \/ \E q \in appendReqs : q.waiting /\ q.worker = c /\ q.src = s
    \/ \E r \in appendReps : r.worker = c /\ r.src = s

\* Nobody waits for an answer to a call that is not in a round.
PendingInv ==
    \A c \in Client, s \in Server :
        Pending(c, s) => InRound(c) /\ op[c].node = s

\* The nodes answer what somebody waits for, and start no goroutine for a call.
LEMMA NodesStartNone ==
    ASSUME TypeOK, NodeStep, NEW c \in Client, NEW s \in Server, Pending(c, s)'
    PROVE  Pending(c, s)
<1>1. ASSUME UNCHANGED appendVars PROVE Pending(c, s)
  BY <1>1 DEF appendVars, Pending
<1>2. ASSUME appendReqs' \subseteq appendReqs, appendReps' \subseteq appendReps
      PROVE  Pending(c, s)
  BY <1>2 DEF Pending
<1>3. ASSUME NEW q \in appendReqs, NEW term, NEW success, NEW match,
             AppendAnswer(q, term, success, match)
      PROVE  Pending(c, s)
  <2> DEFINE r == [src |-> q.src, dst |-> q.dst, worker |-> q.worker,
                   term |-> q.term,
                   lastSent |-> Max({q.prevLogIndex} \cup DOMAIN q.entries),
                   rterm |-> term, success |-> success,
                   matchIndex |-> match]
  <2>1. /\ appendReqs' = appendReqs \ {q}
        /\ \A x \in appendReps' : x \in appendReps \/ (q.waiting /\ x = r)
    BY <1>3 DEF AppendAnswer, Answers
  <2>2. r.worker = q.worker /\ r.src = q.src
    OBVIOUS
  <2> HIDE DEF r
  <2> QED
    BY <2>1, <2>2 DEF Pending
<1>4. ASSUME NEW q \in appendReqs, AppendTimeout(q) PROVE Pending(c, s)
  <2> DEFINE x == [q EXCEPT !.waiting = FALSE]
  <2>1. ~x.waiting
    BY DEF TypeOK, IsAppendReq
  <2>2. appendReps' = appendReps /\ appendReqs' \subseteq appendReqs \cup {x}
    BY <1>4 DEF AppendTimeout
  <2> HIDE DEF x
  <2> QED
    BY <2>1, <2>2 DEF Pending
<1>5. ASSUME NEW t \in Server, NEW p \in Peers(t), NEW w \in Worker \ Client,
             SendAppend(t, p, w)
      PROVE  Pending(c, s)
  <2> DEFINE n == node[t]
             next == n.nextIndex[p]
             x == [src |-> t, dst |-> p, worker |-> w, term |-> n.currentTerm,
                   prevLogIndex |-> next - 1,
                   prevLogTerm  |-> TermAt(n.store, next - 1),
                   entries      |-> EntriesFrom(n.store, next, AppendBatchSize),
                   leaderCommit |-> n.commitIndex,
                   waiting      |-> TRUE]
  <2>1. appendReps' = appendReps /\ appendReqs' = appendReqs \cup {x}
    BY <1>5 DEF SendAppend
  <2>2. x.worker # c
    OBVIOUS
  <2> HIDE DEF x
  <2> QED
    BY <2>1, <2>2 DEF Pending
<1>6. CASE ElectionStep
  BY <1>1, <1>6
     DEF ElectionStep, StartElection, StartElectionError, WinAlone,
         RequestVoteStale, RequestVoteGranted, RequestVoteRejected,
         RequestVoteError, VoteReplyStepDown, VoteReplyCounted, VoteAnswer
<1>7. CASE FollowerStep
  <2>1. ASSUME NEW q \in appendReqs, AppendStale(q) PROVE Pending(c, s)
    BY <1>3, <2>1 DEF AppendStale
  <2>2. ASSUME NEW q \in appendReqs, NEW f \in Faults, AppendRefused(q, f)
        PROVE  Pending(c, s)
    BY <1>3, <2>2 DEF AppendRefused
  <2>3. ASSUME NEW q \in appendReqs, NEW f \in Faults, AppendAccepted(q, f)
        PROVE  Pending(c, s)
    BY <1>3, <2>3 DEF AppendAccepted
  <2>4. ASSUME NEW q \in appendReqs, NEW f \in Faults, AppendError(q, f)
        PROVE  Pending(c, s)
    BY <1>2, <2>4 DEF AppendError
  <2>5. ASSUME NEW q \in snapReqs, NEW f \in Faults,
               SnapshotStale(q) \/ SnapshotIgnored(q, f) \/ SnapshotInstalled(q, f)
        PROVE  Pending(c, s)
    BY <1>1, <2>5 DEF SnapshotStale, SnapshotIgnored, SnapshotInstalled, SnapAnswer
  <2>6. ASSUME NEW q \in snapReqs, NEW f \in Faults, SnapshotError(q, f)
        PROVE  Pending(c, s)
    BY <1>1, <2>6 DEF SnapshotError
  <2>7. NoFault \in Faults
    BY DEF Faults
  <2> QED
    BY <1>7, <2>1, <2>2, <2>3, <2>4, <2>5, <2>6, <2>7 DEF FollowerStep
<1>8. ASSUME NEW r \in appendReps, NEW f,
             AppendReplyStepDown(r, f) \/ AppendReplyLost(r)
      PROVE  Pending(c, s)
  BY <1>2, <1>8 DEF AppendReplyStepDown, AppendReplyLost
<1>9. ASSUME NEW q \in snapReqs, SnapTimeout(q) PROVE Pending(c, s)
  BY <1>1, <1>9 DEF SnapTimeout
<1>10. ASSUME NEW r \in snapReps, NEW f, SnapReplyStepDown(r, f) \/ SnapReplyLost(r)
       PROVE  Pending(c, s)
  BY <1>1, <1>10 DEF SnapReplyStepDown, SnapReplyLost
<1>11. ASSUME NEW t \in Server, NEW p, NEW w, SendSnapshot(t, p, w)
       PROVE  Pending(c, s)
  BY <1>1, <1>11 DEF SendSnapshot
<1> QED
  BY <1>4, <1>5, <1>6, <1>7, <1>8, <1>9, <1>10, <1>11 DEF NodeStep

\* A call of which nothing is pending may go anywhere.
LEMMA CallLeaves ==
    ASSUME ClientInv, PendingInv, NEW c \in Client, NEW o, Becomes(c, o),
           UNCHANGED appendVars, \A s \in Server : ~Pending(c, s)
    PROVE  PendingInv'
<1> SUFFICES ASSUME NEW d \in Client, NEW s \in Server, Pending(d, s)'
             PROVE  InRound(d)' /\ op'[d].node = s
  BY DEF PendingInv
<1>1. Pending(d, s)
  BY DEF Pending, appendVars
<1>2. d # c
  BY <1>1
<1>3. op'[d] = op[d]
  BY <1>2 DEF Becomes, ClientInv
<1> QED
  BY <1>1, <1>3 DEF PendingInv, InRound, At

\* A round that is over has left nothing pending.
LEMMA OverPends ==
    ASSUME PendingInv, NEW c \in Client, RoundOver(c)
    PROVE  \A s \in Server : ~Pending(c, s)
BY DEF PendingInv, RoundOver, Of, Pending

\* The calls that are pending after a step belong to a round, too.
LEMMA PendingStep ==
    ASSUME TypeOK, ClientInv, ClientInv', PendingInv, snapReps = {},
           [ClientNext]_<<vars, clientVars>>
    PROVE  PendingInv'
<1>1. ASSUME NEW c \in Client, ClientStep(c)
      PROVE  PendingInv'
  <2>1. ASSUME NEW o, Becomes(c, o), UNCHANGED appendVars, ~InRound(c)
        PROVE  PendingInv'
    <3>1. \A s \in Server : ~Pending(c, s)
      BY <2>1 DEF PendingInv
    <3> QED
      BY <2>1, <3>1, CallLeaves
  <2>2. ASSUME NEW o, Becomes(c, o), UNCHANGED appendVars, RoundOver(c)
        PROVE  PendingInv'
    BY <2>2, OverPends, CallLeaves
  <2>3. (\E req, s : Forward(c, req, s)) \/ NotLeader(c) \/ CallFails(c)
            \/ (\E req, s, f : WriteAppend(c, req, s, f))
            \/ (\E req, s : ReadStart(c, req, s)) \/ ReadGet(c) => PendingInv'
    <3>1. At(c, "client") \/ At(c, "answer") \/ At(c, "forwarded")
                \/ At(c, "lookup") => ~InRound(c)
      BY DEF InRound, At
    <3>2. \A req, s : Received(c, req, s) => ~InRound(c)
      BY <3>1 DEF Received
    <3>3. ASSUME NEW req, NEW s, Forward(c, req, s) PROVE PendingInv'
      BY <2>1, <3>2, <3>3 DEF Forward, vars
    <3>4. ASSUME NotLeader(c) \/ CallFails(c) \/ ReadGet(c) PROVE PendingInv'
      BY <2>1, <3>1, <3>4 DEF NotLeader, CallFails, ReadGet, vars
    <3>5. ASSUME NEW req, NEW s, NEW f, WriteAppend(c, req, s, f) PROVE PendingInv'
      BY <2>1, <3>2, <3>5 DEF WriteAppend, Write
    <3>6. ASSUME NEW req, NEW s, ReadStart(c, req, s) PROVE PendingInv'
      BY <2>1, <3>2, <3>6 DEF ReadStart, vars
    <3> QED
      BY <3>3, <3>4, <3>5, <3>6
  <2>4. ASSUME WriteSucceeds(c) \/ WriteFails(c) \/ ReadConfirmed(c) \/ ReadFails(c)
        PROVE  PendingInv'
    BY <2>2, <2>4 DEF WriteSucceeds, WriteFails, ReadConfirmed, ReadFails, vars
  <2>5. ASSUME NEW T, op' = [op EXCEPT ![c].todo = T], InRound(c),
               \A d \in Client, s \in Server : Pending(d, s)' =>
                    Pending(d, s) \/ (d = c /\ op[c].node = s)
        PROVE  PendingInv'
    <3>1. op[c] \in Writing \cup Reading
      BY <2>5, CallPlaces DEF InRound
    <3>2. /\ op'[c] = [op[c] EXCEPT !.todo = T]
          /\ \A d \in Client : d # c => op'[d] = op[d]
      BY <2>5 DEF ClientInv
    <3>3. op'[c].at = op[c].at /\ op'[c].node = op[c].node
      BY <3>1, <3>2 DEF Writing, Reading
    <3> QED
      BY <2>5, <3>2, <3>3 DEF PendingInv, InRound, At
  <2>6. ASSUME WriteRetries(c) PROVE PendingInv'
    <3>1. op' = [op EXCEPT ![c].todo = Peers(op[c].node)] /\ InRound(c)
      BY <2>6 DEF WriteRetries, InRound
    <3>2. \A d \in Client, s \in Server : Pending(d, s)' => Pending(d, s)
      BY <2>6 DEF WriteRetries, vars, appendVars, Pending
    <3> QED
      BY <2>5, <3>1, <3>2
  <2>7. ASSUME NEW p \in Server, RoundSend(c, p) PROVE PendingInv'
    <3>1. op' = [op EXCEPT ![c].todo = op[c].todo \ {p}] /\ InRound(c)
      BY <2>7, CallPlaces DEF RoundSend, ClientInv
    <3>2. ASSUME NEW d \in Client, NEW s \in Server, Pending(d, s)'
          PROVE  Pending(d, s) \/ (d = c /\ op[c].node = s)
      <4>1. CASE SendSnapshot(op[c].node, p, c)
        BY <3>2, <4>1 DEF SendSnapshot, appendVars, Pending
      <4>2. CASE SendAppend(op[c].node, p, c)
        <5> DEFINE t == op[c].node
                   n == node[t]
                   next == n.nextIndex[p]
                   x == [src |-> t, dst |-> p, worker |-> c, term |-> n.currentTerm,
                         prevLogIndex |-> next - 1,
                         prevLogTerm  |-> TermAt(n.store, next - 1),
                         entries      |-> EntriesFrom(n.store, next, AppendBatchSize),
                         leaderCommit |-> n.commitIndex,
                         waiting      |-> TRUE]
        <5>1. appendReps' = appendReps /\ appendReqs' = appendReqs \cup {x}
          BY <4>2 DEF SendAppend
        <5>2. x.worker = c /\ x.src = t
          OBVIOUS
        <5> HIDE DEF x
        <5> QED
          BY <3>2, <5>1, <5>2 DEF Pending
      <4> QED
        BY <2>7, <4>1, <4>2 DEF RoundSend
    <3> QED
      BY <2>5, <3>1, <3>2
  <2> QED
    BY <1>1, <2>3, <2>4, <2>6, <2>7 DEF ClientStep
<1>2. ASSUME \A c \in Client, s \in Server : Pending(c, s)' => Pending(c, s),
             \A c \in Client : op'[c] = op[c] \/ RoundGoesOn(c)
      PROVE  PendingInv'
  BY <1>2 DEF PendingInv, RoundGoesOn, InRound, At
<1>3. ASSUME AnswerStep PROVE PendingInv'
  <2>1. PICK r \in appendReps, done \in BOOLEAN :
            /\ Count(r, done) /\ appendReps' \subseteq appendReps
            /\ appendReqs' = appendReqs
            /\ done => r.success /\ r.term = node[r.src].currentTerm
    BY <1>3 DEF AnswerStep, AppendReplySuccess, AppendReplyFailure,
                SameLeadership
  <2>2. ASSUME NEW c \in Client PROVE op'[c] = op[c] \/ RoundGoesOn(c)
    <3>1. op'[c] = Counted(c, r, done)
      BY <2>1 DEF Count
    <3> QED
      BY <2>1, <3>1, CountGoesOn
  <2>3. \A c \in Client, s \in Server : Pending(c, s)' => Pending(c, s)
    BY <2>1 DEF Pending
  <2> QED
    BY <1>2, <2>2, <2>3
<1>4. ASSUME NEW t \in Unstable, StopServer(t) PROVE PendingInv'
  <2> SUFFICES ASSUME NEW c \in Client, NEW s \in Server, Pending(c, s)'
               PROVE  InRound(c)' /\ op'[c].node = s
    BY DEF PendingInv
  <2>1. /\ appendReqs' = Abandon(appendReqs, t)
        /\ appendReps' = {r \in appendReps : r.src # t}
        /\ op'[c] = IF (InRound(c) \/ At(c, "lookup")) /\ op[c].node = t
                    THEN Idling ELSE op[c]
    BY <1>4 DEF StopServer, Restart
  <2>2. ASSUME NEW x \in appendReqs', x.waiting
        PROVE  \E q \in appendReqs : /\ q.waiting /\ q.src # t
                                     /\ q.worker = x.worker /\ q.src = x.src
    <3>1. PICK q \in appendReqs : x = [q EXCEPT !.waiting = @ /\ q.src # t]
      BY <2>1 DEF Abandon
    <3>2. /\ x.worker = q.worker /\ x.src = q.src
          /\ x.waiting = (q.waiting /\ q.src # t)
      BY <3>1 DEF TypeOK, IsAppendReq
    <3> QED
      BY <2>2, <3>2
  <2>3. Pending(c, s) /\ s # t
    BY <2>1, <2>2 DEF Pending
  <2>4. InRound(c) /\ op[c].node = s
    BY <2>3 DEF PendingInv
  <2>5. op'[c] = op[c]
    BY <2>1, <2>3, <2>4
  <2> QED
    BY <2>4, <2>5 DEF InRound, At
<1>5. ASSUME NodeStep, UNCHANGED clientVars PROVE PendingInv'
  <2>1. \A c \in Client, s \in Server : Pending(c, s)' => Pending(c, s)
    BY <1>5, NodesStartNone
  <2> QED
    BY <1>2, <1>5, <2>1 DEF clientVars
<1>6. ASSUME UNCHANGED <<vars, clientVars>> PROVE PendingInv'
  <2>1. \A c \in Client, s \in Server : Pending(c, s)' => Pending(c, s)
    BY <1>6 DEF vars, appendVars, Pending
  <2> QED
    BY <1>2, <1>6, <2>1 DEF clientVars
<1> QED
  BY <1>1, <1>3, <1>4, <1>5, <1>6 DEF ClientNext

----------------------------------------------------------------------------
(* Reads: what a round finds out                                           *)

\* Index i is that of an acknowledged row, or no row.
Covered(i) == i = 0 \/ \E a \in acked : a.index = i

FloorInv(c) == At(c, "forwarded") => Covered(op[c].floor)

\* Node v has been in term T, and an answer of v that Read call o counts, has
\* counted or gets in time says so: the node of o is in that term as well.
Hears(c, o, v, T) ==
    /\ node[v].currentTerm >= T
    /\ v \in o.acks \cup {o.node} => node[o.node].currentTerm >= T
    /\ \A r \in appendReps :
            (/\ r.success /\ r.worker = c
             /\ r.src = o.node /\ r.dst = v) => r.term >= T

\* Read call o has counted peers only, and a majority had been in the term of
\* the last row acknowledged before o when the round began.
ReadOK(c, o) ==
    /\ o.acks \subseteq Peers(o.node)
    /\ \/ o.floor = 0
       \/ \E a \in acked :
            /\ a.index = o.floor
            /\ \E V \in SUBSET Server :
                    /\ Cardinality(V) >= Majority
                    /\ \A v \in V : Hears(c, o, v, a.row.term)

ReadInv(c) == At(c, "read") => ReadOK(c, op[c])

\* The index that a call starts from is that of an acknowledged row.
LEMMA FloorCovered ==
    ASSUME ClientInv, NEW c \in Client, FloorInv(c)
    PROVE  Covered(Floor(c))
<1>1. CASE At(c, "forwarded")
  BY <1>1 DEF Floor, FloorInv
<1>2. CASE ~At(c, "forwarded")
  <2> DEFINE S == {0} \cup {a.index : a \in acked}
  <2>1. MaxIndex \in Nat /\ S \subseteq 0..MaxIndex /\ S # {}
    BY RaftConstants DEF ClientInv, Index
  <2> HIDE DEF S
  <2>2. Max(S) \in S
    BY <2>1, MaxExists
  <2> QED
    BY <1>2, <2>2 DEF Floor, S, Covered
<1> QED
  BY <1>1, <1>2

\* What was acknowledged is acknowledged.
LEMMA AckedGrows ==
    ASSUME [ClientNext]_<<vars, clientVars>>
    PROVE  acked \subseteq acked'
BY NewAcked DEF WriteSucceeds

\* A majority has been in the term of a settled row.
LEMMA SettledTerms ==
    ASSUME CoreInv, NEW i, NEW row, NEW term, Settled(i, row, term)
    PROVE  \E V \in SUBSET Server :
                /\ Cardinality(V) >= Majority
                /\ \A v \in V : node[v].currentTerm >= row.term
<1>1. PICK Q \in SUBSET Server : \E L, k :
                /\ Cardinality(Q) >= Majority /\ IsPoint(L, k) /\ Safe(Q, L, k)
                /\ i \in 1..k /\ L[i] = row
  BY DEF Settled
<1>2. PICK L, k : /\ Cardinality(Q) >= Majority /\ IsPoint(L, k) /\ Safe(Q, L, k)
                  /\ i \in 1..k /\ L[i] = row
  BY <1>1
<1>3. ASSUME NEW v \in Q PROVE node[v].currentTerm >= row.term
  <2>1. /\ i \in DOMAIN node[v].store.log_entries
        /\ node[v].store.log_entries[i] = row
    BY <1>2, HolderHas
  <2>2. UpTo(LogOf(node[v].store), node[v].currentTerm) /\ IsNode(node[v])
    BY DEF CoreInv, OrderInv, MatchingInv, TypeOK
  <2>3. row.term <= node[v].currentTerm
    BY <2>1, <2>2 DEF UpTo, LogOf
  <2>4. row.term \in Nat /\ node[v].currentTerm \in Nat
    BY <1>2, <2>2 DEF IsPoint, IsNode
  <2> QED
    BY <2>3, <2>4
<1> QED
  BY <1>2, <1>3

\* A Read that starts has counted nobody and waits for no answer.
LEMMA ReadFresh ==
    ASSUME CoreInv, WritesInv, ClientInv, PendingInv, NEW c \in Client,
           ~InRound(c), NEW o, o.node \in Server, o.acks = {}, Covered(o.floor)
    PROVE  ReadOK(c, o)
<1>1. ASSUME NEW r \in appendReps, r.worker = c, r.src = o.node PROVE FALSE
  BY <1>1 DEF PendingInv, Pending
<1>2. ASSUME NEW a \in acked, a.index = o.floor
      PROVE  \E V \in SUBSET Server :
                /\ Cardinality(V) >= Majority
                /\ \A v \in V : Hears(c, o, v, a.row.term)
  <2>1. PICK V \in SUBSET Server :
                /\ Cardinality(V) >= Majority
                /\ \A v \in V : node[v].currentTerm >= a.row.term
    BY SettledTerms DEF WritesInv
  <2>2. ASSUME NEW v \in V PROVE Hears(c, o, v, a.row.term)
    BY <1>1, <2>1 DEF Hears
  <2> QED
    BY <2>1, <2>2
<1> QED
  BY <1>2 DEF ReadOK, Covered

\* A round of Read goes on: whoever it counts was heard in time, and whoever
\* answers now is in a term that is late enough.
LEMMA ReadKept ==
    ASSUME NodesMove, NEW c \in Client, NEW o, NEW n, o.node \in Server,
           n.node = o.node, n.floor = o.floor, ReadOK(c, o),
           \A v \in n.acks :
                \/ v \in o.acks
                \/ \E r \in appendReps :
                        /\ r.success /\ r.worker = c /\ r.src = o.node
                        /\ r.dst = v /\ r.term = node[o.node].currentTerm
    PROVE  ReadOK(c, n)'
<1>1. /\ TypeOK /\ TypeOK' /\ AnswersInv /\ ClientInv /\ Moves /\ AcksMove
      /\ [ClientNext]_<<vars, clientVars>>
  BY DEF NodesMove, CompositionInv
<1>2. acked \subseteq acked'
  BY <1>1, AckedGrows
<1>3. n.acks \subseteq Peers(n.node)
  <2>1. ASSUME NEW r \in appendReps PROVE r.dst \in Peers(r.src)
    BY <1>1 DEF TypeOK, AppendReps, AnswersInv, Peers
  <2> QED
    BY <2>1 DEF ReadOK
<1>4. ASSUME NEW v \in Server, NEW T \in Nat, Hears(c, o, v, T)
      PROVE  Hears(c, n, v, T)'
  <2>1. /\ node'[v].currentTerm >= node[v].currentTerm
        /\ node'[o.node].currentTerm >= node[o.node].currentTerm
    BY <1>1 DEF Moves
  <2>2. /\ node[v].currentTerm \in Nat /\ node'[v].currentTerm \in Nat
        /\ node[o.node].currentTerm \in Nat /\ node'[o.node].currentTerm \in Nat
    BY <1>1 DEF TypeOK, IsNode
  <2>3. node'[v].currentTerm >= T
    BY <1>4, <2>1, <2>2 DEF Hears
  <2>4. ASSUME v \in n.acks \cup {n.node} PROVE node'[n.node].currentTerm >= T
    <3>1. node[o.node].currentTerm >= T
      BY <1>4, <2>4 DEF Hears
    <3> QED
      BY <2>1, <2>2, <3>1
  <2>5. ASSUME NEW r \in appendReps', r.success, r.worker = c, r.src = n.node,
               r.dst = v
        PROVE  r.term >= T
    BY <1>1, <1>4, <2>3, <2>5 DEF Hears, AcksMove
  <2> QED
    BY <2>3, <2>4, <2>5 DEF Hears
<1>5. CASE o.floor = 0
  BY <1>3, <1>5 DEF ReadOK
<1>6. ASSUME NEW a \in acked, a.index = o.floor, NEW V \in SUBSET Server,
             Cardinality(V) >= Majority,
             \A v \in V : Hears(c, o, v, a.row.term)
      PROVE  ReadOK(c, n)'
  <2>1. a.row.term \in Nat
    BY <1>1 DEF ClientInv, Row
  <2>2. PICK T : T = a.row.term
    OBVIOUS
  <2>3. ASSUME NEW v \in V PROVE Hears(c, n, v, T)'
    BY <1>4, <1>6, <2>1, <2>2
  <2> QED
    BY <1>2, <1>3, <1>6, <2>2, <2>3 DEF ReadOK
<1> QED
  BY <1>5, <1>6 DEF ReadOK

\* A quorum that is counted: the node and the peers that have answered.
LEMMA ConfirmedQuorum ==
    ASSUME NEW s \in Server, NEW A, A \subseteq Peers(s),
           1 + Cardinality(A) >= Majority
    PROVE  /\ {s} \cup A \in SUBSET Server
           /\ Cardinality({s} \cup A) >= Majority
<1>1. A \subseteq Server /\ s \notin A
  BY DEF Peers
<1>2. IsFiniteSet(A) /\ Cardinality(A) \in Nat
  BY <1>1, RaftConstants, FS_Subset, FS_CardinalityType
<1>3. Cardinality(A \cup {s}) = Cardinality(A) + 1
  BY <1>1, <1>2, FS_AddElement
<1>4. PICK B : B = {s} \cup A
  OBVIOUS
<1>5. B = A \cup {s} /\ B \in SUBSET Server
  BY <1>1, <1>4
<1>6. Cardinality(B) >= Majority
  BY <1>2, <1>3, <1>5
<1> QED
  BY <1>4, <1>5, <1>6

\* A leader in a later term than that of a settled row has it.
LEMMA LaterLeaderHas ==
    ASSUME SafetyInv, NEW i, NEW row, NEW term \in Nat, Settled(i, row, term),
           NEW s \in Server, node[s].role = "leader", node[s].currentTerm >= term
    PROVE  /\ i \in DOMAIN node[s].store.log_entries
           /\ node[s].store.log_entries[i] = row
<1>1. PICK Q \in SUBSET Server : \E L, k :
                /\ Cardinality(Q) >= Majority /\ IsPoint(L, k) /\ Safe(Q, L, k)
                /\ L[k].term <= term /\ i \in 1..k /\ L[i] = row
  BY DEF Settled
<1>2. PICK L, k : /\ Cardinality(Q) >= Majority /\ IsPoint(L, k) /\ Safe(Q, L, k)
                  /\ L[k].term <= term /\ i \in 1..k /\ L[i] = row
  BY <1>1
<1>3. PICK p \in Server : p \in Q
  BY <1>2, QuorumsMeet
<1>4. k \in 1..k /\ k \in Nat /\ L[k].term \in Nat
  BY <1>2 DEF IsPoint
<1>5. node[s].currentTerm >= L[k].term
  <2>1. IsNode(node[s])
    BY SafetyParts DEF TypeOK
  <2>2. node[s].currentTerm \in Nat
    BY <2>1 DEF IsNode
  <2> QED
    BY <1>2, <1>4, <2>2
<1>6. Has(node[s].store.log_entries, k, L[k].term)
  BY <1>2, <1>5 DEF Safe, Led
<1>7. Agree(L, node[p].store.log_entries, k)
  BY <1>2, <1>3 DEF Safe, Held
<1>8. Agree(L, node[s].store.log_entries, k)
  BY <1>2, <1>3, <1>4, <1>6, <1>7, HasAgree, SafetyParts
<1> QED
  BY <1>2, <1>8 DEF IsPoint, Agree

\* A leader that a majority has answered since the call, and that has applied
\* a row of its term, has applied every row acknowledged before the call.
LEMMA ConfirmedReads ==
    ASSUME ServiceInv, NEW c \in Client, NEW o, NEW s \in Server, o.node = s,
           ReadOK(c, o), Confirmed(node[s], o), AppliedInTerm(node[s])
    PROVE  o.floor <= node[s].lastApplied
<1> DEFINE log == node[s].store.log_entries
           N == node[s].lastApplied
           T == node[s].currentTerm
<1>1. /\ SafetyInv /\ ClientInv /\ WritesInv /\ AckedInv /\ TypeOK
      /\ ElectionInv /\ OrderInv /\ CommitInv
  BY SafetyParts DEF ServiceInv, CompositionInv
<1>2. N \in Nat /\ T \in Nat
  BY <1>1, RaftConstants DEF TypeOK, IsNode, Index
<1>3. node[s].applied = {[index |-> j, row |-> log[j]] : j \in 1..N}
  BY <1>1 DEF CommitInv, Executed
<1>4. CASE o.floor = 0
  BY <1>2, <1>4
<1>5. ASSUME NEW a \in acked, a.index = o.floor, NEW V \in SUBSET Server,
             Cardinality(V) >= Majority,
             \A v \in V : Hears(c, o, v, a.row.term)
      PROVE  o.floor <= N
  <2>1. a.row.term \in Nat /\ a.index \in Nat
    BY <1>1, RaftConstants DEF ClientInv, Row, Index
  <2>2. a.row.term <= T
    <3>1. /\ {s} \cup o.acks \in SUBSET Server
          /\ Cardinality({s} \cup o.acks) >= Majority
      BY ConfirmedQuorum DEF ReadOK, Confirmed
    <3>2. PICK v \in V : v \in {s} \cup o.acks
      BY <1>5, <3>1, QuorumsMeet
    <3> QED
      BY <1>2, <1>5, <2>1, <3>2 DEF Hears
  <2>3. node[s].role = "leader"
    BY DEF Confirmed
  <2>4. CASE a.row.term < T
    <3>1. PICK k \in 1..N : log[k].term = T
      BY <1>3 DEF AppliedInTerm
    <3>2. Settled(a.index, a.row, a.row.term)
      BY <1>1 DEF WritesInv
    <3>3. a.index \in DOMAIN log /\ log[a.index] = a.row
      BY <1>1, <1>2, <2>1, <2>3, <2>4, <3>2, LaterLeaderHas
    <3>4. Sorted(LogOf(node[s].store))
      BY <1>1 DEF OrderInv, Segments
    <3>5. k \in DOMAIN log
      <4>1. /\ N <= node[s].commitIndex /\ node[s].commitIndex \in Nat
            /\ Committed(s)
        BY <1>1, RaftConstants DEF CommitInv, Executed, TypeOK, IsNode, Index
      <4>2. k \in 1..node[s].commitIndex
        BY <1>2, <4>1
      <4> QED
        BY <4>1, <4>2 DEF Committed
    <3>6. k <= a.index => log[k].term <= log[a.index].term
      BY <3>3, <3>4, <3>5 DEF Sorted, LogOf
    <3> HIDE DEF log, N, T
    <3> QED
      BY <1>2, <1>5, <2>1, <2>4, <3>1, <3>3, <3>6
  <2>5. CASE a.row.term = T
    <3>1. PICK t \in Server : AppliedBy(a, t)
      BY <1>1 DEF AckedInv
    <3>2. Leads(s, T)
      BY <2>3 DEF Leads
    <3>3. [term |-> T, leader |-> s] \in elected
      BY <1>1, <3>2, OneLeader
    <3>4. t = s
      BY <1>1, <2>5, <3>1, <3>3 DEF AppliedBy, ElectionInv, ElectionSafety
    <3>5. a \in node[s].applied
      BY <3>1, <3>4 DEF AppliedBy
    <3>6. PICK j \in 1..N : a = [index |-> j, row |-> log[j]]
      BY <1>3, <3>5
    <3> QED
      BY <1>2, <1>5, <3>6
  <2> HIDE DEF T
  <2> QED
    BY <1>2, <2>1, <2>2, <2>4, <2>5
<1> QED
  BY <1>4, <1>5 DEF ReadOK

----------------------------------------------------------------------------
(* Reads: what a lookup finds                                              *)

LookupInv(c) ==
    At(c, "lookup") /\ op[c].settled =>
        op[c].floor <= node[op[c].node].lastApplied

\* The value answered is that of some index from the floor on, which some
\* node has applied.
Gives(o, t) == \E i \in o.floor..node[t].lastApplied :
                    o.value = Replay(i)[o.req.key]

AnswerInv(c) ==
    At(c, "answer") /\ op[c].settled => \E t \in Server : Gives(op[c], t)

\* The commands that were applied, as far as a node has applied them, are the
\* rows of its log.
RowsOfHistory ==
    /\ \A a \in History : a.index \in Nat
    /\ \A s \in Server : \A a :
        (a \in History /\ a.index <= node[s].lastApplied) <=>
            \E i \in 1..node[s].lastApplied :
                a = [index |-> i, row |-> node[s].store.log_entries[i]]

\* That is part of SafetyInv.
LEMMA SafeRows == SafetyInv => RowsOfHistory
<1> SUFFICES ASSUME SafetyInv PROVE RowsOfHistory
  OBVIOUS
<1>1. StateMachineSafety
  BY SafeHistory
<1>2. ASSUME NEW s \in Server, NEW a
      PROVE  (a \in History /\ a.index <= node[s].lastApplied) <=>
                \E i \in 1..node[s].lastApplied :
                    a = [index |-> i, row |-> node[s].store.log_entries[i]]
  <2>1. PICK N : N = node[s].lastApplied
    OBVIOUS
  <2> QED
    BY <1>1, <2>1, HistoryRows
<1> QED
  BY <1>2, HistorySettled DEF RowsOfHistory

\* After a step, too.
LEMMA SafeRowsNext == SafetyInv' => RowsOfHistory'
BY SafeRows, PTL

\* What the commands up to an index that was applied give does not change.
LEMMA ReplayKept ==
    ASSUME NodesMove, NEW t \in Server, NEW i \in Nat, i <= node[t].lastApplied
    PROVE  Replay(i)' = Replay(i) /\ i <= node'[t].lastApplied
<1>1. /\ RowsOfHistory /\ RowsOfHistory' /\ CoreInv /\ CoreInv' /\ CommitInv /\ Moves
      /\ TypeOK /\ TypeOK' /\ CommitsMove
  BY SafeRows, SafeRowsNext, SafetyParts DEF NodesMove, SafetyInv, CompositionInv
<1>2. PICK N, M : N = node[t].lastApplied /\ M = node'[t].lastApplied
  OBVIOUS
<1>3. N \in Nat /\ M \in Nat /\ N <= M
  BY <1>1, <1>2, RaftConstants
     DEF TypeOK, IsNode, Index, CommitsMove, CommitMove, Ran
<1>4. ASSUME NEW j \in 1..N
      PROVE  node'[t].store.log_entries[j] = node[t].store.log_entries[j]
  <2>1. N <= node[t].commitIndex /\ node[t].commitIndex \in Nat
    BY <1>1, <1>2, RaftConstants DEF CommitInv, Executed, TypeOK, IsNode, Index
  <2>2. j \in 1..node[t].commitIndex
    BY <1>3, <2>1
  <2> QED
    BY <1>1, <2>2, OldCommitted
<1>5. PICK H, J : H = History /\ J = History'
  OBVIOUS
<1>6. ASSUME NEW a PROVE (a \in H /\ a.index <= i) <=> (a \in J /\ a.index <= i)
  <2>1. ASSUME a \in H, a.index <= i PROVE a \in J
    <3>1. a.index \in Nat
      BY <1>1, <1>5, <2>1 DEF RowsOfHistory
    <3>2. a.index <= N
      BY <1>2, <1>3, <2>1, <3>1
    <3>3. PICK j \in 1..N :
                a = [index |-> j, row |-> node[t].store.log_entries[j]]
      BY <1>1, <1>2, <1>5, <2>1, <3>2 DEF RowsOfHistory
    <3>4. j \in 1..M /\ a = [index |-> j, row |-> node'[t].store.log_entries[j]]
      BY <1>3, <1>4, <3>3
    <3> QED
      BY <1>1, <1>2, <1>5, <3>4 DEF RowsOfHistory
  <2>2. ASSUME a \in J, a.index <= i PROVE a \in H
    <3>1. a.index \in Nat
      BY <1>1, <1>5, <2>2 DEF RowsOfHistory
    <3>2. a.index <= M /\ a.index <= N
      BY <1>2, <1>3, <2>2, <3>1
    <3>3. PICK j \in 1..M :
                a = [index |-> j, row |-> node'[t].store.log_entries[j]]
      BY <1>1, <1>2, <1>5, <2>2, <3>2 DEF RowsOfHistory
    <3>4. j \in 1..N
      BY <1>3, <3>2, <3>3
    <3>5. a = [index |-> j, row |-> node[t].store.log_entries[j]]
      BY <1>4, <3>3, <3>4
    <3> QED
      BY <1>1, <1>2, <1>5, <3>4, <3>5 DEF RowsOfHistory
  <2> QED
    BY <2>1, <2>2
<1> DEFINE W(S, k) == {a \in S : a.index <= i /\ a.row.cmd.key = k}
<1>7. ASSUME NEW k PROVE W(H, k) = W(J, k)
  BY <1>6
<1>8. Replay(i)' = Replay(i)
  <2> DEFINE R(S, k) ==
                IF S = {} THEN NoValue
                ELSE (CHOOSE a \in S : \A b \in S : b.index <= a.index)
                        .row.cmd.value
  <2>1. Replay(i) = [k \in Key |-> R(W(H, k), k)]
    BY <1>5 DEF Replay
  <2>2. Replay(i)' = [k \in Key |-> R(W(J, k), k)]
    BY <1>5 DEF Replay
  <2> HIDE DEF R, W
  <2> QED
    BY <1>7, <2>1, <2>2
<1> QED
  BY <1>2, <1>3, <1>8

----------------------------------------------------------------------------
(* Reads: every step                                                       *)

CallInv(c) == FloorInv(c) /\ ReadInv(c) /\ LookupInv(c) /\ AnswerInv(c)

ReadsInv == PendingInv /\ \A c \in Client : CallInv(c)

\* A call in no place that CallInv speaks of.
LEMMA ElsewhereKept ==
    ASSUME NEW c \in Client, op'[c].at \in {"client", "write"}
    PROVE  CallInv(c)'
BY DEF CallInv, FloorInv, ReadInv, LookupInv, AnswerInv, At

\* A round that goes on, or a call in it that stays as it is.
LEMMA RoundKept ==
    ASSUME NodesMove, NEW c \in Client, CallInv(c), At(c, "read"),
           op'[c] = op[c] \/ RoundGoesOn(c)
    PROVE  CallInv(c)'
<1>1. op[c] \in Reading /\ op[c].node \in Server
  BY CallPlaces DEF NodesMove, CompositionInv, Reading
<1>2. PICK o, n : o = op[c] /\ n = op'[c]
  OBVIOUS
<1>3. /\ n.at = "read" /\ n.node = o.node /\ n.floor = o.floor
      /\ \A v \in n.acks :
            \/ v \in o.acks
            \/ \E r \in appendReps :
                    /\ r.success /\ r.worker = c /\ r.src = o.node
                    /\ r.dst = v /\ r.term = node[o.node].currentTerm
  BY <1>2 DEF RoundGoesOn, At, Of
<1>4. ReadOK(c, o)
  BY <1>2 DEF CallInv, ReadInv
<1>5. ReadOK(c, n)'
  BY <1>1, <1>2, <1>3, <1>4, ReadKept
<1>6. ReadInv(c)'
  BY <1>2, <1>5 DEF ReadInv, ReadOK, Hears
<1> QED
  BY <1>2, <1>3, <1>6 DEF CallInv, FloorInv, LookupInv, AnswerInv, At

\* A call that stays as it is while nodes and other calls go on.
LEMMA SameCallKept ==
    ASSUME NodesMove, NEW c \in Client, CallInv(c), op'[c] = op[c]
    PROVE  CallInv(c)'
<1>1. ClientInv /\ TypeOK /\ TypeOK' /\ CommitsMove /\ [ClientNext]_<<vars, clientVars>>
  BY DEF NodesMove, CompositionInv
<1>2. FloorInv(c)'
  <2>1. acked \subseteq acked'
    BY <1>1, AckedGrows
  <2> QED
    BY <2>1 DEF CallInv, FloorInv, At, Covered
<1>3. ReadInv(c)'
  <2>1. CASE At(c, "read")
    BY <2>1, RoundKept DEF CallInv
  <2>2. CASE ~At(c, "read")
    BY <2>2 DEF ReadInv, At
  <2> QED
    BY <2>1, <2>2
<1>4. LookupInv(c)'
  <2> SUFFICES ASSUME At(c, "lookup"), op[c].settled
               PROVE  op[c].floor <= node'[op[c].node].lastApplied
    BY DEF LookupInv, At
  <2>1. PICK s, i : s = op[c].node /\ i = op[c].floor
    OBVIOUS
  <2>2. s \in Server /\ i \in Nat
    BY <1>1, <2>1, CallPlaces, RaftConstants DEF LookingUp, Index
  <2>3. i <= node[s].lastApplied
    BY <2>1 DEF CallInv, LookupInv
  <2>4. /\ node[s].lastApplied \in Nat /\ node'[s].lastApplied \in Nat
        /\ node'[s].lastApplied >= node[s].lastApplied
    BY <1>1, <2>2, RaftConstants
       DEF TypeOK, IsNode, Index, CommitsMove, CommitMove, Ran
  <2> QED
    BY <2>1, <2>2, <2>3, <2>4
<1>5. AnswerInv(c)'
  <2> SUFFICES ASSUME At(c, "answer"), op[c].settled
               PROVE  (\E t \in Server : Gives(op[c], t))'
    BY DEF AnswerInv, At
  <2>1. PICK o : o = op[c]
    OBVIOUS
  <2>2. o.floor \in Nat
    BY <1>1, <2>1, CallPlaces, RaftConstants DEF Answered, Index
  <2>3. PICK t \in Server : Gives(op[c], t)
    BY DEF CallInv, AnswerInv
  <2>4. PICK i \in o.floor..node[t].lastApplied : o.value = Replay(i)[o.req.key]
    BY <2>1, <2>3 DEF Gives
  <2>5. node[t].lastApplied \in Nat /\ node'[t].lastApplied \in Nat
    BY <1>1, RaftConstants DEF TypeOK, IsNode, Index
  <2>6. i \in Nat /\ i <= node[t].lastApplied /\ o.floor <= i
    BY <2>2, <2>4, <2>5
  <2>7. Replay(i)' = Replay(i) /\ i <= node'[t].lastApplied
    BY <2>6, ReplayKept
  <2>8. i \in o.floor..node'[t].lastApplied /\ o.value = Replay(i)'[o.req.key]
    BY <2>2, <2>4, <2>5, <2>6, <2>7
  <2>9. (\E j \in o.floor..node[t].lastApplied : o.value = Replay(j)[o.req.key])'
    BY <2>8
  <2> QED
    BY <2>1, <2>9 DEF Gives
<1> QED
  BY <1>2, <1>3, <1>4, <1>5 DEF CallInv

\* A call that another node will get.
LEMMA ForwardKept ==
    ASSUME ClientInv, NEW c \in Client, CallInv(c), NEW req, NEW s,
           Forward(c, req, s)
    PROVE  CallInv(c)'
<1>1. Covered(Floor(c))
  BY FloorCovered DEF CallInv
<1>2. /\ op'[c].at = "forwarded" /\ op'[c].floor = Floor(c) /\ acked' = acked
  BY DEF Forward, Becomes, ClientInv
<1>3. Covered(Floor(c)) => FloorInv(c)'
  BY <1>2 DEF Covered, FloorInv
<1> QED
  BY <1>1, <1>2, <1>3 DEF CallInv, ReadInv, LookupInv, AnswerInv, At

\* A Read that starts.
LEMMA ReadStartKept ==
    ASSUME ServiceInv, PendingInv, NEW c \in Client, CallInv(c), NEW req,
           NEW s \in Server, ReadStart(c, req, s)
    PROVE  CallInv(c)'
<1>1. CoreInv /\ WritesInv /\ ClientInv
  BY SafetyParts DEF ServiceInv, CompositionInv
<1>2. PICK o : o = [at |-> "read", req |-> req, node |-> s,
                    todo |-> Peers(s), acks |-> {}, floor |-> Floor(c)]
  OBVIOUS
<1>3. op'[c] = o /\ UNCHANGED <<node, appendReps, acked>>
  BY <1>1, <1>2 DEF ReadStart, Becomes, ClientInv, vars, appendVars
<1>4. ~InRound(c)
  BY DEF ReadStart, Received, InRound, At
<1>5. Covered(o.floor)
  BY <1>1, <1>2, FloorCovered DEF CallInv
<1>6. o.node \in Server /\ o.acks = {} /\ o.at = "read"
  BY <1>2
<1>7. ReadOK(c, o)
  BY <1>1, <1>4, <1>5, <1>6, ReadFresh
<1>8. ReadInv(c)'
  BY <1>3, <1>7 DEF ReadInv, ReadOK, Hears
<1> QED
  BY <1>3, <1>6, <1>8 DEF CallInv, FloorInv, LookupInv, AnswerInv, At

\* A Read whose leader is confirmed.
LEMMA ReadConfirmedKept ==
    ASSUME ServiceInv, NEW c \in Client, CallInv(c), ReadConfirmed(c)
    PROVE  CallInv(c)'
<1>1. ClientInv /\ At(c, "read") /\ Confirmed(node[op[c].node], op[c])
  BY DEF ServiceInv, CompositionInv, ReadConfirmed
<1>2. op[c].node \in Server
  BY <1>1, CallPlaces DEF Reading
<1>3. PICK o, s : o = op[c] /\ s = op[c].node
  OBVIOUS
<1>4. /\ op'[c].at = "lookup" /\ op'[c].node = s /\ op'[c].floor = o.floor
      /\ op'[c].settled = AppliedInTerm(node[s])
      /\ node' = node
  BY <1>1, <1>3 DEF ReadConfirmed, Becomes, ClientInv, vars
<1>5. ReadOK(c, o)
  BY <1>1, <1>3 DEF CallInv, ReadInv
<1>6. AppliedInTerm(node[s]) => o.floor <= node[s].lastApplied
  BY <1>1, <1>2, <1>3, <1>5, ConfirmedReads
<1>7. LookupInv(c)'
  BY <1>4, <1>6 DEF LookupInv
<1> QED
  BY <1>4, <1>7 DEF CallInv, FloorInv, ReadInv, AnswerInv, At

\* A Read that looks up its key.
LEMMA ReadGetKept ==
    ASSUME NodesMove, ServiceInv, NEW c \in Client, CallInv(c), ReadGet(c)
    PROVE  CallInv(c)'
<1>1. SafetyInv /\ ClientInv /\ TypeOK /\ At(c, "lookup")
  BY DEF ServiceInv, CompositionInv, ReadGet
<1>2. PICK o, s : o = op[c] /\ s = op[c].node
  OBVIOUS
<1>3. s \in Server /\ o.floor \in Nat
  BY <1>1, <1>2, CallPlaces, RaftConstants DEF LookingUp, Index
<1>4. PICK n : n = [at |-> "answer", req |-> o.req, floor |-> o.floor,
                    settled |-> o.settled,
                    value |-> node[s].store.kv[o.req.key]]
  OBVIOUS
<1>5. op'[c] = n /\ node' = node /\ n.at = "answer"
  BY <1>1, <1>2, <1>4 DEF ReadGet, Becomes, ClientInv, vars
<1>6. ASSUME o.settled PROVE Gives(n, s)
  <2>1. o.floor <= node[s].lastApplied
    BY <1>1, <1>2, <1>6 DEF CallInv, LookupInv
  <2>2. node[s].store.kv = Replay(node[s].store.last_applied)
    BY <1>1, <1>3, SafeStateMachine DEF DurableStateMachine
  <2>3. node[s].lastApplied = node[s].store.last_applied
    BY <1>1, <1>3, SafetyParts DEF LastAppliedIsDurable
  <2>4. node[s].lastApplied \in Nat
    BY <1>1, <1>3, RaftConstants DEF TypeOK, IsNode, Index
  <2>5. PICK i : i = node[s].lastApplied
    OBVIOUS
  <2>6. i \in o.floor..node[s].lastApplied
    BY <1>3, <2>1, <2>4, <2>5
  <2>7. n.value = Replay(i)[n.req.key] /\ n.floor = o.floor
    BY <1>4, <2>2, <2>3, <2>5
  <2> QED
    BY <2>6, <2>7 DEF Gives
<1>7. ASSUME Gives(n, s) PROVE Gives(n, s)'
  <2>1. PICK i \in n.floor..node[s].lastApplied :
            n.value = Replay(i)[n.req.key]
    BY <1>7 DEF Gives
  <2>2. i \in Nat /\ i <= node[s].lastApplied
    <3>1. n.floor \in Nat /\ node[s].lastApplied \in Nat
      BY <1>1, <1>3, <1>4, RaftConstants DEF TypeOK, IsNode, Index
    <3> QED
      BY <3>1
  <2>3. Replay(i)' = Replay(i)
    BY <1>3, <2>2, ReplayKept
  <2>4. i \in n.floor..node'[s].lastApplied /\ n.value = Replay(i)'[n.req.key]
    BY <1>5, <2>1, <2>3
  <2>5. (\E j \in n.floor..node[s].lastApplied : n.value = Replay(j)[n.req.key])'
    BY <2>4
  <2> QED
    BY <2>5 DEF Gives
<1>8. AnswerInv(c)'
  <2> SUFFICES ASSUME o.settled PROVE (\E t \in Server : Gives(op[c], t))'
    BY <1>4, <1>5 DEF AnswerInv
  <2>1. Gives(n, s)'
    BY <1>6, <1>7
  <2>2. (Gives(op[c], s))'
    BY <1>5, <2>1 DEF Gives
  <2> QED
    BY <1>3, <2>2
<1> QED
  BY <1>5, <1>8 DEF CallInv, FloorInv, ReadInv, LookupInv, At

\* Reads after a step.
LEMMA ReadsStep ==
    ASSUME NodesMove, ServiceInv, ReadsInv
    PROVE  ReadsInv'
<1>1. /\ TypeOK /\ ClientInv /\ ClientInv' /\ snapReps = {} /\ PendingInv
      /\ [ClientNext]_<<vars, clientVars>>
  BY SafetyParts DEF NodesMove, CompositionInv, Uncompacted, ReadsInv
<1>2. PendingInv'
  BY <1>1, PendingStep
<1>3. ASSUME NEW c \in Client PROVE CallInv(c)'
  <2>1. CallGoesOn(c) /\ CallInv(c)
    BY <1>1, StepCalls DEF ReadsInv
  <2>2. CASE op'[c] = op[c]
    BY <2>1, <2>2, SameCallKept
  <2>3. CASE op'[c] = Idling
    BY <2>3, ElsewhereKept DEF Idling
  <2>4. CASE RoundGoesOn(c)
    <3>1. CASE At(c, "read")
      BY <2>1, <2>4, <3>1, RoundKept
    <3>2. CASE ~At(c, "read")
      BY <2>4, <3>2, ElsewhereKept DEF RoundGoesOn, InRound, At
    <3> QED
      BY <3>1, <3>2
  <2>5. ASSUME NEW req, NEW s, Forward(c, req, s) PROVE CallInv(c)'
    BY <1>1, <2>1, <2>5, ForwardKept
  <2>6. ASSUME NEW req, NEW s, NEW f, WriteAppend(c, req, s, f) PROVE CallInv(c)'
    <3>1. op'[c].at = "write"
      BY <1>1, <2>6 DEF WriteAppend, Becomes, ClientInv
    <3> QED
      BY <3>1, ElsewhereKept
  <2>7. ASSUME NEW req, NEW s \in Server, ReadStart(c, req, s) PROVE CallInv(c)'
    BY <1>1, <2>1, <2>7, ReadStartKept
  <2>8. CASE ReadConfirmed(c)
    BY <2>1, <2>8, ReadConfirmedKept
  <2>9. CASE ReadGet(c)
    BY <2>1, <2>9, ReadGetKept
  <2> QED
    BY <2>1, <2>2, <2>3, <2>4, <2>5, <2>6, <2>7, <2>8, <2>9 DEF CallGoesOn
<1> QED
  BY <1>2, <1>3 DEF ReadsInv

\* ReadsInv holds in every cluster for which ServiceInvariant speaks.
THEOREM ReadsInvariant ==
    NoCompaction /\ NoLostTerm /\ FullBatch /\ NoLostApply =>
        (ClientSpec => [](ServiceInv /\ ReadsInv))
<1> SUFFICES ASSUME NoCompaction, NoLostTerm, FullBatch, NoLostApply
             PROVE  ClientSpec => [](ServiceInv /\ ReadsInv)
  OBVIOUS
<1>1. ClientInit => ReadsInv
  <2> SUFFICES ASSUME ClientInit PROVE ReadsInv
    OBVIOUS
  <2>1. appendReqs = {} /\ appendReps = {}
    BY DEF ClientInit, Init
  <2>2. ASSUME NEW c \in Client PROVE op[c].at = "client"
    BY DEF ClientInit, Idling
  <2> QED
    BY <2>1, <2>2 DEF ReadsInv, PendingInv, Pending, CallInv, FloorInv,
                      ReadInv, LookupInv, AnswerInv, At
<1>2. ServiceInv /\ ReadsInv /\ [ClientNext]_<<vars, clientVars>> => ReadsInv'
  BY StepNodes, ReadsStep DEF ServiceInv
<1>3. ClientSpec => []ServiceInv
  BY ServiceInvariant
<1> QED
  BY <1>1, <1>2, <1>3, PTL DEF ClientSpec

\* A Read of a leader that has applied a row of its own term returns a value
\* that was current at some moment since the client called: it sees every
\* write acknowledged before, by whatever leader, although the call may have
\* been forwarded, the leader deposed or restarted during the round, and the
\* lookup runs after the lock is released (the quorum round of Read), in every
\* cluster that neither compacts nor loses terms, whose batches are long
\* enough and whose stores can always read a row, or its term, and apply it.
THEOREM SettledReadsCurrent ==
    NoCompaction /\ NoLostTerm /\ FullBatch /\ NoLostApply =>
        (ClientSpec => []ReadsCurrent)
<1>1. ServiceInv /\ ReadsInv => ReadsCurrent
  <2> SUFFICES ASSUME ServiceInv, ReadsInv, NEW c \in Client, At(c, "answer"),
                      op[c].settled
               PROVE  Current(op[c])
    BY DEF ReadsCurrent
  <2>1. PICK o : o = op[c]
    OBVIOUS
  <2>2. ClientInv /\ SafetyInv /\ TypeOK /\ CommitInv
    BY SafetyParts DEF ServiceInv, CompositionInv
  <2>3. o.floor \in Index
    BY <2>1, <2>2, CallPlaces DEF Answered
  <2>4. PICK t \in Server : Gives(o, t)
    BY <2>1 DEF ReadsInv, CallInv, AnswerInv
  <2>5. PICK i \in o.floor..node[t].lastApplied : o.value = Replay(i)[o.req.key]
    BY <2>4 DEF Gives
  <2>6. PICK S : S = {o.floor} \cup {a.index : a \in History}
    OBVIOUS
  <2>7. MaxIndex \in Nat /\ S \subseteq 0..MaxIndex /\ S # {}
    <3>1. ASSUME NEW a \in History PROVE a.index \in Index
      BY <2>2 DEF History, TypeOK, IsNode
    <3> QED
      BY <2>3, <2>6, <3>1, RaftConstants DEF Index
  <2>8. Max(S) \in S /\ \A y \in S : Max(S) >= y
    BY <2>7, MaxExists
  <2>9. node[t].lastApplied \in Nat /\ o.floor \in Nat
    BY <2>2, <2>3, RaftConstants DEF TypeOK, IsNode, Index
  <2>10. i \in S
    <3>1. CASE i = o.floor
      BY <2>6, <3>1
    <3>2. CASE i # o.floor
      <4>1. i \in 1..node[t].lastApplied
        BY <2>9, <3>2
      <4>2. [index |-> i, row |-> node[t].store.log_entries[i]] \in node[t].applied
        BY <2>2, <4>1 DEF CommitInv, Executed
      <4> QED
        BY <2>6, <4>2 DEF History
    <3> QED
      BY <3>1, <3>2
  <2>11. i \in o.floor..Max(S)
    <3>1. PICK m : m = Max(S)
      OBVIOUS
    <3>2. m \in 0..MaxIndex
      BY <2>7, <2>8, <3>1
    <3>3. m >= i
      BY <2>8, <2>10, <3>1
    <3> QED
      BY <2>7, <2>9, <3>1, <3>2, <3>3
  <2> QED
    BY <2>1, <2>5, <2>6, <2>11 DEF Current
<1> QED
  BY <1>1, ReadsInvariant, PTL
=============================================================================
