-------------------------------- MODULE Raft --------------------------------
(***************************************************************************)
(* The consensus core of internal/raft: the Node of node.go and the three  *)
(* RPCs of rpc.go, for a cluster of nodes that crash, restart and exchange *)
(* gRPC calls which are delayed, reordered or lost.                        *)
(*                                                                         *)
(* Atomicity.  Node.mu serialises every critical section, so each action   *)
(* is one critical section: an RPC handler from Lock to Unlock, or the     *)
(* part of a goroutine (startElection, replicatePeer) before its call or   *)
(* after the answer.  Between the two any other section may run, on the    *)
(* same node too, and nothing limits how many goroutines replicate to the  *)
(* same peer at once but the number of Workers.                            *)
(*                                                                         *)
(* Time is abstracted: an election timer or a heartbeat may fire whenever  *)
(* its goroutine's own checks allow it.                                    *)
(***************************************************************************)
EXTENDS Store

CONSTANTS
    Server,             \* node ids
    SnapshotThreshold,  \* RAFT_SNAPSHOT_THRESHOLD of each node
    AppendBatchSize,    \* appendBatchSize
    Worker,             \* goroutines that may replicate to one peer at once
    Fault,              \* the store methods that may return an error
    Unstable,           \* the nodes that may crash and restart
    Ballot,             \* bound: in term t, <<s, s>> \in Ballot[t] lets s start
                        \* an election, <<s, p>> lets p receive its request
    MaxIndex,           \* bound: indexes a client's write may take
    MaxCalls            \* bound: replication calls in flight

\* The store methods whose error changes what a critical section does.
StoreMethods == {"SaveTermVote", "LastIndexAndTerm", "SnapshotIndexTerm",
                 "DeleteFrom", "AppendEntries", "Entry", "ApplySet",
                 "CreateSnapshot", "InstallSnapshot"}

\* Those that a loop calls for each row; SnapshotIndexTerm is called elsewhere
\* too, and that is row 0.
RowMethods == {"SnapshotIndexTerm", "Entry", "ApplySet"}

NoFault == [method |-> "none", at |-> 0]

\* What may go wrong in a critical section: nothing, or f.method fails, in a
\* loop when it comes to row f.at.
Faults == {NoFault} \cup {f \in [method : Fault, at : 0..MaxIndex] :
                             /\ f.at # 0 => f.method \in RowMethods
                             /\ f.at = 0 => f.method \notin {"Entry", "ApplySet"}}

ASSUME RaftConstants ==
    /\ IsFiniteSet(Server) /\ Server # {}
    /\ Nobody \notin Server
    /\ SnapshotThreshold \in [Server -> Nat]
    /\ AppendBatchSize \in Nat \ {0}
    /\ Fault \subseteq StoreMethods
    /\ Unstable \subseteq Server
    /\ MaxIndex \in Nat
    /\ MaxCalls \in Nat

VARIABLES
    node,        \* node[s]: the Node struct of s, its store included
    voteReqs,    \* RequestVote calls not yet handled
    voteReps,    \* and their answers not yet seen by the caller
    appendReqs,  \* AppendEntries calls and answers
    appendReps,
    snapReqs,    \* InstallSnapshot calls and answers
    snapReps,
    elected      \* history: every [term, leader] that won an election

voteVars == <<voteReqs, voteReps>>
appendVars == <<appendReqs, appendReps>>
snapVars == <<snapReqs, snapReps>>
vars == <<node, voteVars, appendVars, snapVars, elected>>

Peers(s) == Server \ {s}

\* Mutant: half of the nodes are enough.
MajorityHalf == Cardinality(Server) \div 2

\* majorityLocked: (len(n.peers)+1)/2 + 1
Majority == Cardinality(Server) \div 2 + 1

----------------------------------------------------------------------------
(* Operations on one node, run with Node.mu held.  f is what goes wrong in *)
(* the critical section.                                                   *)

\* Mutant: leaderID is left as it was when no leader is known.
stepDownKeepsLeader(n, term, leader, f) ==
    LET higher == term > n.currentTerm
    IN  [n EXCEPT
            !.currentTerm = IF higher THEN term ELSE @,
            !.votedFor    = IF higher THEN Nobody ELSE @,
            !.store       = IF higher THEN SaveTermVote(@, term, Nobody) ELSE @,
            !.role        = "follower",
            !.leaderID    = IF leader = Nobody THEN @ ELSE leader,
            !.votes       = {}]

\* votes belongs to a running election, so it is emptied when that is over.
stepDownLocked(n, term, leader, f) ==
    LET higher == term > n.currentTerm
    IN  [n EXCEPT
            !.currentTerm = IF higher THEN term ELSE @,
            !.votedFor    = IF higher THEN Nobody ELSE @,
            !.store       = IF higher /\ f.method # "SaveTermVote"
                            THEN SaveTermVote(@, term, Nobody) ELSE @,
            !.role        = "follower",
            !.leaderID    = leader,
            !.votes       = {}]

\* An error of LastIndexAndTerm leaves `won' set, so no later vote of this
\* election can win it: the same as having no votes to count.
becomeLeaderLocked(n, s, f) ==
    IF f.method = "LastIndexAndTerm"
    THEN [n EXCEPT !.votes = {}]
    ELSE [n EXCEPT
            !.role       = "leader",
            !.leaderID   = s,
            !.votedFor   = s,
            !.votes      = {},
            !.nextIndex  = [p \in Server |-> IF p = s THEN @[p]
                                             ELSE LastIndex(n.store) + 1],
            !.matchIndex = [p \in Server |-> IF p = s THEN LastIndex(n.store)
                                             ELSE 0]]

compactIfNeededLocked(n, s, f) ==
    IF /\ SnapshotThreshold[s] # 0
       /\ f.method \notin {"SnapshotIndexTerm", "CreateSnapshot"}
       /\ n.lastApplied > n.store.snapshot_index
       /\ n.lastApplied - n.store.snapshot_index >= SnapshotThreshold[s]
       /\ HasTerm(n.store, n.lastApplied)
    THEN [n EXCEPT !.store =
            CreateSnapshot(@, n.lastApplied, TermAt(@, n.lastApplied))]
    ELSE n

\* Mutant: a row that cannot be applied is passed over.
applyPassesOver(n, s, f) ==
    LET log  == n.store.log_entries
        rows == {i \in DOMAIN log \cap ((n.lastApplied + 1)..n.commitIndex) :
                    f # [method |-> "ApplySet", at |-> i]}
    IN  [n EXCEPT !.lastApplied        = n.commitIndex,
                  !.store.last_applied = n.commitIndex,
                  !.store.kv           = KvAfter(@, log, rows),
                  !.applied            = @ \cup {[index |-> i, row |-> log[i]] :
                                                   i \in rows}]

\* The loop applies row after row up to commitIndex, skips to the snapshot
\* when the next row is compacted, and returns before compacting when a row
\* is missing or cannot be read or applied.
applyCommittedLocked(n, s, f) ==
    LET log  == n.store.log_entries
        skip == /\ f.method # "SnapshotIndexTerm"
                /\ f # [method |-> "Entry", at |-> n.lastApplied + 1]
                /\ n.lastApplied < n.commitIndex
                /\ n.lastApplied + 1 \notin DOMAIN log
                /\ n.lastApplied + 1 <= n.store.snapshot_index
        from == IF skip THEN n.store.snapshot_index ELSE n.lastApplied
        full == Max({from} \cup {i \in (from + 1)..n.commitIndex :
                                    (from + 1)..i \subseteq DOMAIN log})
        to   == IF f.method \in {"Entry", "ApplySet"} /\ f.at \in (from + 1)..full
                THEN f.at - 1 ELSE full
        done == [n EXCEPT
                    !.lastApplied = to,
                    !.store       = ApplySets(@, from, to),
                    !.applied     = @ \cup {[index |-> i, row |-> log[i]] :
                                               i \in (from + 1)..to}]
    IN  IF to < n.commitIndex THEN done ELSE compactIfNeededLocked(done, s, f)

MatchedBy(n, s, i) == {p \in Peers(s) : n.matchIndex[p] >= i}

\* Mutant: a majority commits rows of earlier terms, too.
CommittableAnyTerm(n, s) ==
    {i \in (n.commitIndex + 1)..LastIndex(n.store) :
        /\ HasTerm(n.store, i)
        /\ 1 + Cardinality(MatchedBy(n, s, i)) >= Majority}

\* Mutant: the last row of the log is never looked at.
CommittableButLast(n, s) ==
    {i \in (n.commitIndex + 1)..(LastIndex(n.store) - 1) :
        /\ HasTerm(n.store, i)
        /\ TermAt(n.store, i) = n.currentTerm
        /\ 1 + Cardinality(MatchedBy(n, s, i)) >= Majority}

\* The indexes of the current term that a majority has matched.
Committable(n, s) ==
    {i \in (n.commitIndex + 1)..LastIndex(n.store) :
        /\ HasTerm(n.store, i)
        /\ TermAt(n.store, i) = n.currentTerm
        /\ 1 + Cardinality(MatchedBy(n, s, i)) >= Majority}

\* The loop commits each committable index in turn.  When the term of a row
\* cannot be read it returns, and what it has committed is not applied.
advanceCommitLocked(n, s, f) ==
    LET fails == /\ f.method = "SnapshotIndexTerm"
                 /\ f.at \in (n.commitIndex + 1)..LastIndex(n.store)
        seen  == {i \in Committable(n, s) : fails => i < f.at}
        m     == [n EXCEPT !.commitIndex = Max({@} \cup seen)]
    IN  CASE f.method = "LastIndexAndTerm" -> n
          [] fails -> m
          [] OTHER -> applyCommittedLocked(m, s, f)

----------------------------------------------------------------------------
(* Calls.  A request records whether the process that sent it still waits  *)
(* for the answer; gRPC delivers at most once, in any order, or not at all.*)

\* The answer r of request q, if anybody waits for it.
Answers(q, r) == IF q.waiting THEN {r} ELSE {}

\* The process of s is gone: its requests may still arrive, with nobody to
\* take the answer.
Abandon(reqs, s) == {[q EXCEPT !.waiting = @ /\ q.src # s] : q \in reqs}

----------------------------------------------------------------------------
Init ==
    /\ node = [s \in Server |->
                [role        |-> "follower",
                 currentTerm |-> 0,
                 votedFor    |-> Nobody,
                 leaderID    |-> Nobody,
                 commitIndex |-> 0,
                 lastApplied |-> 0,
                 nextIndex   |-> [p \in Server |-> 0],
                 matchIndex  |-> [p \in Server |-> 0],
                 votes       |-> {},
                 store       |-> FreshStore,
                 applied     |-> {}]]
    /\ voteReqs = {} /\ voteReps = {}
    /\ appendReqs = {} /\ appendReps = {}
    /\ snapReqs = {} /\ snapReps = {}
    /\ elected = {}

----------------------------------------------------------------------------
(* Elections                                                               *)

\* Mutant: the leader of the last term stays known.
CampaignKeepsLeader(n, s) == [n EXCEPT !.role        = "candidate",
                                       !.currentTerm = @ + 1,
                                       !.votedFor    = s]

\* The term and vote that startElection sets in memory.
Campaign(n, s) == [n EXCEPT !.role        = "candidate",
                            !.currentTerm = @ + 1,
                            !.votedFor    = s,
                            !.leaderID    = Nobody]

\* The answers that still matter to s in state n: the others are ignored
\* whenever they come.
Heeded(reps, s, n) ==
    {r \in reps : \/ r.src # s
                  \/ r.rterm > n.currentTerm
                  \/ n.role = "candidate" /\ n.currentTerm = r.term}

MayCampaign(s) ==
    /\ node[s].role # "leader"
    /\ node[s].currentTerm + 1 \in DOMAIN Ballot
    /\ <<s, s>> \in Ballot[node[s].currentTerm + 1]

\* startElection up to its calls.  votes holds the servers whose votes the
\* election has counted, the candidate's own first.
StartElection(s) ==
    /\ MayCampaign(s)
    /\ LET n == Campaign(node[s], s)
       IN  /\ node' = [node EXCEPT ![s] =
                [n EXCEPT !.votes = {s},
                          !.store = SaveTermVote(@, n.currentTerm, s)]]
           /\ voteReqs' = voteReqs \cup
                {[src |-> s, dst |-> p, term |-> n.currentTerm,
                  lastLogIndex |-> LastIndex(n.store),
                  lastLogTerm  |-> LastTerm(n.store),
                  waiting |-> TRUE] :
                    p \in {v \in Peers(s) : <<s, v>> \in Ballot[n.currentTerm]}}
           /\ voteReps' = Heeded(voteReps, s, n)
    /\ UNCHANGED <<appendVars, snapVars, elected>>

\* startElection when the store fails: the term stays raised in memory,
\* persisted or not, and no vote is asked for.
StartElectionError(s, f) ==
    /\ f.method \in {"SaveTermVote", "LastIndexAndTerm"}
    /\ MayCampaign(s)
    /\ LET n == Campaign(node[s], s)
       IN  node' = [node EXCEPT ![s] =
            [n EXCEPT !.votes = {},
                      !.store = IF f.method = "SaveTermVote" THEN @
                                ELSE SaveTermVote(@, n.currentTerm, s)]]
    /\ UNCHANGED <<voteVars, appendVars, snapVars, elected>>

\* A node without peers has its majority at once.
WinAlone(s) ==
    /\ Majority = 1
    /\ node[s].role = "candidate" /\ s \in node[s].votes
    /\ node' = [node EXCEPT ![s] = becomeLeaderLocked(@, s, NoFault)]
    /\ elected' = elected \cup {[term |-> node[s].currentTerm, leader |-> s]}
    /\ UNCHANGED <<voteVars, appendVars, snapVars>>

\* RequestVote, common part: a higher term makes the voter step down.
SeenByVoter(n, q, f) ==
    IF q.term > n.currentTerm THEN stepDownLocked(n, q.term, Nobody, f) ELSE n

LogUpToDate(n, q) ==
    \/ q.lastLogTerm > LastTerm(n.store)
    \/ /\ q.lastLogTerm = LastTerm(n.store)
       /\ q.lastLogIndex >= LastIndex(n.store)

\* Mutant: one vote per candidate instead of one per term.
GrantsAgain(n, q) == LogUpToDate(n, q)

\* Mutant: the candidate's log does not matter.
GrantsAnyLog(n, q) == n.votedFor \in {Nobody, q.src}

\* The voter has a free vote and the candidate's log is as good as its own.
Grants(n, q) ==
    /\ n.votedFor \in {Nobody, q.src}
    /\ LogUpToDate(n, q)

\* The candidate ignores a refusal in its own term, which is left out.
VoteAnswer(q, term, granted) ==
    /\ voteReqs' = voteReqs \ {q}
    /\ voteReps' = voteReps \cup
            {r \in Answers(q, [src |-> q.src, dst |-> q.dst, term |-> q.term,
                               rterm |-> term, granted |-> granted]) :
                granted \/ term > q.term}
    /\ UNCHANGED <<appendVars, snapVars, elected>>

RequestVoteStale(q) ==
    /\ q.term < node[q.dst].currentTerm
    /\ VoteAnswer(q, node[q.dst].currentTerm, FALSE)
    /\ UNCHANGED node

RequestVoteGranted(q) ==
    LET n == SeenByVoter(node[q.dst], q, NoFault)
    IN  /\ q.term >= node[q.dst].currentTerm
        /\ Grants(n, q)
        /\ node' = [node EXCEPT ![q.dst] =
                [n EXCEPT !.votedFor = q.src,
                          !.store = SaveTermVote(@, n.currentTerm, q.src)]]
        /\ VoteAnswer(q, n.currentTerm, TRUE)

RequestVoteRejected(q, f) ==
    LET n == SeenByVoter(node[q.dst], q, f)
    IN  /\ f.method # "LastIndexAndTerm"
        /\ q.term >= node[q.dst].currentTerm
        /\ ~Grants(n, q)
        /\ node' = [node EXCEPT ![q.dst] = n]
        /\ VoteAnswer(q, n.currentTerm, FALSE)

\* The handler returns an error, so the caller sees a failed call.  A vote
\* that could not be saved stays in memory; the new term before it may have
\* been saved (g is what went wrong with that).
RequestVoteError(q, f) ==
    \E g \in {f, NoFault} :
        LET n == SeenByVoter(node[q.dst], q, g)
        IN  /\ q.term >= node[q.dst].currentTerm
            /\ \/ /\ f.method = "LastIndexAndTerm"
                  /\ node' = [node EXCEPT ![q.dst] = n]
               \/ /\ f.method = "SaveTermVote"
                  /\ Grants(n, q)
                  /\ node' = [node EXCEPT ![q.dst] = [n EXCEPT !.votedFor = q.src]]
            /\ voteReqs' = voteReqs \ {q}
            /\ UNCHANGED <<voteReps, appendVars, snapVars, elected>>

\* The goroutine of startElection that asked r.dst has its answer.
VoteReplyStepDown(r, f) ==
    /\ r.rterm > node[r.src].currentTerm
    /\ node' = [node EXCEPT ![r.src] = stepDownLocked(@, r.rterm, Nobody, f)]
    /\ voteReps' = Heeded(voteReps \ {r}, r.src, node'[r.src])
    /\ UNCHANGED <<voteReqs, appendVars, snapVars, elected>>

\* The answer still matters: the candidate is in the term it asked for.
VoteCounts(n, r) == /\ r.rterm <= n.currentTerm
                    /\ n.role = "candidate"
                    /\ n.currentTerm = r.term
                    /\ r.granted
                    /\ n.votes # {}

VoteReplyCounted(r, f) ==
    LET s == r.src
        n == [node[s] EXCEPT !.votes = @ \cup {r.dst}]
        won == Cardinality(n.votes) >= Majority
    IN  /\ VoteCounts(node[s], r)
        /\ node' = [node EXCEPT ![s] =
                        IF won THEN becomeLeaderLocked(n, s, f) ELSE n]
        /\ elected' = elected \cup
                {[term |-> t, leader |-> s] :
                    t \in IF won /\ f.method # "LastIndexAndTerm"
                          THEN {n.currentTerm} ELSE {}}
        /\ voteReps' = Heeded(voteReps \ {r}, s, node'[s])
        /\ UNCHANGED <<voteReqs, appendVars, snapVars>>

----------------------------------------------------------------------------
(* Replication, leader's side                                              *)

Calls == appendReqs \cup snapReqs \cup appendReps \cup snapReps

\* Goroutine w of s is not waiting for p nor about to look at its answer.
Idle(s, p, w) ==
    /\ \A q \in appendReqs \cup snapReqs :
            q.waiting => <<q.src, q.dst, q.worker>> # <<s, p, w>>
    /\ \A r \in appendReps \cup snapReps :
            <<r.src, r.dst, r.worker>> # <<s, p, w>>
    /\ Cardinality(Calls) < MaxCalls

\* replicatePeer up to its call, when the log still holds what p needs.
\* (Its back-off for an unknown previous term and its correction of a zero
\* nextIndex are not modelled: NoLogGap shows that neither is ever taken.)
SendAppend(s, p, w) ==
    LET n    == node[s]
        next == n.nextIndex[p]
    IN  /\ n.role = "leader"
        /\ Idle(s, p, w)
        /\ next > n.store.snapshot_index
        /\ HasTerm(n.store, next - 1)
        /\ appendReqs' = appendReqs \cup
             {[src |-> s, dst |-> p, worker |-> w, term |-> n.currentTerm,
               prevLogIndex |-> next - 1,
               prevLogTerm  |-> TermAt(n.store, next - 1),
               entries      |-> EntriesFrom(n.store, next, AppendBatchSize),
               leaderCommit |-> n.commitIndex,
               waiting      |-> TRUE]}
        /\ UNCHANGED <<node, voteVars, appendReps, snapVars, elected>>

\* replicatePeer up to its call, when what p needs is compacted.
SendSnapshot(s, p, w) ==
    LET n == node[s]
    IN  /\ n.role = "leader"
        /\ Idle(s, p, w)
        /\ n.nextIndex[p] <= n.store.snapshot_index
        /\ snapReqs' = snapReqs \cup
             {[src |-> s, dst |-> p, worker |-> w, term |-> n.currentTerm,
               lastIncludedIndex |-> n.store.snapshot_index,
               lastIncludedTerm  |-> n.store.snapshot_term,
               data              |-> n.store.snapshot_data,
               waiting           |-> TRUE]}
        /\ UNCHANGED <<node, voteVars, appendVars, snapReps, elected>>

\* The section of replicatePeer after an answer r of AppendEntries.
AppendReplyStepDown(r, f) ==
    /\ r.rterm > node[r.src].currentTerm
    /\ node' = [node EXCEPT ![r.src] = stepDownLocked(@, r.rterm, Nobody, f)]
    /\ appendReps' = appendReps \ {r}
    /\ UNCHANGED <<voteVars, appendReqs, snapVars, elected>>

\* The leader is still the one that sent the request.
SameLeadership(n, r) == /\ r.rterm <= n.currentTerm
                        /\ n.role = "leader"
                        /\ n.currentTerm = r.term

AppendReplySuccess(r, f) ==
    LET n     == node[r.src]
        match == Max({r.matchIndex, r.lastSent, n.matchIndex[r.dst]})
    IN  /\ SameLeadership(n, r) /\ r.success
        /\ node' = [node EXCEPT ![r.src] =
                advanceCommitLocked(
                    [n EXCEPT !.matchIndex[r.dst] = match,
                              !.nextIndex[r.dst]  = match + 1], r.src, f)]
        /\ appendReps' = appendReps \ {r}
        /\ UNCHANGED <<voteVars, appendReqs, snapVars, elected>>

\* Mutant: nextIndex is never stepped back to the first row.
AppendReplyFailureHalts(r) ==
    LET n == node[r.src]
    IN  /\ SameLeadership(n, r) /\ ~r.success
        /\ node' = [node EXCEPT ![r.src].nextIndex[r.dst] =
                        IF @ > 2 THEN @ - 1 ELSE @]
        /\ appendReps' = appendReps \ {r}
        /\ UNCHANGED <<voteVars, appendReqs, snapVars, elected>>

AppendReplyFailure(r) ==
    LET n == node[r.src]
    IN  /\ SameLeadership(n, r) /\ ~r.success
        /\ node' = [node EXCEPT ![r.src].nextIndex[r.dst] =
                        IF @ > 1 THEN @ - 1 ELSE @]
        /\ appendReps' = appendReps \ {r}
        /\ UNCHANGED <<voteVars, appendReqs, snapVars, elected>>

SnapReplyStepDown(r, f) ==
    /\ r.rterm > node[r.src].currentTerm
    /\ node' = [node EXCEPT ![r.src] = stepDownLocked(@, r.rterm, Nobody, f)]
    /\ snapReps' = snapReps \ {r}
    /\ UNCHANGED <<voteVars, appendVars, snapReqs, elected>>

\* The answer of InstallSnapshot is used whatever became of the caller's
\* role and term in the meantime.
SnapReplySuccess(r, f) ==
    LET n == node[r.src]
    IN  /\ r.rterm <= n.currentTerm
        /\ node' = [node EXCEPT ![r.src] =
                advanceCommitLocked(
                    [n EXCEPT !.matchIndex[r.dst] = r.lastIncludedIndex,
                              !.nextIndex[r.dst]  = r.lastIncludedIndex + 1],
                    r.src, f)]
        /\ snapReps' = snapReps \ {r}
        /\ UNCHANGED <<voteVars, appendVars, snapReqs, elected>>

----------------------------------------------------------------------------
(* Replication, follower's side                                            *)

\* A request of the current leader makes its receiver a follower of it.
SeenByFollower(n, q, f) ==
    [(IF q.term > n.currentTerm \/ n.role # "follower"
      THEN stepDownLocked(n, q.term, q.src, f) ELSE n) EXCEPT !.leaderID = q.src]

\* Mutant: the previous row must exist, in whatever term.
PrevExists(st, q) == /\ q.prevLogIndex >= st.snapshot_index
                     /\ HasTerm(st, q.prevLogIndex)

PrevMatches(st, q) ==
    /\ q.prevLogIndex >= st.snapshot_index
    /\ HasTerm(st, q.prevLogIndex)
    /\ TermAt(st, q.prevLogIndex) = q.prevLogTerm

Incoming(st, q) == {i \in DOMAIN q.entries : i > st.snapshot_index}

\* The incoming indexes at which the follower's log has nothing or another
\* term; the loop of the handler stops at the first of them.
Differs(st, q) == {i \in Incoming(st, q) :
                      ~HasTerm(st, i) \/ TermAt(st, i) # q.entries[i].term}

Conflict(st, q) == Differs(st, q) # {} /\ HasTerm(st, Min(Differs(st, q)))

\* Mutant: the log is cut at the first incoming row, differing or not.
TruncatedAlways(st, q) ==
    IF Incoming(st, q) # {} THEN DeleteFrom(st, Min(Incoming(st, q))) ELSE st

Truncated(st, q) ==
    IF Conflict(st, q) THEN DeleteFrom(st, Min(Differs(st, q))) ELSE st

Merged(st, q) ==
    LET new == {i \in Incoming(st, q) : \E j \in Differs(st, q) : j <= i}
    IN  AppendEntries(Truncated(st, q), [i \in new |-> q.entries[i]])

\* Mutants: the index after the match, or the last index of the log.
MatchedNext(st, q) == Max({q.prevLogIndex} \cup Incoming(st, q)) + 1
MatchedLast(st, q) == LastIndex(st)

\* The matchIndex of a successful answer.
MatchedUpTo(st, q) == Max({q.prevLogIndex} \cup Incoming(st, q))

FollowCommit(n, s, q, f) ==
    IF q.leaderCommit > n.commitIndex
    THEN applyCommittedLocked(
            [n EXCEPT !.commitIndex = Min({q.leaderCommit, LastIndex(n.store)})],
            s, f)
    ELSE n

AppendAnswer(q, term, success, match) ==
    /\ appendReqs' = appendReqs \ {q}
    /\ appendReps' = appendReps \cup
            Answers(q, [src |-> q.src, dst |-> q.dst, worker |-> q.worker,
                        term |-> q.term,
                        lastSent |-> Max({q.prevLogIndex} \cup DOMAIN q.entries),
                        rterm |-> term, success |-> success,
                        matchIndex |-> match])
    /\ UNCHANGED <<voteVars, snapVars, elected>>

\* The matchIndex of a refusal is never read.
AppendStale(q) ==
    /\ q.term < node[q.dst].currentTerm
    /\ AppendAnswer(q, node[q.dst].currentTerm, FALSE, 0)
    /\ UNCHANGED node

AppendRefused(q, f) ==
    LET n == SeenByFollower(node[q.dst], q, f)
    IN  /\ q.term >= node[q.dst].currentTerm
        /\ f.method # "SnapshotIndexTerm"
        /\ ~PrevMatches(n.store, q)
        /\ node' = [node EXCEPT ![q.dst] = n]
        /\ AppendAnswer(q, n.currentTerm, FALSE, 0)

AppendAccepted(q, f) ==
    LET n == SeenByFollower(node[q.dst], q, f)
        m == [n EXCEPT !.store = Merged(@, q)]
    IN  /\ q.term >= node[q.dst].currentTerm
        /\ f.method \notin {"DeleteFrom", "AppendEntries", "LastIndexAndTerm"}
        /\ PrevMatches(n.store, q)
        /\ node' = [node EXCEPT ![q.dst] = FollowCommit(m, q.dst, q, f)]
        /\ AppendAnswer(q, n.currentTerm, TRUE, MatchedUpTo(m.store, q))

\* The handler returns an error after part of its work: the caller sees a
\* failed call.  (SnapshotIndexTerm fails here before anything is written;
\* in AppendAccepted it fails when the rows are applied.)
AppendError(q, f) ==
    LET n == SeenByFollower(node[q.dst], q, f)
        work == CASE f.method = "SnapshotIndexTerm" -> n
                  [] f.method = "DeleteFrom"        -> n
                  [] f.method = "AppendEntries"     ->
                        [n EXCEPT !.store = Truncated(@, q)]
                  [] f.method = "LastIndexAndTerm"  ->
                        [n EXCEPT !.store = Merged(@, q)]
    IN  /\ f.method \in {"SnapshotIndexTerm", "DeleteFrom", "AppendEntries",
                         "LastIndexAndTerm"}
        /\ q.term >= node[q.dst].currentTerm
        /\ f.method # "SnapshotIndexTerm" => PrevMatches(n.store, q)
        /\ f.method = "DeleteFrom" => Conflict(n.store, q)
        /\ f.method = "AppendEntries" => Differs(n.store, q) # {}
        /\ node' = [node EXCEPT ![q.dst] = work]
        /\ appendReqs' = appendReqs \ {q}
        /\ UNCHANGED <<voteVars, appendReps, snapVars, elected>>

SnapAnswer(q, term) ==
    /\ snapReqs' = snapReqs \ {q}
    /\ snapReps' = snapReps \cup
            Answers(q, [src |-> q.src, dst |-> q.dst, worker |-> q.worker,
                        lastIncludedIndex |-> q.lastIncludedIndex,
                        rterm |-> term])
    /\ UNCHANGED <<voteVars, appendVars, elected>>

SnapshotStale(q) ==
    /\ q.term < node[q.dst].currentTerm
    /\ SnapAnswer(q, node[q.dst].currentTerm)
    /\ UNCHANGED node

SnapshotIgnored(q, f) ==
    LET n == SeenByFollower(node[q.dst], q, f)
    IN  /\ q.term >= node[q.dst].currentTerm
        /\ f.method # "SnapshotIndexTerm"
        /\ q.lastIncludedIndex <= n.store.snapshot_index
        /\ node' = [node EXCEPT ![q.dst] = n]
        /\ SnapAnswer(q, n.currentTerm)

SnapshotInstalled(q, f) ==
    LET n == SeenByFollower(node[q.dst], q, f)
    IN  /\ q.term >= node[q.dst].currentTerm
        /\ f.method \notin {"SnapshotIndexTerm", "InstallSnapshot"}
        /\ q.lastIncludedIndex > n.store.snapshot_index
        /\ node' = [node EXCEPT ![q.dst] =
             [n EXCEPT
                !.store = InstallSnapshot(@, q.lastIncludedIndex,
                                          q.lastIncludedTerm, q.data),
                !.commitIndex = Max({@, q.lastIncludedIndex}),
                !.lastApplied = Max({@, q.lastIncludedIndex})]]
        /\ SnapAnswer(q, n.currentTerm)

SnapshotError(q, f) ==
    LET n == SeenByFollower(node[q.dst], q, f)
    IN  /\ f.method \in {"SnapshotIndexTerm", "InstallSnapshot"}
        /\ q.term >= node[q.dst].currentTerm
        /\ f.method = "InstallSnapshot" =>
                q.lastIncludedIndex > n.store.snapshot_index
        /\ node' = [node EXCEPT ![q.dst] = n]
        /\ snapReqs' = snapReqs \ {q}
        /\ UNCHANGED <<voteVars, appendVars, snapReps, elected>>

----------------------------------------------------------------------------
(* Clients, timeouts and restarts                                          *)

\* Write, up to the wait for the commit.  A node without peers commits here.
Write(s, cmd, f) ==
    LET n     == node[s]
        index == LastIndex(n.store) + 1
        m     == [n EXCEPT
                    !.store = AppendEntries(@, [i \in {index} |->
                                [term |-> n.currentTerm, cmd |-> cmd]]),
                    !.matchIndex[s] = index]
    IN  /\ n.role = "leader"
        /\ index <= MaxIndex
        /\ node' = [node EXCEPT ![s] =
                IF Majority = 1 THEN advanceCommitLocked(m, s, f) ELSE m]
        /\ UNCHANGED <<voteVars, appendVars, snapVars, elected>>

\* The deadline of a call passes, or the connection breaks: the goroutine
\* gives up.  The request is lost, or it is only late and will be handled.
AppendTimeout(q) ==
    /\ q.waiting
    /\ \/ appendReqs' = appendReqs \ {q}
       \/ appendReqs' = (appendReqs \ {q}) \cup {[q EXCEPT !.waiting = FALSE]}
    /\ UNCHANGED <<node, voteVars, appendReps, snapVars, elected>>

\* The answer is lost, or comes when the leader has moved on and ignores it.
AppendReplyLost(r) ==
    /\ appendReps' = appendReps \ {r}
    /\ UNCHANGED <<node, voteVars, appendReqs, snapVars, elected>>

SnapTimeout(q) ==
    /\ q.waiting
    /\ \/ snapReqs' = snapReqs \ {q}
       \/ snapReqs' = (snapReqs \ {q}) \cup {[q EXCEPT !.waiting = FALSE]}
    /\ UNCHANGED <<node, voteVars, appendVars, snapReps, elected>>

SnapReplyLost(r) ==
    /\ snapReps' = snapReps \ {r}
    /\ UNCHANGED <<node, voteVars, appendVars, snapReqs, elected>>

\* The process of s stops or crashes, and New builds a Node from its store.
Restart(s) ==
    LET st == node[s].store
    IN  /\ node' = [node EXCEPT ![s] =
             [role        |-> "follower",
              currentTerm |-> st.current_term,
              votedFor    |-> st.voted_for,
              leaderID    |-> Nobody,
              commitIndex |-> st.last_applied,
              lastApplied |-> st.last_applied,
              nextIndex   |-> [p \in Server |-> 0],
              matchIndex  |-> [p \in Server |-> 0],
              votes       |-> {},
              store       |-> st,
              applied     |-> @.applied]]
        /\ voteReqs' = Abandon(voteReqs, s)
        /\ voteReps' = {r \in voteReps : r.src # s}
        /\ appendReqs' = Abandon(appendReqs, s)
        /\ appendReps' = {r \in appendReps : r.src # s}
        /\ snapReqs' = Abandon(snapReqs, s)
        /\ snapReps' = {r \in snapReps : r.src # s}
        /\ UNCHANGED elected

----------------------------------------------------------------------------
ElectionStep ==
    \/ \E s \in Server : StartElection(s)
    \/ \E s \in Server, f \in Faults : StartElectionError(s, f)
    \/ \E s \in Server : WinAlone(s)
    \/ \E q \in voteReqs : RequestVoteStale(q)
    \/ \E q \in voteReqs : RequestVoteGranted(q)
    \/ \E q \in voteReqs, f \in Faults : RequestVoteRejected(q, f)
    \/ \E q \in voteReqs, f \in Faults : RequestVoteError(q, f)
    \/ \E r \in voteReps, f \in Faults : VoteReplyStepDown(r, f)
    \/ \E r \in voteReps, f \in Faults : VoteReplyCounted(r, f)

LeaderStep ==
    \/ \E s \in Server : \E p \in Peers(s), w \in Worker : SendAppend(s, p, w)
    \/ \E s \in Server : \E p \in Peers(s), w \in Worker : SendSnapshot(s, p, w)
    \/ \E r \in appendReps, f \in Faults : AppendReplyStepDown(r, f)
    \/ \E r \in appendReps, f \in Faults : AppendReplySuccess(r, f)
    \/ \E r \in appendReps : AppendReplyFailure(r)
    \/ \E r \in snapReps, f \in Faults : SnapReplyStepDown(r, f)
    \/ \E r \in snapReps, f \in Faults : SnapReplySuccess(r, f)
    \/ \E s \in Server, cmd \in Command, f \in Faults : Write(s, cmd, f)

FollowerStep ==
    \/ \E q \in appendReqs : AppendStale(q)
    \/ \E q \in appendReqs, f \in Faults : AppendRefused(q, f)
    \/ \E q \in appendReqs, f \in Faults : AppendAccepted(q, f)
    \/ \E q \in appendReqs, f \in Faults : AppendError(q, f)
    \/ \E q \in snapReqs : SnapshotStale(q)
    \/ \E q \in snapReqs, f \in Faults : SnapshotIgnored(q, f)
    \/ \E q \in snapReqs, f \in Faults : SnapshotInstalled(q, f)
    \/ \E q \in snapReqs, f \in Faults : SnapshotError(q, f)

Misfortune ==
    \/ \E q \in appendReqs : AppendTimeout(q)
    \/ \E r \in appendReps : AppendReplyLost(r)
    \/ \E q \in snapReqs : SnapTimeout(q)
    \/ \E r \in snapReps : SnapReplyLost(r)
    \/ \E s \in Unstable : Restart(s)

Next == ElectionStep \/ LeaderStep \/ FollowerStep \/ Misfortune

Spec == Init /\ [][Next]_vars
=============================================================================
