--------------------------- MODULE RaftProperties ---------------------------
(***************************************************************************)
(* What the nodes of Raft.tla promise: the invariants and action           *)
(* properties that the runs check and the proof module proves.             *)
(***************************************************************************)
EXTENDS Raft

Roles == {"follower", "candidate", "leader"}

Ids == Server \cup {Nobody}

Index == 0..MaxIndex

IsStore(st) ==
    /\ IsTable(st.log_entries, MaxIndex)
    /\ st \in [current_term   : Nat,
               voted_for      : Ids,
               last_applied   : Index,
               snapshot_index : Index,
               snapshot_term  : Nat,
               snapshot_data  : KvTables,
               log_entries    : {st.log_entries},
               kv             : KvTables]

IsNode(n) ==
    /\ IsStore(n.store)
    /\ n \in [role        : Roles,
              currentTerm : Nat,
              votedFor    : Ids,
              leaderID    : Ids,
              commitIndex : Index,
              lastApplied : Index,
              nextIndex   : [Server -> 0..(MaxIndex + 1)],
              matchIndex  : [Server -> Index],
              votes       : SUBSET Server,
              store       : {n.store},
              applied     : SUBSET [index : Index, row : Row]]

IsAppendReq(q) ==
    /\ IsTable(q.entries, MaxIndex)
    /\ q \in [src : Server, dst : Server, worker : Worker, term : Nat,
              prevLogIndex : Index, prevLogTerm : Nat, entries : {q.entries},
              leaderCommit : Index, waiting : BOOLEAN]

VoteReqs == [src : Server, dst : Server, term : Nat,
             lastLogIndex : Index, lastLogTerm : Nat, waiting : BOOLEAN]

VoteReps == [src : Server, dst : Server, term : Nat,
             rterm : Nat, granted : BOOLEAN]

AppendReps == [src : Server, dst : Server, worker : Worker, term : Nat,
               lastSent : Index, rterm : Nat, success : BOOLEAN,
               matchIndex : Index]

SnapReqs == [src : Server, dst : Server, worker : Worker, term : Nat,
             lastIncludedIndex : Index, lastIncludedTerm : Nat,
             data : KvTables, waiting : BOOLEAN]

SnapReps == [src : Server, dst : Server, worker : Worker,
             lastIncludedIndex : Index, rterm : Nat]

\* Every variable of every node, every row of every store and every call in
\* flight has the type its Go declaration gives it, and no index, in memory,
\* on disk or in flight, runs past the last one a client's write was given.
TypeOK ==
    /\ node = [s \in Server |-> node[s]]
    /\ \A s \in Server : IsNode(node[s])
    /\ voteReqs \subseteq VoteReqs
    /\ voteReps \subseteq VoteReps
    /\ \A q \in appendReqs : IsAppendReq(q)
    /\ appendReps \subseteq AppendReps
    /\ snapReqs \subseteq SnapReqs
    /\ snapReps \subseteq SnapReps
    /\ elected \subseteq [term : Nat, leader : Server]

----------------------------------------------------------------------------
(* Elections                                                               *)

\* At most one node wins the election of a term (RequestVote and
\* startElection of every node, with restarts between any two votes).
ElectionSafety ==
    \A a, b \in elected : a.term = b.term => a = b

\* Candidate c has, or will have when the answer arrives, p's vote in term.
Cast(p, term, c) ==
    \/ \E r \in voteReps :
            r.granted /\ <<r.dst, r.term, r.src>> = <<p, term, c>>
    \/ p \in node[c].votes /\ node[c].currentTerm = term

\* p's store still tells of that vote, or p has moved to a later term.
OnDisk(p, term, c) ==
    LET st == node[p].store
    IN  \/ st.current_term > term
        \/ st.current_term = term /\ st.voted_for = c

\* p's vote in term is durable, and nobody else has one from p.
VoteMade(p, term, c) ==
    /\ OnDisk(p, term, c)
    /\ \A d \in Server : Cast(p, term, d) => d = c

\* A vote that is counted, or on its way, was saved before it was given, and
\* a voter has one per term, whatever fails or restarts between SaveTermVote,
\* the answer and the count (RequestVote, startElection).
VotesBacked ==
    \A p, c \in Server :
        \A term \in {r.term : r \in voteReps}
                   \cup {node[s].currentTerm : s \in Server} :
            Cast(p, term, c) => VoteMade(p, term, c)

\* leaderID is never a guess: the leader a node names did win the node's
\* current term (stepDownLocked, AppendEntries and InstallSnapshot set it).
LeaderHint ==
    \A s \in Server :
        node[s].leaderID # Nobody =>
            [term |-> node[s].currentTerm, leader |-> node[s].leaderID]
                \in elected

\* Write and Read of a node that does not lead forward the call to leaderID.
\* That node leads, or knows no leader, or is in a later term: a call cannot
\* be forwarded in a circle.
NoForwardingLoop ==
    \A s \in Server :
        LET l == node[s].leaderID
        IN  (node[s].role # "leader" /\ l # Nobody) =>
                /\ l # s
                /\ \/ node[l].role = "leader"
                   \/ node[l].leaderID = Nobody
                   \/ node[l].currentTerm > node[s].currentTerm

\* What SaveTermVote made durable stays: no step, a restart included, lowers
\* the saved term or replaces a vote saved in it.
VoteDurable ==
    [][\A s \in Server :
        LET old == node[s].store
            new == node[s].store'
        IN  /\ new.current_term >= old.current_term
            /\ (new.current_term = old.current_term /\ old.voted_for # Nobody)
                    => new.voted_for = old.voted_for]_vars

----------------------------------------------------------------------------
(* The replicated log                                                      *)

\* Rows of p's store at index i: in its log, or compacted into its snapshot.
Holds(st, i, row) == \/ i <= st.snapshot_index
                     \/ i \in DOMAIN st.log_entries /\ st.log_entries[i] = row

History == UNION {node[s].applied : s \in Server}

\* Two logs that have a row of the same index and term are the same up to
\* that index (the previous-entry check of AppendEntries).
LogMatching ==
    \A s, t \in Server :
        LET a == node[s].store.log_entries
            b == node[t].store.log_entries
        IN  \A i \in DOMAIN a \cap DOMAIN b :
                a[i].term = b[i].term =>
                    \A j \in DOMAIN a \cap DOMAIN b : j <= i => a[j] = b[j]

\* A log has no holes: its rows follow the snapshot and each other.  (Term
\* and Entry of a committed index always find their row, and the back-off
\* of replicatePeer for an unknown previous term is never taken.)
NoLogGap ==
    \A s \in Server :
        LET st == node[s].store
        IN  /\ DOMAIN st.log_entries = (st.snapshot_index + 1)..LastIndex(st)
            /\ node[s].role = "leader" =>
                \A p \in Peers(s) : node[s].nextIndex[p] \in 1..(LastIndex(st) + 1)

\* Nodes apply the same command at the same index (applyCommittedLocked of
\* every node, before and after restarts).
StateMachineSafety ==
    \A a, b \in History : a.index = b.index => a = b

\* The leader of the latest term has every row that any node has applied.
LeaderCompleteness ==
    \A s \in Server :
        (/\ node[s].role = "leader"
         /\ \A e \in elected : e.term <= node[s].currentTerm) =>
            \A a \in History : Holds(node[s].store, a.index, a.row)

\* What a node has applied is durable on a majority, whatever restarts,
\* truncations and snapshots come after.
CommittedOnMajority ==
    \A a \in History :
        Cardinality({s \in Server : Holds(node[s].store, a.index, a.row)})
            >= Majority

\* A node never loses a row it has applied, except to its own snapshot: a
\* late or reordered AppendEntries truncates nothing that is committed.
AppliedRowsStay ==
    [][\A s \in Server : \A a \in node[s].applied :
        Holds(node[s].store, a.index, a.row) =>
            Holds(node[s].store', a.index, a.row)]_vars

\* matchIndex of the leader is never ahead of the peer: while the peer has
\* not seen a later term, it holds every row the leader has counted on.
MatchIndexHonest ==
    \A s \in Server : \A p \in Peers(s) :
        LET log == node[s].store.log_entries
        IN  (/\ node[s].role = "leader"
             /\ node[p].currentTerm <= node[s].currentTerm) =>
                \A i \in DOMAIN log :
                    i <= node[s].matchIndex[p] =>
                        Holds(node[p].store, i, log[i])

----------------------------------------------------------------------------
(* The state machine                                                       *)

\* The kv table that the applied commands up to index give.
Replay(index) ==
    [k \in Key |->
        LET writes == {a \in History : a.index <= index /\ a.row.cmd.key = k}
        IN  IF writes = {} THEN NoValue
            ELSE (CHOOSE a \in writes : \A b \in writes : b.index <= a.index)
                    .row.cmd.value]

\* The kv table and the snapshot are what the commands up to last_applied
\* and snapshot_index give, with no command lost or applied twice out of
\* order (ApplySet, CreateSnapshot, InstallSnapshot).
DurableStateMachine ==
    \A s \in Server :
        LET st == node[s].store
        IN  /\ st.kv = Replay(st.last_applied)
            /\ st.snapshot_data = Replay(st.snapshot_index)

\* lastApplied in memory is the index of the last command in the kv table:
\* "Highest state-machine-applied log index."
LastAppliedIsDurable ==
    \A s \in Server : node[s].lastApplied = node[s].store.last_applied
=============================================================================
