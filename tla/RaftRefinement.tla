--------------------------- MODULE RaftRefinement ---------------------------
(***************************************************************************)
(* Raft implements the two abstract specifications Leadership and          *)
(* ReplicatedStateMachine: the refinement mappings.                        *)
(***************************************************************************)
EXTENDS RaftProperties

\* The winner that s names: leaderID, read in the current term of s.
Named(s) ==
    IF node[s].leaderID = Nobody THEN {}
    ELSE {[term |-> node[s].currentTerm, leader |-> node[s].leaderID]}

Elections == INSTANCE Leadership WITH
                winners <- elected,
                follows <- [s \in Server |-> Named(s)]

Machine == INSTANCE ReplicatedStateMachine WITH
                chosen   <- History,
                position <- [s \in Server |-> node[s].store.last_applied],
                table    <- [s \in Server |-> node[s].store.kv]

\* Elections as other code sees them: whatever votes, failed saves, restarts
\* and heartbeats go on below, each step of a node elects the winner of a new
\* term, makes a node name a later winner, or makes it name nobody
\* (startElection, RequestVote, stepDownLocked, AppendEntries, New).
ImplementsLeadership == Elections!Spec

\* The cluster as its users see it: every step of every handler leaves the
\* tables on disk prefixes of one growing sequence of commands, and no step,
\* be it a restart, a snapshot or a failed transaction, takes a table back
\* (applyCommittedLocked, ApplySet, CreateSnapshot, InstallSnapshot).
ImplementsStateMachine == Machine!Spec
=============================================================================
