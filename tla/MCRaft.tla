------------------------------- MODULE MCRaft -------------------------------
(***************************************************************************)
(* Instances of Raft for TLC.                                              *)
(***************************************************************************)
EXTENDS RaftRefinement, TLC

CONSTANTS n1, n2, n3, n4, n5

\* Elections: two nodes may stand for two terms, and everybody may vote ...
Contested == [t \in 1..2 |-> {n1, n2} \X Server]

\* ... or each term has one candidate c and one voter v.
Duel(c, v) == {<<c, c>>, <<c, v>>}

Succession == <<Duel(n1, n2), Duel(n2, n3), Duel(n1, n3)>>

Handover == <<Duel(n1, n2), Duel(n2, n3)>>

OneTerm == <<Duel(n1, n2)>>

Poll(c, V) == {<<c, v>> : v \in V \cup {c}}

FiveNodes == <<Poll(n1, {n2, n3}), Poll(n2, {n4, n5})>>

Reelection == <<Duel(n1, n2), Duel(n2, n3), Duel(n2, n3)>>

Rivals == <<Poll(n1, {n2, n3}), Poll(n4, {n2, n3}),
            Poll(n1, {n2, n3}), Poll(n4, {n2, n3})>>

Alone == [t \in 1..3 |-> {<<n1, n1>>}]

FigureEight == <<Duel(n1, n2), Duel(n3, n2), Duel(n1, n2), Duel(n3, n2)>>

\* RAFT_SNAPSHOT_THRESHOLD: no snapshots, or one after every commit.
NoSnapshots == [s \in Server |-> 0]
EachCommit == [s \in Server |-> 1]
EachTwo == [s \in Server |-> 2]
OnlyFirst == [s \in Server |-> IF s = n1 THEN 1 ELSE 0]
AllButLast == [s \in Server |-> IF s = n3 THEN 0 ELSE 1]

\* Constraints that narrow the search for a counterexample: to behaviours in
\* which no call times out, n1 ends its term with two rows of which n2 has
\* the first, and n2 ends its term having applied two,
Divergence ==
    /\ \A q \in appendReqs : q.waiting
    /\ node[n2].currentTerm >= 2 =>
            /\ LastIndex(node[n1].store) = 2
            /\ LastIndex(node[n2].store) >= 1
    /\ node[n2].currentTerm = 3 => node[n2].store.last_applied = 2

\* ... to faults of one node,
OneBadDisk ==
    \A s \in Server \ {n3} : node[s].currentTerm = node[s].store.current_term

\* ... to calls to one node at a time, in this order: n1 brings its first row
\* to n2, n3 and n4, then writes two more; n4 takes over and writes one row;
\* n1 is back and brings n2 and then n3 up to its last row; n4 is back while
\* n1 waits for the answer of InstallSnapshot.
Rivalry ==
    LET last(s) == LastIndex(node[s].store)
        term == Max({node[s].currentTerm : s \in Server})
        matched == {p \in Peers(n1) : node[n1].matchIndex[p] = 3}
        target(q) == CASE term = 3 /\ matched = {} -> {n2}
                       [] term = 3 /\ matched = {n2} -> {n3}
                       [] term = 3 /\ matched = {n2, n3} -> {n4}
                       [] term \in {2, 4} -> {n1, n4}
                       [] OTHER -> Server
    IN  /\ \A q \in appendReqs \cup snapReqs : q.waiting
        /\ \A q \in appendReqs : q.dst \in target(q)
        /\ last(n2) >= last(n3) /\ last(n3) >= Min({last(n4), 1})
        /\ last(n1) > 1 => last(n4) >= 1 /\ node[n1].store.snapshot_index = 1
        /\ term >= 2 => last(n1) = 3
        /\ term < 3 => last(n2) <= 1 /\ node[n2].commitIndex = 0
        /\ term >= 3 => last(n4) >= 2 /\ node[n4].commitIndex <= 1
        /\ Cardinality(Calls) > 1 => term >= 3 /\ matched = {n2, n3}
        /\ term = 4 => matched = {n2, n3} /\ Cardinality(snapReps) = 1

\* ... and to steps that lose no request and no answer.
NoLoss ==
    \/ node' # node \/ voteReqs' # voteReqs
    \/ Cardinality(appendReqs') + Cardinality(appendReps') >=
            Cardinality(appendReqs) + Cardinality(appendReps)

SymmetricCandidates == Permutations({n1, n2})
SymmetricValues == Permutations(Value)
SymmetricKeys == Permutations(Key)
=============================================================================
