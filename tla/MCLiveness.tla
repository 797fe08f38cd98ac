----------------------------- MODULE MCLiveness -----------------------------
(***************************************************************************)
(* Instances of RaftLiveness for TLC.                                      *)
(***************************************************************************)
EXTENDS RaftLiveness, MCRaft

\* A constraint that narrows the search for a counterexample to behaviours in
\* which no call times out, n1 brings its row to n2, and applies and compacts
\* it, before n2 leads; n2 writes a second row that nobody gets before it is
\* elected again; and n3 only votes.
Relapse ==
    LET last(s) == LastIndex(node[s].store)
        snap(s) == node[s].store.snapshot_index
        term == node[n2].currentTerm
    IN  /\ \A q \in appendReqs \cup snapReqs : q.waiting /\ q.dst # n3
        /\ last(n1) <= 1
        /\ term >= 2 => snap(n1) = 1 /\ last(n2) >= 1 /\ snap(n2) = 0
        /\ last(n2) > 1 => term >= 2
        /\ last(n2) > 2 => term = 3
        /\ term = 3 => last(n2) >= 2
=============================================================================
