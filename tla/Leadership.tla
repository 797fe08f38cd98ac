----------------------------- MODULE Leadership -----------------------------
(***************************************************************************)
(* What elections promise to the rest of a node and to its clients: every  *)
(* term has at most one winner, and a node names as its leader nobody, or  *)
(* the winner of a term.  How votes, messages and disks bring this about   *)
(* is left to Raft.tla, which implements this specification.               *)
(***************************************************************************)
EXTENDS Naturals

CONSTANT Server

VARIABLES winners,  \* every [term, leader] that has won an election so far
          follows   \* follows[s]: the winner that s names, as a set of one,
                    \* or the empty set

vars == <<winners, follows>>

Init == winners = {} /\ follows = [s \in Server |-> {}]

\* s wins a term that nobody has won, and names itself.
Elect(s) ==
    \E w \in winners' \ winners :
        /\ w.leader = s
        /\ \A v \in winners : v.term # w.term
        /\ winners' = winners \cup {w}
        /\ follows' = [follows EXCEPT ![s] = {w}]

\* s hears of a winner later than the one it names, if it names any.
Follow(s) ==
    \E w \in winners :
        /\ \A v \in follows[s] : v.term < w.term
        /\ follows' = [follows EXCEPT ![s] = {w}]
        /\ UNCHANGED winners

\* s restarts, stands for election itself or sees a later term.
Forget(s) ==
    /\ follows' = [follows EXCEPT ![s] = {}]
    /\ UNCHANGED winners

Next == \E s \in Server : Elect(s) \/ Follow(s) \/ Forget(s)

Spec == Init /\ [][Next]_vars
=============================================================================
