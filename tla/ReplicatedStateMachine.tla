----------------------- MODULE ReplicatedStateMachine -----------------------
(***************************************************************************)
(* What the cluster promises to its users: there is one sequence of        *)
(* commands, it only grows, and the key-value table on the disk of every   *)
(* server is the result of a prefix of it, a prefix that never gets        *)
(* shorter.  Leaders, logs, snapshots and crashes are left to Raft.tla.    *)
(***************************************************************************)
EXTENDS Naturals, FiniteSets

CONSTANTS Server, Key, NoValue

VARIABLES chosen,    \* the sequence: a set of [index, row], row.cmd the command
          position,  \* position[s]: how much of it s has applied
          table      \* table[s]: the key-value table of s

vars == <<chosen, position, table>>

\* The elements of C are numbered 1, 2, ... without repetition.
IsLog(C) == {c.index : c \in C} = 1..Cardinality(C)

\* The table after the commands of C up to index, the last write of a key
\* being the one that counts.
Replay(C, index) ==
    [k \in Key |->
        LET writes == {c \in C : c.index <= index /\ c.row.cmd.key = k}
        IN  IF writes = {} THEN NoValue
            ELSE (CHOOSE c \in writes : \A d \in writes : d.index <= c.index)
                    .row.cmd.value]

Init == /\ chosen = {}
        /\ position = [s \in Server |-> 0]
        /\ table = [s \in Server |-> Replay({}, 0)]

\* Commands are added at the end, and s may take over some more of them.
Advance(s) ==
    /\ chosen \subseteq chosen' /\ IsLog(chosen')
    /\ position' = [position EXCEPT ![s] = position'[s]]
    /\ position'[s] \in position[s]..Cardinality(chosen')
    /\ table' = [table EXCEPT ![s] = Replay(chosen', position'[s])]

Next == \E s \in Server : Advance(s)

Spec == Init /\ [][Next]_vars
=============================================================================
