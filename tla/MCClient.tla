------------------------------ MODULE MCClient ------------------------------
(***************************************************************************)
(* Instances of ClientService for TLC.                                     *)
(***************************************************************************)
EXTENDS ClientService, MCRaft

\* A constraint on what clients write, so that a value tells who led when it
\* was written.
ValueIsTerm ==
    \A s \in Server :
        LET log == node[s].store.log_entries
        IN  \A i \in DOMAIN log : log[i].cmd.value = log[i].term

\* A constraint that leaves the first leader one row: the second leader may
\* overwrite it, or add to it.
FirstWritesOnce ==
    \A s \in Server :
        node[s].currentTerm = 1 => LastIndex(node[s].store) <= 1
=============================================================================
