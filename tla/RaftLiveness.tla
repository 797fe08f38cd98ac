---------------------------- MODULE RaftLiveness ----------------------------
(***************************************************************************)
(* What eventually happens to the nodes of Raft.tla, and the fairness that *)
(* this takes.                                                             *)
(*                                                                         *)
(* A leader's run loop calls every peer at each heartbeat, for as long as  *)
(* it leads.  Calls between the nodes of Reachable, a majority, may be     *)
(* lost any number of times but not all of them; the other nodes may be    *)
(* cut off or down for good.  Nothing is assumed of elections, clients,    *)
(* timeouts and restarts: they may happen or not, any number of times.     *)
(***************************************************************************)
EXTENDS RaftProperties

CONSTANT Reachable

ASSUME LivenessConstants == /\ Reachable \subseteq Server
                            /\ Cardinality(Reachable) >= Majority

\* The reachable nodes that the bound Ballot lets stand for election.
Candidates ==
    {s \in Reachable : \E t \in DOMAIN Ballot : <<s, s>> \in Ballot[t]}

Others(s) == Reachable \ {s}

\* s calls p.
Sends(s, p) == \E w \in Worker : SendAppend(s, p, w) \/ SendSnapshot(s, p, w)

\* s waits for an answer of p, or is about to look at it, ...
Pending(s, p) ==
    \/ \E q \in appendReqs \cup snapReqs : q.src = s /\ q.dst = p /\ q.waiting
    \/ \E r \in appendReps \cup snapReps : r.src = s /\ r.dst = p

\* ... and uses it.
Returns(s, p) ==
    \/ \E r \in appendReps :
            /\ r.src = s /\ r.dst = p
            /\ \/ AppendReplyStepDown(r, NoFault)
               \/ AppendReplySuccess(r, NoFault)
               \/ AppendReplyFailure(r)
    \/ \E r \in snapReps :
            /\ r.src = s /\ r.dst = p
            /\ SnapReplyStepDown(r, NoFault) \/ SnapReplySuccess(r, NoFault)

\* - A leader calls its peers again and again (run, replicateAllOnce).  The
\*   fairness is strong because other calls may fill MaxCalls now and then.
\* - If s calls p again and again, answers get through again and again.
\* - Every call comes to an end, by its answer or by its deadline, so that
\*   the bound MaxCalls does not hold up others for ever.
Fairness ==
    /\ \A s \in Candidates : \A p \in Others(s) :
            /\ SF_vars(Sends(s, p))
            /\ []<>Pending(s, p) => []<><<Returns(s, p)>>_vars
    /\ []<>(Cardinality(Calls) < MaxCalls)

LiveSpec == Spec /\ Fairness

----------------------------------------------------------------------------
Leads(s) == node[s].role = "leader"

\* p has every row of s, and has applied at least as much.
UpToDate(p, s) ==
    LET log == node[s].store.log_entries
    IN  /\ \A i \in DOMAIN log : Holds(node[p].store, i, log[i])
        /\ node[p].lastApplied >= node[s].lastApplied

\* Under a leader that stays, every node it reaches gets the leader's log and
\* applies what the leader has applied, wherever its own log departed from it
\* and whatever it missed: the search for the last common row by nextIndex
\* ends (replicatePeer, AppendEntries).
CatchUp ==
    \A s \in Candidates :
        <>[]Leads(s) => <>[](\A p \in Others(s) : UpToDate(p, s))

\* A leader that stays and reaches a majority commits its log as soon as the
\* last row is one of its own: a client's write is not left waiting for ever
\* (Write, replicatePeer, advanceCommitLocked).
CommitsOwnRows ==
    \A s \in Candidates :
        <>[]Leads(s) =>
            <>[](LastTerm(node[s].store) = node[s].currentTerm =>
                    node[s].commitIndex = LastIndex(node[s].store))
=============================================================================
