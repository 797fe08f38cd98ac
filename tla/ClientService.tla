--------------------------- MODULE ClientService ---------------------------
(***************************************************************************)
(* The client calls Write and Read of rpc.go on top of the nodes of        *)
(* Raft.tla: forwarding to the leader, the wait of a Write for its commit, *)
(* the round of heartbeats by which a Read confirms the leader, and the    *)
(* lookup that follows it with the lock released.                          *)
(*                                                                         *)
(* Each client makes one call at a time, to any node.  The goroutines that *)
(* replicateAllOnce starts for its call are the Worker of the client's     *)
(* name; the other Workers send the heartbeats of the run loop.  The       *)
(* composition takes every step of Raft except Write, which only a client  *)
(* makes here.                                                             *)
(*                                                                         *)
(* A new call begins with the handler's first critical section: before it  *)
(* nobody can tell whether the call was made.                              *)
(*                                                                         *)
(* A call that returns an error or "not leader" and one whose client gave  *)
(* up are not told apart: the client knows nothing and may call again.     *)
(***************************************************************************)
EXTENDS RaftProperties

CONSTANT Client

ASSUME ClientConstants == Client \subseteq Worker

VARIABLES op,    \* op[c]: the call that client c makes
          acked  \* history: every [index, row] that a Write answered for

clientVars == <<op, acked>>

Requests == Command \cup [key : Key]

IsWrite(req) == req \in Command

Idling == [at |-> "client"]

At(c, place) == op[c].at = place

Becomes(c, o) == op' = [op EXCEPT ![c] = o]

ClientInit ==
    /\ Init
    /\ op = [c \in Client |-> Idling]
    /\ acked = {}

----------------------------------------------------------------------------
(* A call up to the leader                                                 *)

\* The handler of s starts with request req: the client has made a new call,
\* or one that another node has forwarded arrives.
Received(c, req, s) ==
    \/ At(c, "client") \/ At(c, "answer")
    \/ At(c, "forwarded") /\ <<op[c].req, op[c].node>> = <<req, s>>

\* The index up to which writes were acknowledged when the client called.
Floor(c) == IF At(c, "forwarded") THEN op[c].floor
            ELSE Max({0} \cup {a.index : a \in acked})

\* leaderID is read with the lock held and the call forwarded after the
\* unlock, so the leader named may be deposed when the call arrives.
Forward(c, req, s) ==
    LET n == node[s]
    IN  /\ Received(c, req, s)
        /\ n.role # "leader"
        /\ n.leaderID \in Peers(s)
        /\ Becomes(c, [at |-> "forwarded", req |-> req, node |-> n.leaderID,
                       hop |-> n.currentTerm, floor |-> Floor(c)])
        /\ UNCHANGED <<vars, acked>>

NotLeader(c) ==
    LET n == node[op[c].node]
    IN  /\ At(c, "forwarded")
        /\ n.role # "leader"
        /\ n.leaderID \notin Peers(op[c].node)
        /\ Becomes(c, Idling)
        /\ UNCHANGED <<vars, acked>>

\* The connection breaks, or the store returns an error before Write has
\* appended its row or when Read looks up its key.
CallFails(c) ==
    /\ At(c, "forwarded") \/ At(c, "lookup")
    /\ Becomes(c, Idling)
    /\ UNCHANGED <<vars, acked>>

----------------------------------------------------------------------------
(* replicateAllOnce on behalf of a call: one goroutine per peer, all of    *)
(* them awaited.  todo holds the peers that a goroutine is about to call,  *)
(* acks those for which it returned true; Write makes no use of these.     *)

InRound(c) == At(c, "write") \/ At(c, "read")

Of(c, call) == call.worker = c /\ call.src = op[c].node

RoundSend(c, p) ==
    /\ InRound(c) /\ p \in op[c].todo
    /\ \/ SendAppend(op[c].node, p, c)
       \/ SendSnapshot(op[c].node, p, c)
    /\ op' = [op EXCEPT ![c].todo = @ \ {p}]
    /\ UNCHANGED acked

\* The goroutine that gets answer r is done, or tries again after a refusal.
Counted(c, r, done) ==
    IF InRound(c) /\ Of(c, r)
    THEN [op[c] EXCEPT !.acks = @ \cup {p \in {r.dst} : done /\ At(c, "read")},
                       !.todo = @ \cup {p \in {r.dst} : ~done}]
    ELSE op[c]

Count(r, done) == /\ op' = [c \in Client |-> Counted(c, r, done)]
                  /\ UNCHANGED acked

\* No goroutine of the round waits for an answer.  The peers left in todo
\* are given up: the deadline has passed, or the node no longer leads.
RoundOver(c) ==
    /\ \A q \in appendReqs \cup snapReqs : q.waiting => ~Of(c, q)
    /\ \A r \in appendReps \cup snapReps : ~Of(c, r)

----------------------------------------------------------------------------
(* Write                                                                   *)

WriteAppend(c, req, s, f) ==
    /\ Received(c, req, s) /\ IsWrite(req)
    /\ Write(s, req, f)
    /\ Becomes(c, [at |-> "write", req |-> req, node |-> s,
                   todo |-> Peers(s), acks |-> {},
                   index |-> LastIndex(node[s].store) + 1,
                   term |-> node[s].currentTerm])
    /\ UNCHANGED acked

\* Mutant: Write answers when commitIndex has come far enough, whoever
\* leads by then.
CommittedByNow(n, o) == n.commitIndex >= o.index

\* The conditions under which Write reports success.
WriteCommitted(n, o) == /\ n.role = "leader"
                        /\ n.currentTerm = o.term
                        /\ n.commitIndex >= o.index

WriteSucceeds(c) ==
    LET o == op[c]
    IN  /\ At(c, "write") /\ RoundOver(c)
        /\ WriteCommitted(node[o.node], o)
        /\ acked' = acked \cup {[index |-> o.index,
                                 row |-> [term |-> o.term, cmd |-> o.req]]}
        /\ Becomes(c, Idling)
        /\ UNCHANGED vars

\* "not leader", or the deadline of five seconds: the row stays in the log.
WriteFails(c) ==
    /\ At(c, "write") /\ RoundOver(c)
    /\ ~WriteCommitted(node[op[c].node], op[c])
    /\ Becomes(c, Idling)
    /\ UNCHANGED <<vars, acked>>

\* Another round after the ticker fired.
WriteRetries(c) ==
    LET n == node[op[c].node]
    IN  /\ At(c, "write") /\ RoundOver(c)
        /\ n.role = "leader" /\ n.currentTerm = op[c].term
        /\ n.commitIndex < op[c].index
        /\ op' = [op EXCEPT ![c].todo = Peers(op[c].node)]
        /\ UNCHANGED <<vars, acked>>

----------------------------------------------------------------------------
(* Read                                                                    *)

ReadStart(c, req, s) ==
    /\ Received(c, req, s) /\ ~IsWrite(req)
    /\ node[s].role = "leader"
    /\ Becomes(c, [at |-> "read", req |-> req, node |-> s,
                   todo |-> Peers(s), acks |-> {}, floor |-> Floor(c)])
    /\ UNCHANGED <<vars, acked>>

\* Mutant: a leader need not hear from anybody.
LeadsAlone(n, o) == n.role = "leader"

\* successes counts the node itself.
Confirmed(n, o) == /\ n.role = "leader"
                   /\ 1 + Cardinality(o.acks) >= Majority

\* A row of the node's own term is in its key-value table.
AppliedInTerm(n) ==
    \E a \in n.applied : a.index <= n.lastApplied /\ a.row.term = n.currentTerm

\* The leader is confirmed; the lock is released before the lookup.
ReadConfirmed(c) ==
    LET n == node[op[c].node]
    IN  /\ At(c, "read") /\ RoundOver(c)
        /\ Confirmed(n, op[c])
        /\ Becomes(c, [at |-> "lookup", req |-> op[c].req, node |-> op[c].node,
                       floor |-> op[c].floor, settled |-> AppliedInTerm(n)])
        /\ UNCHANGED <<vars, acked>>

\* "not leader" or "could not confirm leader quorum".
ReadFails(c) ==
    /\ At(c, "read") /\ RoundOver(c)
    /\ ~Confirmed(node[op[c].node], op[c])
    /\ Becomes(c, Idling)
    /\ UNCHANGED <<vars, acked>>

\* Store.Get, then the answer: a value, or "key not found" (NoValue).
ReadGet(c) ==
    /\ At(c, "lookup")
    /\ Becomes(c, [at |-> "answer", req |-> op[c].req, floor |-> op[c].floor,
                   settled |-> op[c].settled,
                   value |-> node[op[c].node].store.kv[op[c].req.key]])
    /\ UNCHANGED <<vars, acked>>

----------------------------------------------------------------------------
\* The handlers that run on a node that stops are lost with it.  A call still
\* on its way there finds the new process.
StopServer(s) ==
    /\ Restart(s)
    /\ op' = [c \in Client |-> IF (InRound(c) \/ At(c, "lookup")) /\ op[c].node = s
                               THEN Idling ELSE op[c]]
    /\ UNCHANGED acked

ClientStep(c) ==
    \/ \E req \in Requests, s \in Server : Forward(c, req, s)
    \/ NotLeader(c) \/ CallFails(c)
    \/ \E p \in Server : RoundSend(c, p)
    \/ \E req \in Command, s \in Server, f \in Faults : WriteAppend(c, req, s, f)
    \/ WriteSucceeds(c) \/ WriteFails(c) \/ WriteRetries(c)
    \/ \E req \in [key : Key], s \in Server : ReadStart(c, req, s)
    \/ ReadConfirmed(c) \/ ReadFails(c) \/ ReadGet(c)

\* The answers that end a goroutine of a round with true, or send it round
\* its loop again.
AnswerStep ==
    \/ \E r \in appendReps, f \in Faults :
            AppendReplySuccess(r, f) /\ Count(r, TRUE)
    \/ \E r \in appendReps : AppendReplyFailure(r) /\ Count(r, FALSE)
    \/ \E r \in snapReps, f \in Faults :
            SnapReplySuccess(r, f) /\ Count(r, TRUE)

\* Everything that goes on without a client noticing.
NodeStep ==
    \/ ElectionStep
    \/ FollowerStep
    \/ \E s \in Server : \E p \in Peers(s), w \in Worker \ Client :
            SendAppend(s, p, w) \/ SendSnapshot(s, p, w)
    \/ \E r \in appendReps, f \in Faults : AppendReplyStepDown(r, f)
    \/ \E r \in snapReps, f \in Faults : SnapReplyStepDown(r, f)
    \/ \E q \in appendReqs : AppendTimeout(q)
    \/ \E r \in appendReps : AppendReplyLost(r)
    \/ \E q \in snapReqs : SnapTimeout(q)
    \/ \E r \in snapReps : SnapReplyLost(r)

ClientNext ==
    \/ \E c \in Client : ClientStep(c)
    \/ AnswerStep
    \/ \E s \in Unstable : StopServer(s)
    \/ NodeStep /\ UNCHANGED clientVars

ClientSpec == ClientInit /\ [][ClientNext]_<<vars, clientVars>>

----------------------------------------------------------------------------
\* A write that was acknowledged is the command of its index for good: it has
\* been applied and a majority keeps it, whatever leader, restart or
\* truncation comes after (the checks of Write after its wait).
AcknowledgedIsCommitted ==
    \A a \in acked :
        /\ a \in History
        /\ Cardinality({s \in Server : Holds(node[s].store, a.index, a.row)})
                >= Majority

\* The value answered was current at some moment since the client called.
Current(o) ==
    \E i \in o.floor..Max({o.floor} \cup {a.index : a \in History}) :
        o.value = Replay(i)[o.req.key]

\* A Read of a leader that has applied a row of its own term sees every write
\* that was acknowledged before it was called, by whatever leader, although
\* the lookup runs after the lock is released (the quorum round of Read).
ReadsCurrent ==
    \A c \in Client :
        At(c, "answer") /\ op[c].settled => Current(op[c])

\* The same of every Read.
ReadsSeeAcknowledged ==
    \A c \in Client : At(c, "answer") => Current(op[c])

\* A call that was forwarded finds a leader, or a node that knows none, or
\* one in a later term than the node that forwarded it, although that node
\* looked up leaderID before the call travelled: it cannot go in a circle.
HopsClimb ==
    \A c \in Client :
        At(c, "forwarded") =>
            LET n == node[op[c].node]
            IN  \/ n.role = "leader"
                \/ n.leaderID = Nobody
                \/ n.currentTerm > op[c].hop
=============================================================================
