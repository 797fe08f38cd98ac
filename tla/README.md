# A TLA+ verification of the SNA Raft log cluster

This directory models the Raft implementation of this repository
(`internal/raft`, `internal/storage`) in TLA+, from the database up to the client
calls, and checks it with TLC on small clusters. For clusters of any size it proves with
TLAPS the election properties and, under named hypotheses that the refuting runs show to
be needed, the safety of the replicated log: logs match, nodes apply the same commands,
and the whole implements two abstract specifications.
Line numbers below refer to the source files at the commit the model was made from;
`PROJECT.json` maps each definition to its lines.

## 1. The system

| Component | State | Operations | Correct when |
|---|---|---|---|
| Durable store (`storage.go`) | SQLite tables `metadata`, `log_entries`, `kv`, `snapshot` | one method per query, one transaction per write | a write is all or nothing; the last index survives compaction; `kv` is what the applied commands give |
| Elections (`node.go`, `rpc.go`) | `role`, `currentTerm`, `votedFor`, `leaderID`, the vote count of a running `startElection` | `startElection`, `RequestVote`, answers, `becomeLeaderLocked`, `stepDownLocked` | one leader per term; a vote is saved before it counts; the leader a node names did win |
| Replication (`node.go`, `rpc.go`) | `nextIndex`, `matchIndex`, `commitIndex`, `lastApplied` | `replicatePeer`, `AppendEntries`, `advanceCommitLocked`, `applyCommittedLocked` | logs agree; what is applied is on a majority, stays there, and is the same everywhere |
| Snapshots | snapshot and compacted log | `compactIfNeededLocked`, `InstallSnapshot` | no gap between snapshot and log; the snapshot is the state at its index |
| Restart | none but the store | `New` | nothing promised before the crash is forgotten |
| Client service (`rpc.go`) | none of its own | `Write`, `Read`, `Status`, forwarding to `leaderID` | an acknowledged write is committed; a read returns the latest acknowledged write; forwarding ends |
| Timers (`run`) | election deadline, heartbeat tick | start elections, start replication | elections end, followers catch up |
| Configuration, metrics, logging, wire, commands, deployment | - | - | not modelled, see section 8 |

Interaction.  Nodes exchange three gRPC calls. `Node.mu` protects a node's
memory, but it is released around every outgoing call: `startElection` and
`replicatePeer` read state, unlock, call, lock again and use the answer. A
heartbeat every 100 ms and each `Write` and `Read` start their own goroutines,
so several of them replicate to the same peer at once.

What is hard here: state that is stale after a call; answers and late requests in
any order; restarts between any two store transactions; store methods that fail
in the middle of a handler, after memory has been changed; snapshots that cross
appends on the way; rows of earlier terms. `PROJECT.json` lists each such place
under `hazards`, with the properties that watch it.

## 2. Modules

| Module | Contents |
|---|---|
| `Store` | the database as a record and the `Store` methods as operators |
| `Raft` | extends `Store`; all nodes and the network: one action per critical section |
| `RaftProperties` | extends `Raft`: the type invariant, invariants and action properties |
| `Leadership` | abstract: one winner per term, and whom each node names |
| `ReplicatedStateMachine` | abstract: one growing sequence of commands, tables that are prefixes of it |
| `RaftRefinement` | extends `RaftProperties`: the mappings under which `Raft` implements both |
| `ClientService` | extends `RaftProperties`: `Write` and `Read` composed with the nodes |
| `RaftLiveness` | extends `RaftProperties`: fairness and what eventually happens |
| `MCRaft`, `MCClient`, `MCLiveness` | bounds, symmetries and constraints for TLC |
| `RaftTypeProofs` | proof of the type invariant |
| `RaftElectionProofs` | proofs of the election properties |
| `RaftLogProofs` | logs and requests have no hole (`NoLogGap`) |
| `RaftMatchingProofs` | logs with a common row agree up to it (`LogMatching`) |
| `RaftAckProofs` | what was acknowledged is there (`MatchIndexHonest`) |
| `RaftCommitProofs` | what is committed stays and is applied alike everywhere |
| `RefinementProofs` | `Raft` implements `Leadership` and `ReplicatedStateMachine` |
| `ClientProofs` | `ClientService` implements `Raft`; forwarded calls climb (`HopsClimb`); acknowledged writes stay and reads see them |

**State.** `node[s]` is the `Node` struct of `s`, with its store in the field
`store`. `votes` is the counter of the running `startElection`, as the set of
servers counted (a call is answered at most once, so set and counter agree).
`applied` and `elected` are history, read by properties only. The six sets of
requests and answers are the calls in flight.

**Actions.** Each is one critical section, with every call it makes on the store:
`RequestVoteStale/Granted/Rejected/Error`, `AppendStale/Refused/Accepted/Error`
and `SnapshotStale/Ignored/Installed/Error` are the ways through the three
handlers; `StartElection`, `VoteReply...`, `SendAppend`, `SendSnapshot`,
`AppendReply...` and `SnapReply...` are the sections of the two goroutines;
`Write` is the client's call up to its wait. The operators `stepDownLocked`,
`becomeLeaderLocked`, `advanceCommitLocked`, `applyCommittedLocked` and
`compactIfNeededLocked` are the functions of the same names, on a node record.

**Client calls** (`ClientService`). `op[c]` is the call of client `c` and where it is:
at the client, forwarded to a node, in the round of `Write` or of `Read`, at the
lookup, answered. `Forward` is the first critical section of either handler on a node
that does not lead; the hop then travels while the nodes move on. `WriteAppend` is the
whole first section of `Write` (the action `Write` of `Raft` and the start of the
round). `RoundSend`, `AnswerStep` and `RoundOver` are `replicateAllOnce`: one goroutine
per peer, each sending again after a refusal, all awaited; they are the `Worker` of the
client's name, so that the heartbeats of the run loop, the other `Worker`s, interleave
with them. `WriteSucceeds`, `WriteFails` and `WriteRetries` are what `Write` does after
a round, `ReadConfirmed`, `ReadFails` and `ReadGet` what `Read` does; the lookup is a
step of its own because the lock is released before it. A call that fails and one whose
client gives up are the same to the client, which then calls again, with the same
request or another: this is also the retry. `acked` is history: the rows `Write`
answered for. `op.floor` and `op.settled` are history too: what was acknowledged when
a call began, and whether the leader had applied a row of its own term when confirmed.

**Abstract specifications.** `Leadership` knows a set of winners and, per node, the
winner it names. The mapping takes `elected` for the winners, and reads `leaderID` in
the node's current term. Its steps say more than the invariants: a node goes to a later
winner only, or to none, and a new winner names itself in the same step.
`ReplicatedStateMachine` is the cluster as its users see it. The mapping takes the
commands applied anywhere for the sequence, and the tables `kv` and `last_applied` on disk
for the state of each server; so no step, a restart included, may take a table back.

**Failures.** `Fault` is the set of store methods that may return an error, and
an action takes what goes wrong as a parameter `f`: the failing method and, for a
method that a loop calls for each row, the row at which it fails. So the loop of
`applyCommittedLocked` may stop at any row, by `Entry` or by `ApplySet`, and the loop of
`advanceCommitLocked` may return at any row whose `Term` cannot be read, with
`commitIndex` raised by an earlier one and nothing applied. (`Term` fails where the
`SnapshotIndexTerm` that it calls does.) `RequestVote` saves twice, and either save may
be the one that fails. One method fails in a critical section, two do not. A
crash inside a critical section, between two transactions, leaves the store exactly
as the failure of the second transaction does; `Restart` right after it then loses the
memory. So faults and restarts together cover a crash between any two transactions.

**Network.** A request may be handled late (after its caller timed out), lost, or
overtaken; its answer may be lost. gRPC never duplicates a call. A vote request or
answer that is lost is one that is never handled, so it needs no action: no fairness
is assumed of elections.

**Left out because it has no effect.** Answers that their goroutine would ignore are dropped
when that is certain (`Heeded`), the `matchIndex` of a refusal (nobody reads it),
`lastApplied == 0` in the compaction test (then nothing exceeds the snapshot), and
the back-off of `replicatePeer` for an unknown previous term (`NoLogGap` shows that it is unreachable).

**Bounds**, all constants of `Raft`: `Ballot` (who may stand, and who is asked, in each
term), `MaxIndex`, `MaxCalls` and `Worker`. The proofs hold for all values of these, except that
the hypothesis `FullBatch` of section 7 relates `MaxIndex` to the batch size.
`Client` and `Reachable` are the further constants of `ClientService` and `RaftLiveness`.

## 3. Properties

| Property | Meaning |
|---|---|
| `TypeOK` | types, and no index in memory, on disk or in flight past the last write |
| `ElectionSafety` | at most one winner per term |
| `VotesBacked` | a vote counted or in flight is on the voter's disk, one per voter and term |
| `VoteDurable` | no step lowers the saved term or replaces the vote saved in it |
| `LeaderHint` | the leader a node names won that node's term |
| `NoForwardingLoop` | a call forwarded to `leaderID` does not run in a circle |
| `LogMatching` | same index and term: same log up to there |
| `NoLogGap` | snapshot, log and `nextIndex` of a leader fit together without a hole |
| `StateMachineSafety` | two nodes never apply different commands at one index |
| `LeaderCompleteness` | the leader of the latest term holds every applied row |
| `CommittedOnMajority` | an applied row is, and stays, on a majority |
| `AppliedRowsStay` | no step takes an applied row from a log, except into the snapshot |
| `MatchIndexHonest` | the leader never counts a row its peer does not hold |
| `DurableStateMachine` | `kv` and the snapshot are what the commands up to their indexes give |
| `LastAppliedIsDurable` | `lastApplied` in memory and on disk agree (proved without compaction; with it, `rollback` breaks it, and no run checks it) |
| `ImplementsLeadership` | every step is one of `Leadership`, or none |
| `ImplementsStateMachine` | every step is one of `ReplicatedStateMachine`, or none |
| `AcknowledgedIsCommitted` | a write that was acknowledged is, and stays, applied and on a majority |
| `ReadsCurrent` | a read of a leader that has applied a row of its own term returns a value current since the call began |
| `ReadsSeeAcknowledged` | the same of every read (violated, section 5) |
| `HopsClimb` | a forwarded call arrives at a leader, at a node that knows none, or in a later term |
| `CatchUp` | a leader that stays brings every node it reaches up to its log and its applied rows |
| `CommitsOwnRows` | a leader that stays and reaches a majority commits its log once the last row is its own |

## 4. Runs

Three servers unless stated. Deadlock checking is on (a node may restart in every
passing run, so none can block).

| Run (module) | Instance | Shows |
|---|---|---|
| `election` (`MCRaft`) | n1 and n2 stand in 2 terms, all vote, all restart, one heartbeat in flight, `SaveTermVote` and `LastIndexAndTerm` may fail | `ElectionSafety`, `LeaderHint`, `NoForwardingLoop`, `VotesBacked`, `VoteDurable`, `ImplementsLeadership` |
| `replication` (`MCRaft`) | n1 then n2 lead, 2 rows, 2 calls in flight, `DeleteFrom` may fail, n1 restarts | `TypeOK`, `CommittedOnMajority`, `MatchIndexHonest`, `AppliedRowsStay` |
| `figure8` (`MCRaft`) | n1 and n3 alternate for 4 terms with voter n2, 2 rows | `LogMatching`, `LeaderCompleteness`, `StateMachineSafety` |
| `snapshot` (`MCRaft`) | a snapshot after each commit, 3 terms, 2 values, one call in flight, `InstallSnapshot` may fail, n1 restarts | `NoLogGap`, `LeaderCompleteness`, `DurableStateMachine`, `ImplementsStateMachine` |
| `faults` (`MCRaft`) | 2 terms, 2 rows, 2 values, n1 and n2 compact after each commit, `AppendEntries` and `ApplySet` may fail, n1 restarts | `NoLogGap`, `DurableStateMachine`, `AppliedRowsStay`, `ImplementsStateMachine` |
| `single` (`MCRaft`) | one node, 4 writes, 2 values, snapshot every 2, `Entry`, `ApplySet`, `CreateSnapshot` and `SnapshotIndexTerm` may fail, at any row, restarts | `NoLogGap`, `ImplementsStateMachine` |
| `client` (`MCClient`) | one client, n1 then n2 lead, 2 rows, n1 compacts and restarts, one call between nodes in flight | `AcknowledgedIsCommitted`, `ReadsCurrent`, `HopsClimb` |
| `liveness` (`MCLiveness`) | n1 then n2 lead, 3 rows, snapshots, n2 and n3 reach each other, n3 restarts any number of times | `CatchUp`, `CommitsOwnRows` |
| `rollback` (`MCRaft`) | 1 term, 3 rows, 2 keys, 2 goroutines | `DurableStateMachine` is violated |
| `lostterm` (`MCRaft`) | 5 nodes, 2 terms, one disk that fails to save the term | `CommittedOnMajority` is violated |
| `staleread` (`MCClient`) | 1 row, 2 terms | `ReadsSeeAcknowledged` is violated |
| `livelock` (`MCLiveness`) | 3 terms, 3 rows, snapshots, 2 goroutines, n1 and n2 reach each other | `CommitsOwnRows` is violated |

Why the bounds are enough for what is claimed. Two terms and three nodes contain
every way in which two candidates compete for a voter that restarts between its
votes. Four terms with one common voter are the shortest history in which a row of
an earlier term on a majority is overwritten; the mutant that counts such rows is
caught there. One row before and one row after a compaction exercise every boundary
of `LastIndex`, `Term` and `EntriesFrom`. `snapshot`, `faults`
and `single` have two values, because a table tells a second command from the first, or
from none, only by a second value. In `single` there is no second node to compare with, so
what is checked is the refinement: the commands applied form one sequence without
a gap, which only grows, and the table is what they give. Its four rows let the loops
fail at a row in the middle. `CreateSnapshot`, `Entry` and `SnapshotIndexTerm` fail in this run
only; in the handlers of a follower no run has them, but the theorems of section 7 that do not
assume N or A do. In the runs with a restricted `Ballot` the candidates of each term are
fixed, which loses other orders of candidates but no order of messages, restarts
and failures; in the `election` run both candidates may stand in both terms. Symmetry
is used over the two candidates in `election`, which the instance treats alike, over
values in `snapshot` and `faults`, over keys in `rollback`, and not where liveness is checked.
In the `client` run the constraint `ValueIsTerm` fixes what each leader is asked to
write, so that a value read tells whose write it was, and `FirstWritesOnce` leaves the
first leader one row, which the second may overwrite or add to; two writers with a row each are
what it takes to tell a stale answer from a current one, and a third node that can be
on either side what it takes to depose a leader while its call is under way. In the
`liveness` run n1 may leave n3 with rows that n2 has not, or n2 with rows that n3 has not,
before n2 leads, and n2 compacts what it commits: the new leader has to go back, truncate,
append, or send its snapshot.

The last four runs use a constraint, where one is given, only to find the
counterexample sooner: the constraint removes behaviours, so the one found is a
behaviour of the model without it.

Each property of each passing run has a mutant in `PROJECT.json`: a definition of
the model changed the way a slip in the code would change it (a vote that is not
saved, a majority that is one short, a previous-entry check without the term), under
which TLC finds the property violated.

## 5. What the code does not do

Four runs refute what the repository says of itself. In short:

* **`rollback`** - `InstallSnapshot` accepts a snapshot older than what the
  follower has applied (`rpc.go:158-172`). `kv` goes back, `lastApplied` does not,
  and the rows in between are never applied: a committed write is lost from that
  node's state machine. Two replication goroutines suffice, no failure is needed.
  With one call in flight to each node it does not happen, which is why the
  `snapshot` run passes.
* **`lostterm`** - `stepDownLocked` continues when the new term cannot be saved
  (`node.go:341`), and after a restart the node obeys the old leader again.
* **`staleread`** - `Read` confirms that the node leads, not that its table is current
  (`rpc.go:276-288`). A new leader has every acknowledged row in its log but commits
  none before a row of its own term, and it appends none by itself; until a client
  writes, it answers reads from the table it had as a follower. `ReadsCurrent`
  is what remains true: once it has applied a row of its own term, reads are current.
* **`livelock`** - a follower with a snapshot at index i refuses every `AppendEntries`
  with `prev_log_index` below i (`rpc.go:68`). A leader whose two goroutines both saw the
  first refusal steps `nextIndex` back twice (`node.go:531`) and is below i for good:
  the follower's `match_index`, which says where to go on, is ignored in a refusal. If
  the leader has no snapshot itself, it never commits, although a majority answers it.
  With one goroutine at a time the step back stops at the right row: the `liveness` run.

Two further situations are reproduced by configurations that are not among the runs:

* **`batch`** (`tlc -config batch.cfg MCRaft`: `CommittedOnMajority` is violated) - a
  follower moves `commitIndex` to the end of its own log, not of the
  request (`rpc.go:131`). With `nextIndex` stepped back twice by two goroutines and a
  request cut by `appendBatchSize`, it commits rows of its own. (The instance has a batch
  of one row; with 128, as in the code, the same needs a divergent log of that length.)
* **`stalesnap`** (`tlc -config stalesnap.cfg MCRaft`: `CommittedOnMajority` is violated) -
  the answer of `InstallSnapshot` is used without checking role and
  term (`node.go:451`), so a former leader may commit by its old `matchIndex`.

And two more by a change of one constant, `"ApplySet"` in `Fault`:

* the `liveness` instance violates `CatchUp`. A follower that fails to apply a row tries
  again only when `leaderCommit` grows (`rpc.go:130`), so it stays behind until the next
  write.
* the `client` instance violates `AcknowledgedIsCommitted`, and, with `Ballot <- OneTerm`
  and without its constraints, `ReadsCurrent`. `Write` answers on `commitIndex` alone
  (`rpc.go:229`). If `ApplySet` failed when the leader committed the row, the write is
  acknowledged before the leader has applied it, and a `Read` of that same leader then
  answers with the value before.

The same comes about without a failing apply. If `Term` cannot be read at a later row,
`advanceCommitLocked` returns after an earlier row has raised `commitIndex` and before
anything is applied (`node.go:546-551`). The `client` instance with
`"SnapshotIndexTerm"` in `Fault`, two clients, `Ballot <- OneTerm`, `NoSnapshots` and no
constraints violates `AcknowledgedIsCommitted`: the first of two waiting writes is
acknowledged and nobody has applied it.

For this reason the properties of the committed log (`StateMachineSafety`,
`CommittedOnMajority`, `LeaderCompleteness`, `AppliedRowsStay`, `DurableStateMachine`) are
not theorems of the code for all constants. They are theorems where these situations
cannot arise (section 7): no compaction, no failing `SaveTermVote`, requests that
reach the end of the log and, for what clients are told, no failing `Entry`,
`Term` or `ApplySet`. With snapshots, the runs show them with one call in flight.

## 6. Fairness

`Spec` and `ClientSpec` have no fairness: the safety properties hold whether or not a
timer fires or a message arrives. `LiveSpec` adds three assumptions, and only for the
nodes of `Reachable`, a majority:

* A leader calls each reachable peer again and again: `run` starts `replicateAllOnce`
  at every heartbeat, for as long as the node leads (`node.go:229-239`). It is strong
  fairness because the bound `MaxCalls` of the model, which the code does not have, may
  block a send now and then.
* If a leader waits for a peer's answer again and again, it uses an answer again and
  again. Any number of calls, and of answers, may be lost or late, but not all of them.
  Fairness of each delivery would be more than a network gives.
* Calls end, by an answer or by their deadline of 900 ms (`node.go:433`, `489`), so that
  the calls of others do not fill `MaxCalls` for ever.

Nothing is assumed of elections, clients, restarts, timeouts or of the nodes outside
`Reachable`. The conclusions are therefore about a leader that stays: whether one is ever
elected depends on the jitter of the timers, which the model does not have. A node of
`Reachable` that restarts for ever still catches up, since its log is on disk.

## 7. What is proved

All theorems hold for every finite set of servers, every threshold, batch size, set of
failing methods, set of restarting nodes and bound, from the named assumptions
`StoreConstants`, `RaftConstants` and `ClientConstants` (TLC evaluates them on the runs),
except for the hypotheses that the table names.

| Theorem (module) | States | Hypotheses |
|---|---|---|
| `TypeCorrect` (`RaftTypeProofs`) | `TypeOK` | - |
| `ElectionsSafe`, `VotesAreBacked`, `LeaderHintsTrue`, `ForwardingEnds`, `VotesDurable` (`RaftElectionProofs`) | `ElectionSafety`, `VotesBacked`, `LeaderHint`, `NoForwardingLoop`, `VoteDurable` | - |
| `RaftImplementsLeadership` (`RefinementProofs`) | `ImplementsLeadership` | - |
| `ClientsImplementRaft` (`ClientProofs`) | `ClientSpec => Spec` | - |
| `ForwardedCallsClimb` (`ClientProofs`) | `HopsClimb` | - |
| `LogsHaveNoGap` (`RaftLogProofs`) | `NoLogGap` | - |
| `LogsMatch` (`RaftMatchingProofs`) | `LogMatching` | N |
| `LastAppliedDurable` (`RaftCommitProofs`) | `LastAppliedIsDurable` | N |
| `MatchIndexesHonest` (`RaftAckProofs`) | `MatchIndexHonest` | N, T |
| `StateMachinesAgree`, `LeadersAreComplete`, `CommitsStayOnMajority`, `AppliedRowsAreKept`, `StateMachinesAreDurable` (`RaftCommitProofs`) | `StateMachineSafety`, `LeaderCompleteness`, `CommittedOnMajority`, `AppliedRowsStay`, `DurableStateMachine` | N, T, B |
| `RaftImplementsStateMachine` (`RefinementProofs`) | `ImplementsStateMachine` | N, T, B |
| `CommittedIsApplied` (`RaftCommitProofs`) | `lastApplied >= commitIndex` outside critical sections | N, A |
| `AcknowledgedWritesHeld` (`ClientProofs`) | a majority keeps what `Write` acknowledged | N, T, B |
| `AcknowledgedWritesStay` (`ClientProofs`) | `AcknowledgedIsCommitted`, with `StateMachineSafety` | N, T, B, A |
| `SettledReadsCurrent` (`ClientProofs`) | `ReadsCurrent` | N, T, B, A |

The four hypotheses:

* N, `NoCompaction`: the snapshot threshold of every node is 0, which in the code turns
  compaction off. With it on, `rollback` breaks `DurableStateMachine` and `stalesnap`
  breaks `CommittedOnMajority`.
* T, `NoLostTerm`: `SaveTermVote` is not among the failing methods; all others may fail.
  Without it, `lostterm` breaks `CommittedOnMajority`.
* B, `FullBatch`: `AppendBatchSize >= MaxIndex`, a request can hold a whole log. With the
  128 rows of the code this covers histories of up to 128 writes, and with a larger batch
  correspondingly longer ones. Without it, `batch` breaks `CommittedOnMajority`.
* A, `NoLostApply`: `Entry`, `ApplySet` and `SnapshotIndexTerm`, by which `Term` fails, are
  not among the failing methods: they stand between raising `commitIndex` and
  applying the rows up to it. Without it,
  `AcknowledgedIsCommitted` and `ReadsCurrent` are violated as section 5 says;
  `AcknowledgedWritesHeld` is what remains of them then: no acknowledged row is lost.

The `replication` and `figure8` instances satisfy all four, so the theorems say of every
cluster, number of goroutines and order of candidates, and of logs up to the
length of a batch, what these runs say of theirs.

**Types.** `TypeOK` is inductive as it stands. The proof goes through lemmas on `Store`
(each method keeps `IsStore`), then on the `...Locked` operators (each keeps `IsNode`),
then one lemma per action.

**Elections.** `ElectionSafety` is not inductive: that two winners of a term are equal
says nothing of the votes they won by. `ElectionInv` adds, for every node, how its vote
in memory and on disk relate (`VoteInv`: the disk is never ahead of memory, and only a
candidate counts votes, its own among them) and that its hint is in `elected`
(`HintInv`); that replication requests in flight come from the winner of their term
(`CallsInv`); that a vote counted or in flight is on disk and unique (`CastInv`); and
that every winner has a majority of voters each of which still remembers it on disk
or has left the term for good (`ElectedInv`). Two winners of one term share a voter,
whose vote is unique: hence `ElectionSafety`. The point of this form is that it
speaks of disks, so `Restart` and failing saves preserve it. Every action falls into
one of a few kinds - no vote changes, a vote is given, a vote is counted, an election
is won - each with its own step lemma.

**Logs without holes.** `LogInv`: every store and every request in flight is gapless, a
leader's `nextIndex` is in or right after its log, and while the sender of a request
leads the request's term, neither the request nor its answer names an index past the
sender's log (a late answer must not push `nextIndex` off the end).

**Matching.** `MatchInv` speaks of segments, the logs and the rows of requests alike: any
two match, that is, a common row or a common previous row makes them equal up to there;
every row was written in a term that somebody won, and the winner, while it leads, has
all rows of its term. The last part is why a new row never collides with an old one.

**Acknowledgements.** `AckInv` follows an acknowledgement from the follower's log to the
answer and into `matchIndex`: what was acknowledged in a term is in the follower's log
while it stays in that term. It also says that memory and disk are in the same term, so
that a restart does not take a node back: this is where hypothesis T enters.

**Commits.** `SafetyInv` adds three parts. A *point* is a log up to an index k; it is
*safe with* a set Q of nodes if all of Q hold it, whoever stands in a later term with a
vote of Q has row k, whoever leads that term or a later one has it, whatever has a later
row has row k, and no request of that term or a later one contradicts it.

* `OrderInv`: terms never fall along a log, and the request for a vote of a candidate that
  still stands tells where its log ends. So the comparison of logs in `RequestVote` means
  that a vote of Q goes to logs that have row k.
* `SentInv`: a row of a leader's own term is safe with the nodes that have acknowledged
  it, including those whose answer is still on its way, or a majority has left the
  leader's term without any of them. The second case is what makes the invariant
  inductive: before there is a majority of acknowledgements the row may well be lost.
* `CommitInv`: every row up to any node's `commitIndex` is *settled*, that is, in a point
  that is safe with a majority; the `leaderCommit` of a request lies within its rows
  (hypothesis B) and is settled; and `applied`, `kv` and `last_applied` are what the rows
  up to `lastApplied` give.

That a point safe with a majority stays safe (`SafeKept`) is the core of the argument: a
new leader has a vote of Q, so it has row k, so its rows and requests pass row k.
`CountedSettled` is the commit rule of `advanceCommitLocked`: a majority of
`matchIndex`es and a row of the leader's own term settle the row and all before it. Two
settled rows of one index share a holder, hence `StateMachineSafety`; and with it the
history of applied commands is the log of the node that has applied most, hence
`ImplementsStateMachine`.

**Clients.** `ClientsImplementRaft` makes every theorem above one of the composition.
`ClientInv` records that a call that travels goes to a node that won the term in which it
was named: hence `HopsClimb`.

**Acknowledged writes.** Neither part of `AcknowledgedIsCommitted` is inductive: it says
nothing of the calls that still wait. `WriteInv` says that the node of a waiting `Write`
won the term of its row and, while it leads that term, has the row at its index; a node
that was deposed may have lost it, which is why `Write` compares role and term before it
looks at `commitIndex`. So the row that `WriteSucceeds` answers for is the one that is
committed, and by `CommitInv` it is settled (`WritesInv`), which it stays by `SafeKept`.
A settled row need not have been applied; that is `AckedInv`, from `CommittedIsApplied`:
the leader that acknowledged a row has applied it. For `CommittedIsApplied` alone it
matters that a committed index is never past the end of the log when it is adopted, so
that the loop of `applyCommittedLocked` finds every row.

**Reads.** `ReadsInv` follows a `Read` from place to place.

* `FloorInv`: the floor of a call, also of one that travels, is the index of an acknowledged
  row (or 0).
* `PendingInv`: a request that a goroutine of the call waits for, or its answer, exists only
  while the call is in the round on that node. So when a round begins, no answer to an
  earlier round of the same client is left to be counted by mistake.
* `ReadInv`: when the round begins a majority V has been in the term T of the floor's row,
  because the row is settled. From then on, every answer of a node of V to the round is
  of term T or later, and so is the leader's term once it has counted one of them. That
  the term of an answer is that of the request, and that `replicatePeer` compares it with
  the current term before it counts, is what carries this through elections and restarts
  during the round.
* `ConfirmedReads`: a round that is confirmed has counted a node of V, so the leader is in
  T or later. If it is in T, it is the leader that acknowledged the row, and has applied
  it. If it is in a later term, it has the row in its log (`Led`), and terms never fall
  along a log: a row of its own term that it has applied comes after. Either way
  `lastApplied` is not below the floor. (Without the row of its own term the second case
  fails: run `staleread`.)
* `LookupInv`, `AnswerInv`: `lastApplied` does not fall between the unlock and the lookup, and
  what the commands up to an applied index give never changes (`ReplayKept`), so the
  answer stays right while other writes go on.

TLC checked these parts on the `client` instance without compaction before
they were proved.

Only model-checked, on the instances of section 4: the log, the state machine and the
client's guarantees with compaction (except `TypeOK`, `NoLogGap`, `HopsClimb` and everything
about elections, which are proved with it), and liveness (`CatchUp`, `CommitsOwnRows`),
which is out of the reach of the proof system.

## 8. Not modelled

`config`, `metrics`, `logging`, the wire codec, the generated code, the two commands,
the demo script and the deployment hold no state that the node reads back: `config`
is read once before a node exists, and what it sets are constants here; nothing reads
a metric or a log line; the codec and the generated code carry the same
fields as the calls of the model; `raftctl` makes one call and prints its answer.
`Status`, `MustLeaderID`, `WaitForLeader` and `ID` read a node and change nothing.
The checks for an empty key return before any state is read, so `Key` has no such member.

Time itself is not modelled, so nothing is said about how long an election takes or
whether it ends. The 64 attempts of a `replicatePeer` are not counted: each is a send
like any other. Terms and indexes are `uint64` and are not expected to overflow. That a
client which retries an unanswered write may write twice is a behaviour of the model
(`WriteFails` leaves the row in the log) and has no property: calls carry nothing by
which a retry could be recognised.

## 9. Plan

Done: `Store`, `Raft`, the safety properties, the client service, liveness under the
heartbeats' fairness, two abstract specifications and their refinement mappings, and the
proofs of section 7: every safety property that a run checks is a theorem, under the
hypotheses named there. Left:

1. The proofs with compaction, for one call in flight: points would start at a snapshot,
   and `rollback` and `stalesnap` would have to be excluded by a hypothesis on the number
   of calls.
2. `FullBatch` could be weakened to histories in which no two goroutines step the same
   `nextIndex` back, which is what `batch` needs; that is a hypothesis on behaviours and not
   on constants.
