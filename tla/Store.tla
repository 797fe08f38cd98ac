------------------------------- MODULE Store -------------------------------
(***************************************************************************)
(* The durable state of one node: the SQLite database that                 *)
(* internal/storage/storage.go opens, and the effect of every method of    *)
(* its type Store that reads or writes it.                                 *)
(*                                                                         *)
(* A store is a record.  Each field is a row of the metadata table or a    *)
(* whole table; every method below that writes runs in one transaction,    *)
(* so it is one expression here: either all of it happened or none did.    *)
(*                                                                         *)
(* Abstractions of data: a row of log_entries holds the decoded command    *)
(* (every command is a "set", types.go encodes nothing else); the          *)
(* log_index column of kv is never read and is left out; the index and     *)
(* term columns of the snapshot table are always written together with,    *)
(* and equal to, the metadata rows snapshot_index and snapshot_term.       *)
(***************************************************************************)
EXTENDS Integers, FiniteSets, FiniteSetsExt

CONSTANTS Key,      \* keys of the key-value state machine
          Value,    \* values a client may write
          NoValue,  \* "key not found"
          Nobody    \* the empty string in voted_for and in leaderID

ASSUME StoreConstants == /\ Key # {}
                         /\ NoValue \notin Value

Command == [key : Key, value : Value]

Row == [term : Nat, cmd : Command]

\* A log_entries table: a partial function from index to row.
IsTable(table, last) == /\ DOMAIN table \subseteq 1..last
                        /\ table \in [DOMAIN table -> Row]

KvTables == [Key -> Value \cup {NoValue}]

EmptyKv == [k \in Key |-> NoValue]

\* What Open leaves in a new data directory: the metadata defaults.
FreshStore ==
    [current_term   |-> 0,
     voted_for      |-> Nobody,
     last_applied   |-> 0,
     snapshot_index |-> 0,
     snapshot_term  |-> 0,
     snapshot_data  |-> EmptyKv,
     log_entries    |-> [i \in {} |-> 0],
     kv             |-> EmptyKv]

----------------------------------------------------------------------------
(* Queries                                                                 *)

\* Mutant: the fall-back to the snapshot is forgotten.
LastIndexOfRows(st) == Max({0} \cup DOMAIN st.log_entries)

\* LastIndexAndTerm: the last row of the log, or else the snapshot.
LastIndex(st) == IF DOMAIN st.log_entries = {}
                 THEN st.snapshot_index
                 ELSE Max(DOMAIN st.log_entries)

LastTerm(st) == IF DOMAIN st.log_entries = {}
                THEN st.snapshot_term
                ELSE st.log_entries[LastIndex(st)].term

\* Term(index), the second result: is the term of this index known?
HasTerm(st, i) ==
    \/ i = 0
    \/ i = st.snapshot_index
    \/ i > st.snapshot_index /\ i \in DOMAIN st.log_entries

\* Term(index), the first result, where HasTerm(st, i).
TermAt(st, i) == CASE i = 0 -> 0
                   [] i # 0 /\ i = st.snapshot_index -> st.snapshot_term
                   [] OTHER -> st.log_entries[i].term

\* EntriesFrom: the first `limit' rows after the snapshot whose index is at
\* least start, as a table.
EntriesFrom(st, start, limit) ==
    LET from == {i \in DOMAIN st.log_entries :
                    i >= start /\ i > st.snapshot_index}
        sent == {i \in from : Cardinality({j \in from : j < i}) < limit}
    IN  [i \in sent |-> st.log_entries[i]]

----------------------------------------------------------------------------
(* Transactions                                                            *)

\* Mutant: the vote is not saved with the term.
SaveTermOnly(st, term, votedFor) == [st EXCEPT !.current_term = term]

SaveTermVote(st, term, votedFor) ==
    [st EXCEPT !.current_term = term, !.voted_for = votedFor]

\* AppendEntries: insert the rows, overwriting those with the same index.
AppendEntries(st, rows) ==
    [st EXCEPT !.log_entries =
        [i \in DOMAIN rows \cup DOMAIN st.log_entries |->
            IF i \in DOMAIN rows THEN rows[i] ELSE st.log_entries[i]]]

DeleteFrom(st, index) ==
    [st EXCEPT !.log_entries =
        [i \in {j \in DOMAIN st.log_entries : j < index} |-> st.log_entries[i]]]

\* The rows a snapshot up to index leaves in the log.
RowsAfter(st, index) ==
    [i \in {j \in DOMAIN st.log_entries : j > index} |-> st.log_entries[i]]

\* Mutant: the first write of a key wins.
KvFirstWrite(kv, table, I) ==
    [k \in Key |->
        LET writes == {i \in I : table[i].cmd.key = k}
        IN  IF writes = {} THEN kv[k] ELSE table[Min(writes)].cmd.value]

\* The kv table after setting, in order, the commands at indexes I of table.
KvAfter(kv, table, I) ==
    [k \in Key |->
        LET writes == {i \in I : table[i].cmd.key = k}
        IN  IF writes = {} THEN kv[k] ELSE table[Max(writes)].cmd.value]

\* ApplySet for each row from+1..to of the log, one transaction per row.
ApplySets(st, from, to) ==
    IF from = to THEN st
    ELSE [st EXCEPT !.kv = KvAfter(st.kv, st.log_entries, (from + 1)..to),
                    !.last_applied = to]

\* CreateSnapshot: the kv table becomes the snapshot's data.
CreateSnapshot(st, index, term) ==
    [st EXCEPT !.snapshot_index = index,
               !.snapshot_term  = term,
               !.snapshot_data  = st.kv,
               !.log_entries    = RowsAfter(st, index),
               !.last_applied   = index]

\* Mutant: the kv table is not replaced.
InstallKeepsKv(st, index, term, data) ==
    [st EXCEPT !.snapshot_index = index,
               !.snapshot_term  = term,
               !.snapshot_data  = data,
               !.log_entries    = RowsAfter(st, index),
               !.last_applied   = index]

\* Mutant: last_applied is not moved.
InstallKeepsApplied(st, index, term, data) ==
    [st EXCEPT !.snapshot_index = index,
               !.snapshot_term  = term,
               !.snapshot_data  = data,
               !.log_entries    = RowsAfter(st, index),
               !.kv             = data]

\* InstallSnapshot: the snapshot's data becomes the kv table.  Rows after
\* the snapshot stay, whatever their terms.
InstallSnapshot(st, index, term, data) ==
    [st EXCEPT !.snapshot_index = index,
               !.snapshot_term  = term,
               !.snapshot_data  = data,
               !.log_entries    = RowsAfter(st, index),
               !.last_applied   = index,
               !.kv             = data]
============================================================================
